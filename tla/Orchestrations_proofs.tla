------------------------ MODULE Orchestrations_proofs ------------------------
(***************************************************************************)
(* Proofs about OrchestrationRunner, for every plan: any number of nodes,  *)
(* any dependencies, gates, strategies, attempts and total budget; and     *)
(* about ApplicationOrchestration, for every plan and any number of places *)
(* and of calls that continue it, one after the other.                     *)
(***************************************************************************)
EXTENDS OrchestrationRunner, ApplicationOrchestration, FiniteSetTheorems, TLAPS

Busy == {"executing", "authorizing", "delaying"}

\* The place of executeNode() and the status the coordinator keeps agree.
Standing ==
    \A n \in Node :
        /\ pc[n] \in Busy <=> status[n] = "running"
        /\ pc[n] = "returned" => status[n] \in Broken \union {"succeeded"}

\* What Promise.all() waits for: every execution that has not returned.
Level ==
    /\ toStart \subseteq batch
    /\ \A n \in toStart : pc[n] = "idle"
    /\ \A n \in Node : pc[n] \in Busy \union {"threw"} => n \in batch
    /\ result # "none" => toStart = {}

CoreInv == TypeOK /\ Standing /\ Level

(***************************************************************************)
(* The steps of the runner, by what they do to the status of the nodes.    *)
(***************************************************************************)

Begins(n) == Ready(n) /\ status' = [status EXCEPT ![n] = "running"]

Ends(n) == status[n] = "running" /\ status' = [status EXCEPT ![n] = "succeeded"]

Breaks(n, s) ==
    /\ status[n] = "running" \/ Ready(n)
    /\ status' = [m \in Node |-> IF m = n THEN s
                                 ELSE IF m \in SkippedBy(n) THEN "skipped"
                                 ELSE status[m]]

StatusStep ==
    \/ status' = status
    \/ \E n \in Node : Begins(n) /\ result = "none"
    \/ \E n \in Node : Ends(n)
    \/ \E n \in Node, s \in Broken :
         Breaks(n, s) /\ (Ready(n) => result = "none")

LEMMA BreaksType ==
    ASSUME TypeOK, NEW n \in Node, NEW s \in Broken, Breaks(n, s)
    PROVE  status' \in [Node -> Statuses]
BY DEF TypeOK, Breaks, Statuses

\* The head of the retry loop, called for a ready or a running node.
LEMMA AttemptStep ==
    ASSUME CoreInv, NEW n \in Node, Attempt(n), Ready(n) \/ status[n] = "running",
           batch' = batch, n \in batch, result' = result,
           toStart' = toStart \ {n}
    PROVE  /\ status' \in [Node -> Statuses]
           /\ pc' \in [Node -> Busy \union {"idle", "returned", "threw"}]
           /\ used' \in Nat /\ exceeded' \in BOOLEAN
           /\ Standing' /\ Level'
           /\ \/ Ready(n) /\ Begins(n)
              \/ status' = status /\ status[n] = "running"
              \/ \E s \in Broken : Breaks(n, s)
<1> USE DEF Broken, Busy
<1>1. CASE aborted
  <2>1. Breaks(n, "cancelled") /\ pc' = [pc EXCEPT ![n] = "returned"]
        /\ used' = used /\ exceeded' = exceeded
    BY <1>1 DEF Attempt, Fail, Breaks
  <2>2. status' \in [Node -> Statuses]
    BY <2>1, BreaksType DEF CoreInv
  <2>. QED  BY <2>1, <2>2 DEF CoreInv, TypeOK, Standing, Level, Breaks, SkippedBy
<1>2. CASE ~aborted /\ used + 1 > TotalIterations
  <2>1. Breaks(n, "policy_blocked") /\ pc' = [pc EXCEPT ![n] = "returned"]
        /\ used' = used /\ exceeded' = TRUE
    BY <1>2 DEF Attempt, Fail, Breaks
  <2>2. status' \in [Node -> Statuses]
    BY <2>1, BreaksType DEF CoreInv
  <2>. QED  BY <2>1, <2>2 DEF CoreInv, TypeOK, Standing, Level, Breaks, SkippedBy
<1>3. CASE ~aborted /\ ~(used + 1 > TotalIterations)
  <2>1. /\ used' = used + 1 /\ exceeded' = exceeded
        /\ status' = [status EXCEPT ![n] = "running"]
        /\ pc' = [pc EXCEPT ![n] = "executing"]
    BY <1>3 DEF Attempt
  <2>2. status[n] = "running" => status' = status
    BY <2>1 DEF CoreInv, TypeOK
  <2>. QED  BY <2>1, <2>2 DEF CoreInv, TypeOK, Standing, Level, Begins, Statuses
<1>. QED  BY <1>1, <1>2, <1>3

\* A failure of a running node.
LEMMA FailStep ==
    ASSUME CoreInv, NEW n \in Node, NEW s \in Broken, Fail(n, s),
           status[n] = "running", batch' = batch, result' = result,
           toStart' = toStart
    PROVE  /\ status' \in [Node -> Statuses]
           /\ pc' \in [Node -> Busy \union {"idle", "returned", "threw"}]
           /\ Standing' /\ Level'
           /\ Breaks(n, s) /\ ~Ready(n)
<1>1. Breaks(n, s) /\ pc' = [pc EXCEPT ![n] = "returned"] /\ ~Ready(n)
    BY DEF Fail, Breaks, Ready
<1>2. status' \in [Node -> Statuses]
    BY <1>1, BreaksType DEF CoreInv
<1>. QED
    BY <1>1, <1>2 DEF CoreInv, TypeOK, Standing, Level, Breaks, SkippedBy, Busy, Broken

\* The decision about a retry, after the executor failed.
LEMMA DecideStep ==
    ASSUME CoreInv, NEW n \in Node, NEW safe \in BOOLEAN, Decide(n, safe),
           status[n] = "running", batch' = batch, result' = result,
           toStart' = toStart
    PROVE  /\ status' \in [Node -> Statuses]
           /\ pc' \in [Node -> Busy \union {"idle", "returned", "threw"}]
           /\ Standing' /\ Level'
           /\ \/ status' = status
              \/ Breaks(n, "failed") /\ ~Ready(n)
<1>1. CASE Retries(n, safe)
    BY <1>1 DEF Decide, CoreInv, TypeOK, Standing, Level, Busy
<1>2. CASE ~Retries(n, safe)
    BY <1>2, FailStep DEF Decide, Broken
<1>. QED  BY <1>1, <1>2

LEMMA CoreInit == Init => CoreInv
<1> SUFFICES ASSUME Init PROVE CoreInv
    OBVIOUS
<1>1. transient \in [Node -> BOOLEAN]
    BY Zenon DEF Init
<1>2. TypeOK
    BY <1>1 DEF Init, TypeOK, Statuses
<1>. QED  BY <1>2 DEF Init, CoreInv, Standing, Level, Busy, Broken

LEMMA CoreStep == CoreInv /\ [Next]_vars => CoreInv' /\ StatusStep
<1> SUFFICES ASSUME CoreInv, [Next]_vars
             PROVE  CoreInv' /\ StatusStep
    OBVIOUS
<1> USE DEF CoreInv
<1>1. CASE LoopAborted
    BY <1>1 DEF LoopAborted, LevelDone, local, TypeOK, Standing, Level, StatusStep
<1>2. CASE LoopReports
  <2>1. ReportStatus \in {"succeeded", "failed", "cancelled", "waiting_for_gate"}
    BY DEF ReportStatus
  <2>. QED
    BY <1>2, <2>1 DEF LoopReports, LevelDone, local, TypeOK, Standing, Level, StatusStep
<1>3. CASE LoopStarts
  <2>1. /\ toStart' \subseteq Node /\ batch' \subseteq Node /\ toStart' = batch'
        /\ \A n \in batch' : status[n] = "pending"
        /\ status' = status /\ pc' = pc /\ result' = result /\ result = "none"
    BY <1>3 DEF LoopStarts, LevelDone, local, Ready
  <2>2. \A n \in Node : pc[n] \in Busy \union {"threw"} => FALSE
    BY <1>3 DEF LoopStarts, LevelDone, Level, Busy
  <2>3. \A n \in batch' : pc[n] = "idle"
    BY <2>1, <2>2 DEF TypeOK, Standing, Broken, Busy
  <2>4. TypeOK'
    BY <1>3, <2>1 DEF LoopStarts, local, TypeOK
  <2>. QED  BY <2>1, <2>2, <2>3, <2>4 DEF Standing, Level, StatusStep
<1>4. CASE LoopThrows
    BY <1>4 DEF LoopThrows, local, TypeOK, Standing, Level, StatusStep
<1>5. CASE Abort
    BY <1>5 DEF Abort, local, TypeOK, Standing, Level, StatusStep
<1>6. ASSUME NEW n \in Node, StartNode(n)
      PROVE  CoreInv' /\ StatusStep
  <2>1. n \in batch /\ toStart' = toStart \ {n} /\ batch' = batch /\ Ready(n)
        /\ result' = result /\ Attempt(n) /\ attempts' \in [Node -> Nat]
        /\ transient' = transient /\ aborted' = aborted /\ status[n] # "running"
    BY <1>6 DEF StartNode, TypeOK, Level, Ready
  <2>2. /\ status' \in [Node -> Statuses]
        /\ pc' \in [Node -> Busy \union {"idle", "returned", "threw"}]
        /\ used' \in Nat /\ exceeded' \in BOOLEAN
        /\ Standing' /\ Level'
        /\ Begins(n) \/ \E s \in Broken : Breaks(n, s)
    BY <2>1, AttemptStep
  <2>3. result = "none"
    BY <1>6 DEF StartNode, Level
  <2>4. StatusStep
    BY <2>2, <2>3 DEF StatusStep
  <2>. QED  BY <2>1, <2>2, <2>4 DEF TypeOK, Busy
<1>7. ASSUME NEW n \in Node, StartThrows(n)
      PROVE  CoreInv' /\ StatusStep
  <2>1. pc[n] = "idle" /\ status[n] # "running" /\ n \in batch
    BY <1>7 DEF StartThrows, Level, Standing, Busy
  <2>. QED
    BY <1>7, <2>1 DEF StartThrows, TypeOK, Standing, Level, Busy, StatusStep
<1>8. ASSUME NEW n \in Node, Executor(n)
      PROVE  CoreInv' /\ StatusStep
  <2>1. status[n] = "running" /\ n \in batch /\ pc[n] = "executing"
    BY <1>8 DEF Executor, ExecutorSucceeds, ExecutorBlocked, ExecutorCancelled,
                ExecutorFails, Resumes, Standing, Level, Busy
  <2>2. CASE ExecutorSucceeds(n)
    <3>1. Ends(n)
      BY <2>1, <2>2 DEF ExecutorSucceeds, Ends
    <3>. QED
      BY <2>1, <2>2, <3>1 DEF ExecutorSucceeds, TypeOK, Standing, Level, Busy,
                             Statuses, StatusStep
  <2>3. CASE ExecutorBlocked(n)
    <3>1. Fail(n, "policy_blocked") /\ "policy_blocked" \in Broken
          /\ batch' = batch /\ result' = result /\ toStart' = toStart
      BY <2>3 DEF ExecutorBlocked, Broken
    <3>2. exceeded' \in BOOLEAN
      BY <2>3 DEF ExecutorBlocked, TypeOK
    <3>3. /\ status' \in [Node -> Statuses]
          /\ pc' \in [Node -> Busy \union {"idle", "returned", "threw"}]
          /\ Standing' /\ Level' /\ Breaks(n, "policy_blocked") /\ ~Ready(n)
      BY <2>1, <3>1, FailStep
    <3>. QED
      BY <2>3, <3>1, <3>2, <3>3 DEF ExecutorBlocked, TypeOK, Busy, StatusStep
  <2>4. CASE ExecutorCancelled(n)
    <3>1. Fail(n, "cancelled") /\ "cancelled" \in Broken
          /\ batch' = batch /\ result' = result /\ toStart' = toStart
      BY <2>4 DEF ExecutorCancelled, Broken
    <3>2. /\ status' \in [Node -> Statuses]
          /\ pc' \in [Node -> Busy \union {"idle", "returned", "threw"}]
          /\ Standing' /\ Level' /\ Breaks(n, "cancelled") /\ ~Ready(n)
      BY <2>1, <3>1, FailStep
    <3>. QED
      BY <2>4, <3>1, <3>2 DEF ExecutorCancelled, TypeOK, Busy, StatusStep
  <2>5. CASE ExecutorFails(n)
    <3>1. transient' \in [Node -> BOOLEAN]
      BY <2>5, Zenon DEF ExecutorFails, TypeOK
    <3>2. CASE SideEffect[n] = "none"
      <4>1. Decide(n, FALSE) /\ batch' = batch /\ result' = result /\ toStart' = toStart
        BY <2>5, <3>2 DEF ExecutorFails
      <4>2. /\ status' \in [Node -> Statuses]
            /\ pc' \in [Node -> Busy \union {"idle", "returned", "threw"}]
            /\ Standing' /\ Level'
            /\ status' = status \/ (Breaks(n, "failed") /\ ~Ready(n))
        BY <2>1, <4>1, DecideStep
      <4>3. StatusStep
        BY <4>2 DEF StatusStep, Broken
      <4>. QED
        BY <2>5, <3>1, <4>2, <4>3 DEF ExecutorFails, TypeOK, Busy
    <3>3. CASE SideEffect[n] # "none"
      BY <2>1, <2>5, <3>1, <3>3 DEF ExecutorFails, TypeOK, Standing, Level, Busy, StatusStep
    <3>. QED  BY <3>2, <3>3
  <2>. QED  BY <1>8, <2>2, <2>3, <2>4, <2>5 DEF Executor
<1>9. ASSUME NEW n \in Node, Authorized(n)
      PROVE  CoreInv' /\ StatusStep
  <2>1. status[n] = "running"
    BY <1>9 DEF Authorized, Resumes, Standing, Busy
  <2>2. PICK safe \in BOOLEAN : Decide(n, safe)
    BY <1>9 DEF Authorized
  <2>3. batch' = batch /\ result' = result /\ toStart' = toStart
    BY <1>9 DEF Authorized
  <2>4. /\ status' \in [Node -> Statuses]
        /\ pc' \in [Node -> Busy \union {"idle", "returned", "threw"}]
        /\ Standing' /\ Level'
        /\ status' = status \/ (Breaks(n, "failed") /\ ~Ready(n))
    BY <2>1, <2>2, <2>3, DecideStep
  <2>5. StatusStep
    BY <2>4 DEF StatusStep, Broken
  <2>. QED  BY <1>9, <2>4, <2>5 DEF Authorized, TypeOK, Busy
<1>10. ASSUME NEW n \in Node, DelayEnds(n)
       PROVE  CoreInv' /\ StatusStep
  <2>1. status[n] = "running" /\ n \in batch /\ ~Ready(n)
    BY <1>10 DEF DelayEnds, Resumes, Standing, Level, Busy, Ready
  <2>2. /\ Attempt(n) /\ batch' = batch /\ result' = result /\ toStart' = toStart \ {n}
        /\ attempts' \in [Node -> Nat]
    BY <1>10 DEF DelayEnds, Resumes, TypeOK
  <2>3. /\ status' \in [Node -> Statuses]
        /\ pc' \in [Node -> Busy \union {"idle", "returned", "threw"}]
        /\ used' \in Nat /\ exceeded' \in BOOLEAN
        /\ Standing' /\ Level'
        /\ status' = status \/ \E s \in Broken : Breaks(n, s)
    BY <2>1, <2>2, AttemptStep
  <2>4. StatusStep
    BY <2>1, <2>3 DEF StatusStep
  <2>. QED  BY <1>10, <2>2, <2>3, <2>4 DEF DelayEnds, TypeOK, Busy
<1>11. ASSUME NEW n \in Node, DelayAborted(n)
       PROVE  CoreInv' /\ StatusStep
  <2>1. status[n] = "running"
    BY <1>11 DEF DelayAborted, Resumes, Standing, Busy
  <2>2. Fail(n, "cancelled") /\ "cancelled" \in Broken
        /\ batch' = batch /\ result' = result /\ toStart' = toStart
    BY <1>11 DEF DelayAborted, Broken
  <2>3. /\ status' \in [Node -> Statuses]
        /\ pc' \in [Node -> Busy \union {"idle", "returned", "threw"}]
        /\ Standing' /\ Level' /\ Breaks(n, "cancelled") /\ ~Ready(n)
    BY <2>1, <2>2, FailStep
  <2>. QED
    BY <1>11, <2>2, <2>3 DEF DelayAborted, TypeOK, Busy, StatusStep
<1>12. CASE UNCHANGED vars
    BY <1>12 DEF vars, TypeOK, Standing, Level, StatusStep
<1>. QED
    BY <1>1, <1>2, <1>3, <1>4, <1>5, <1>6, <1>7, <1>8, <1>9, <1>10, <1>11, <1>12 DEF Next, Loop

\* The variables keep their types, and the coordinator, the level and the
\* executions agree.
THEOREM CoreHolds == Spec => []CoreInv
<1>1. Init => CoreInv
    BY CoreInit
<1>2. CoreInv /\ [Next]_vars => CoreInv'
    BY CoreStep
<1>. QED  BY <1>1, <1>2, PTL DEF Spec

THEOREM TypeCorrect == Spec => []TypeOK
<1>1. CoreInv => TypeOK
    BY DEF CoreInv
<1>. QED  BY <1>1, CoreHolds, PTL

(***************************************************************************)
(* The order of the nodes, and how failures propagate.                     *)
(***************************************************************************)

\* The dependents of n lie in every set that is closed like them.
LEMMA DependentsLeast ==
    ASSUME NEW n \in Node, NEW S \in SUBSET Node,
           \A k \in Node : n \in DependsOn[k] \/ DependsOn[k] \cap S # {} => k \in S
    PROVE  Dependents(n) \subseteq S
BY DEF Dependents

\* While n has not succeeded, nothing that depends on it has started.
LEMMA DependentsIdle ==
    ASSUME TypeOK, DependenciesFirst, NEW n \in Node, status[n] # "succeeded"
    PROVE  \A m \in Dependents(n) : status[m] \in {"pending", "skipped"}
<1> DEFINE S == {m \in Node : status[m] \in {"pending", "skipped"}}
<1>1. ASSUME NEW k \in Node, n \in DependsOn[k] \/ DependsOn[k] \cap S # {}
      PROVE  k \in S
  <2>1. ~Started(k)
    BY <1>1 DEF DependenciesFirst
  <2>. QED  BY <2>1 DEF Started, TypeOK, Statuses
<1>2. Dependents(n) \subseteq S
    BY <1>1, DependentsLeast
<1>. QED  BY <1>2

OrderInv == CoreInv /\ DependenciesFirst

\* A success stays, and only a node whose dependencies have succeeded starts.
LEMMA OrderStep ==
    ASSUME CoreInv, DependenciesFirst, StatusStep
    PROVE  DependenciesFirst'
<1>1. ASSUME NEW m \in Node, status[m] = "succeeded"
      PROVE  status'[m] = "succeeded"
    BY <1>1 DEF CoreInv, TypeOK, StatusStep, Begins, Ends, Breaks, SkippedBy, Ready
<1>2. ASSUME NEW m \in Node, Started(m)', ~Started(m)
      PROVE  Ready(m)
    BY <1>2 DEF CoreInv, TypeOK, StatusStep, Begins, Ends, Breaks, SkippedBy,
                Started, Statuses, Broken
<1>3. ASSUME NEW m \in Node, Started(m)'
      PROVE  \A d \in DependsOn[m] : status[d] = "succeeded"
    BY <1>2, <1>3 DEF DependenciesFirst, Ready
<1>4. \A m \in Node : DependsOn[m] \subseteq Node
    BY RunnerAssumption
<1>. QED  BY <1>1, <1>3, <1>4 DEF DependenciesFirst

LEMMA OrderInductive == OrderInv /\ [Next]_vars => OrderInv'
BY CoreStep, OrderStep DEF OrderInv

LEMMA OrderInit == Init => OrderInv
<1> SUFFICES ASSUME Init PROVE OrderInv
    OBVIOUS
<1>1. DependenciesFirst
    BY DEF Init, DependenciesFirst, Started, Broken
<1>. QED  BY <1>1, CoreInit DEF OrderInv

\* A node is executed only after everything it depends on has succeeded.
THEOREM DependenciesFirstHolds == Spec => []DependenciesFirst
<1>1. OrderInv => DependenciesFirst
    BY DEF OrderInv
<1>. QED  BY <1>1, OrderInit, OrderInductive, PTL DEF Spec

\* One broken node: what depends on it is skipped, at once and for good.
Propagated(f) ==
    /\ \A n \in Dependents(f) : status[n] = "skipped"
    /\ f \in FailFast => Pending = {}

LEMMA PropagatedStays ==
    ASSUME OrderInv, StatusStep, NEW f \in Node, Propagated(f), status[f] \in Broken
    PROVE  Propagated(f)' /\ status'[f] = status[f]
<1> USE DEF OrderInv, CoreInv, TypeOK, StatusStep, Begins, Ends, Breaks, SkippedBy, Ready
<1>1. \A m \in Node : status[m] = "skipped" => status'[m] = "skipped"
    OBVIOUS
<1>2. \A m \in Node : status'[m] = "pending" => status[m] = "pending"
    BY DEF Broken
<1>3. Dependents(f) \subseteq Node
    BY DEF Dependents
<1>4. status'[f] = status[f]
    BY DEF Broken
<1>. QED  BY <1>1, <1>2, <1>3, <1>4 DEF Propagated, Pending, Dependents

LEMMA PropagatedFirst ==
    ASSUME OrderInv, NEW n \in Node, NEW s \in Broken, Breaks(n, s)
    PROVE  Propagated(n)'
<1>1. status[n] # "succeeded"
    BY DEF Breaks, Ready
<1>2. \A m \in Dependents(n) : m \in Node /\ status[m] \in {"pending", "skipped"}
    BY <1>1, DependentsIdle DEF OrderInv, CoreInv, Dependents
<1>3. n \notin Dependents(n)
  <2> SUFFICES ASSUME n \in Dependents(n) PROVE FALSE
    OBVIOUS
  <2>1. Ready(n)
    BY <1>2 DEF Breaks
  <2> DEFINE S == {m \in Node : status[m] \in {"pending", "skipped"}} \ {n}
  <2>2. ASSUME NEW k \in Node, n \in DependsOn[k] \/ DependsOn[k] \cap S # {}
        PROVE  k \in S
    <3>1. \E d \in DependsOn[k] : status[d] # "succeeded"
      BY <2>2, <1>1
    <3>2. ~Started(k) /\ k # n
      BY <3>1, <2>1 DEF OrderInv, DependenciesFirst, Ready
    <3>. QED  BY <3>2 DEF Started, OrderInv, CoreInv, TypeOK, Statuses
  <2>3. S \in SUBSET Node /\ n \notin S
    OBVIOUS
  <2> HIDE DEF S
  <2>4. Dependents(n) \subseteq S
    BY <2>2, <2>3, DependentsLeast
  <2>. QED  BY <2>3, <2>4
<1>4. \A m \in Dependents(n) : status'[m] = "skipped"
    BY <1>2, <1>3 DEF Breaks, SkippedBy
<1>5. n \in FailFast => \A m \in Node : status'[m] # "pending"
    BY DEF Breaks, SkippedBy, Broken
<1>. QED  BY <1>4, <1>5 DEF Propagated, Pending, Dependents

LEMMA PropagatesStep ==
    ASSUME OrderInv, FailurePropagates, StatusStep
    PROVE  FailurePropagates'
<1> SUFFICES ASSUME NEW f \in Node, status'[f] \in Broken
             PROVE  Propagated(f)'
    BY DEF FailurePropagates, Propagated, Dependents
<1>1. CASE status[f] \in Broken
    BY <1>1, PropagatedStays DEF FailurePropagates, Propagated
<1>2. CASE status[f] \notin Broken
  <2>1. PICK s \in Broken : Breaks(f, s)
    BY <1>2 DEF StatusStep, Begins, Ends, Breaks, SkippedBy, Broken, OrderInv, CoreInv, TypeOK
  <2>. QED  BY <2>1, PropagatedFirst
<1>. QED  BY <1>1, <1>2

\* A failure, a cancellation or a policy block propagates as declared, also
\* while other nodes run.
THEOREM FailurePropagatesHolds == Spec => []FailurePropagates
<1>1. Init => FailurePropagates
    BY DEF Init, FailurePropagates, Broken
<1>2. OrderInv /\ FailurePropagates /\ [Next]_vars => FailurePropagates'
    BY CoreStep, PropagatesStep DEF OrderInv
<1>. QED  BY <1>1, <1>2, OrderInit, OrderInductive, PTL DEF Spec

(***************************************************************************)
(* The budgets.                                                            *)
(***************************************************************************)

Within ==
    /\ used <= TotalIterations
    /\ \A n \in Node : /\ attempts[n] <= MaxAttempts[n]
                       /\ status[n] \in {"pending", "skipped"} => attempts[n] = 0
                       /\ pc[n] = "delaying" => attempts[n] < MaxAttempts[n]

LEMMA AttemptWithin ==
    ASSUME CoreInv, Within, NEW n \in Node, Attempt(n), Ready(n) \/ pc[n] = "delaying",
           attempts' = [attempts EXCEPT ![n] = @ + 1]
    PROVE  Within'
<1>1. /\ attempts[n] \in Nat /\ MaxAttempts[n] \in Nat \ {0}
      /\ used \in Nat /\ TotalIterations \in Nat
    BY RunnerAssumption DEF CoreInv, TypeOK
<1>2. attempts[n] + 1 <= MaxAttempts[n]
    BY <1>1 DEF Within, Ready
<1>3. used' <= TotalIterations
    BY <1>1 DEF Attempt, Fail, Within
<1>4. pc'[n] # "delaying" /\ \A m \in Node \ {n} : pc'[m] = pc[m]
    BY DEF Attempt, Fail, CoreInv, TypeOK
<1>5. /\ status'[n] \notin {"pending", "skipped"}
      /\ \A m \in Node \ {n} : status'[m] \in {"pending", "skipped"}
                                 => status[m] \in {"pending", "skipped"}
    BY DEF Attempt, Fail, SkippedBy, CoreInv, TypeOK
<1>6. /\ attempts'[n] = attempts[n] + 1
      /\ \A m \in Node \ {n} : attempts'[m] = attempts[m]
    BY DEF CoreInv, TypeOK
<1>. QED  BY <1>2, <1>3, <1>4, <1>5, <1>6 DEF Within

\* Steps that make no attempt.
LEMMA SameAttempts ==
    ASSUME CoreInv, Within, StatusStep, attempts' = attempts, used' = used,
           \A n \in Node : pc'[n] = "delaying" => attempts[n] < MaxAttempts[n]
    PROVE  Within'
<1>1. ASSUME NEW m \in Node, status'[m] \in {"pending", "skipped"}
      PROVE  status[m] \in {"pending", "skipped"}
    BY <1>1 DEF CoreInv, TypeOK, StatusStep, Begins, Ends, Breaks, SkippedBy, Broken
<1>. QED  BY <1>1 DEF Within

LEMMA DecideWithin ==
    ASSUME CoreInv, Within, NEW n \in Node, NEW safe \in BOOLEAN, Decide(n, safe)
    PROVE  \A m \in Node : pc'[m] = "delaying" => attempts[m] < MaxAttempts[m]
BY DEF Decide, Retries, Fail, CoreInv, TypeOK, Within

LEMMA WithinStep == CoreInv /\ Within /\ [Next]_vars => Within'
<1> SUFFICES ASSUME CoreInv, Within, [Next]_vars
             PROVE  Within'
    OBVIOUS
<1>1. StatusStep
    BY CoreStep
<1>2. CASE LoopAborted \/ LoopReports \/ LoopStarts \/ LoopThrows \/ Abort
    BY <1>2 DEF LoopAborted, LoopReports, LoopStarts, LoopThrows, Abort, local, Within
<1>3. ASSUME NEW n \in Node, StartNode(n)
      PROVE  Within'
    BY <1>3, AttemptWithin DEF StartNode
<1>4. ASSUME NEW n \in Node, StartThrows(n)
      PROVE  Within'
    BY <1>4 DEF StartThrows, CoreInv, TypeOK, Within
<1>5. ASSUME NEW n \in Node, Executor(n)
      PROVE  Within'
  <2>1. CASE ExecutorSucceeds(n)
      BY <1>1, <2>1, SameAttempts DEF ExecutorSucceeds, CoreInv, TypeOK, Within
  <2>2. CASE ExecutorBlocked(n) \/ ExecutorCancelled(n)
      BY <1>1, <2>2, SameAttempts
         DEF ExecutorBlocked, ExecutorCancelled, Fail, CoreInv, TypeOK, Within
  <2>3. CASE ExecutorFails(n)
    <3>1. attempts' = attempts /\ used' = used
      BY <2>3 DEF ExecutorFails
    <3>2. CASE SideEffect[n] = "none"
      <4>1. Decide(n, FALSE)
        BY <2>3, <3>2 DEF ExecutorFails
      <4>. QED  BY <1>1, <3>1, <4>1, DecideWithin, SameAttempts
    <3>3. CASE SideEffect[n] # "none"
      BY <1>1, <2>3, <3>1, <3>3, SameAttempts DEF ExecutorFails, CoreInv, TypeOK, Within
    <3>. QED  BY <3>2, <3>3
  <2>. QED  BY <1>5, <2>1, <2>2, <2>3 DEF Executor
<1>6. ASSUME NEW n \in Node, Authorized(n)
      PROVE  Within'
    BY <1>1, <1>6, DecideWithin, SameAttempts DEF Authorized
<1>7. ASSUME NEW n \in Node, DelayEnds(n)
      PROVE  Within'
    BY <1>7, AttemptWithin DEF DelayEnds, Resumes
<1>8. ASSUME NEW n \in Node, DelayAborted(n)
      PROVE  Within'
    BY <1>1, <1>8, SameAttempts DEF DelayAborted, Fail, CoreInv, TypeOK, Within
<1>9. CASE UNCHANGED vars
    BY <1>9 DEF vars, Within
<1>. QED  BY <1>2, <1>3, <1>4, <1>5, <1>6, <1>7, <1>8, <1>9 DEF Next, Loop

\* The total of iterations and the limit of attempts of each node hold,
\* whatever fails and is tried again at the same time.
THEOREM BudgetsHold == Spec => []BudgetsKept
<1>1. Init => Within
    BY RunnerAssumption DEF Init, Within
<1>2. Within => BudgetsKept
    BY DEF Within, BudgetsKept
<1>. QED  BY <1>1, <1>2, CoreInit, CoreStep, WithinStep, PTL DEF Spec

(***************************************************************************)
(* Waiting for gates.                                                      *)
(***************************************************************************)

\* What depends on a dependent of n is a dependent of n.
LEMMA DependentsClosed ==
    ASSUME NEW n \in Node, NEW k \in Node,
           n \in DependsOn[k] \/ DependsOn[k] \cap Dependents(n) # {}
    PROVE  k \in Dependents(n)
<1> SUFFICES ASSUME NEW S \in SUBSET Node,
                    \A j \in Node : n \in DependsOn[j] \/ DependsOn[j] \cap S # {} => j \in S
             PROVE  k \in S
    BY DEF Dependents
<1>1. Dependents(n) \subseteq S
    BY DependentsLeast
<1>. QED  BY <1>1

\* A report is made when nothing runs.
LEMMA NothingRuns ==
    ASSUME CoreInv, LevelDone
    PROVE  \A n \in Node : status[n] # "running"
BY DEF CoreInv, LevelDone, Level, Standing, Busy

\* A node that is left does not depend on one that was skipped.
SkippedClosed ==
    \A n \in Pending : \A d \in DependsOn[n] : status[d] # "skipped"

LEMMA SkippedStep ==
    ASSUME CoreInv, SkippedClosed, StatusStep
    PROVE  SkippedClosed'
<1> SUFFICES ASSUME NEW n \in Node, status'[n] = "pending",
                    NEW d \in DependsOn[n], status'[d] = "skipped"
             PROVE  FALSE
    BY DEF SkippedClosed, Pending
<1> USE DEF CoreInv, TypeOK
<1>1. d \in Node
    BY RunnerAssumption
<1>2. status[n] = "pending" /\ status[d] # "skipped"
  <2>1. status[n] = "pending"
    BY DEF StatusStep, Begins, Ends, Breaks, Broken
  <2>. QED  BY <2>1 DEF SkippedClosed, Pending
<1>3. PICK f \in Node, s \in Broken : Breaks(f, s)
    BY <1>1, <1>2 DEF StatusStep, Begins, Ends
<1>4. d \in SkippedBy(f)
    BY <1>1, <1>2, <1>3 DEF Breaks, Broken
<1>5. n \notin SkippedBy(f) /\ n # f
    BY <1>3 DEF Breaks, Broken
<1>6. d \in Dependents(f) /\ n \notin Dependents(f)
    BY <1>2, <1>4, <1>5 DEF SkippedBy
<1>. QED  BY <1>1, <1>6, DependentsClosed

\* A report of run() is made when nothing runs, and nothing changes after it.
ReportRests == result \notin {"none", "rejected"} => \A n \in Node : status[n] # "running"

LEMMA RestStep ==
    ASSUME CoreInv, ReportRests, [Next]_vars
    PROVE  /\ ReportRests'
           /\ result \notin {"none", "rejected"} => UNCHANGED <<status, result>>
<1>1. StatusStep
    BY CoreStep
<1>2. result # "none" => result' = result
    BY DEF Next, Loop, vars, LoopAborted, LoopReports, LoopThrows, LevelDone, LoopStarts, Abort,
           StartNode, StartThrows, Executor, ExecutorSucceeds, ExecutorBlocked,
           ExecutorCancelled, ExecutorFails, Authorized, DelayEnds, DelayAborted
<1>3. CASE result \notin {"none", "rejected"}
  <2>1. status' = status
    BY <1>1, <1>3 DEF ReportRests, StatusStep, Begins, Ends, Breaks
  <2>. QED  BY <1>2, <1>3, <2>1 DEF ReportRests
<1>4. CASE result \in {"none", "rejected"} /\ result' \notin {"none", "rejected"}
  <2>1. LoopAborted \/ LoopReports
    BY <1>4 DEF Next, Loop, vars, LoopThrows, LoopStarts, Abort, StartNode, StartThrows,
           Executor, ExecutorSucceeds, ExecutorBlocked, ExecutorCancelled, ExecutorFails,
           Authorized, DelayEnds, DelayAborted
  <2>2. LevelDone /\ status' = status
    BY <2>1 DEF LoopAborted, LoopReports
  <2>. QED  BY <1>4, <2>2, NothingRuns DEF ReportRests
<1>. QED  BY <1>3, <1>4 DEF ReportRests

\* When no node is ready, each one that is left has an open gate or depends on such a
\* node: among those of which this is not true, one would depend on none of the others.
LEMMA OnlyGatesLeft ==
    ASSUME CoreInv, FailurePropagates, SkippedClosed,
           \A n \in Node : status[n] # "running" /\ ~Ready(n)
    PROVE  \A n \in Pending : \E g \in Gated \cap Pending : n = g \/ n \in Dependents(g)
<1> DEFINE Held(n) == \E g \in Gated \cap Pending : n = g \/ n \in Dependents(g)
           Others == {n \in Pending : ~Held(n)}
<1> SUFFICES ASSUME Others # {}
             PROVE  FALSE
    OBVIOUS
<1>1. PICK n \in Others : DependsOn[n] \cap Others = {}
    BY AcyclicAssumption DEF Pending
<1>2. n \in Node /\ status[n] = "pending" /\ ~Held(n)
    BY DEF Pending
<1>3. n \notin Gated
    BY <1>2 DEF Pending
<1>4. PICK d \in DependsOn[n] : status[d] # "succeeded"
    BY <1>2, <1>3 DEF Ready
<1>5. d \in Node /\ status[d] \in Statuses
    BY <1>2, RunnerAssumption DEF CoreInv, TypeOK
<1>6. n \in Dependents(d)
    BY <1>2, <1>5, DependentsClosed
<1>7. status[d] = "pending"
  <2>1. status[d] # "skipped" /\ status[d] # "running"
    BY <1>2, <1>5 DEF SkippedClosed, Pending
  <2>2. status[d] \notin Broken
    BY <1>2, <1>5, <1>6 DEF FailurePropagates
  <2>. QED  BY <1>4, <1>5, <2>1, <2>2 DEF Statuses
<1>8. PICK g \in Gated \cap Pending : d = g \/ d \in Dependents(g)
  <2>1. d \in Pending /\ d \notin Others
    BY <1>1, <1>5, <1>7 DEF Pending
  <2>. QED  BY <2>1
<1>9. n \in Dependents(g)
  <2>1. g \in Node
    BY DEF Pending
  <2>. QED  BY <1>2, <1>8, <2>1, DependentsClosed
<1>. QED  BY <1>2, <1>9

WaitInv == OrderInv /\ FailurePropagates /\ SkippedClosed /\ ReportRests /\ WaitsOnlyForGates

LEMMA WaitStep == WaitInv /\ [Next]_vars => WaitInv'
<1> SUFFICES ASSUME WaitInv, [Next]_vars
             PROVE  WaitInv'
    OBVIOUS
<1>1. StatusStep /\ OrderInv' /\ FailurePropagates' /\ SkippedClosed' /\ ReportRests'
    BY CoreStep, OrderInductive, PropagatesStep, SkippedStep, RestStep DEF WaitInv, OrderInv
<1>2. WaitsOnlyForGates'
  <2> SUFFICES ASSUME result' = "waiting_for_gate"
               PROVE  (\A n \in Pending :
                         \E g \in Gated \cap Pending : n = g \/ n \in Dependents(g))'
      BY DEF WaitsOnlyForGates
  <2>1. CASE result \notin {"none", "rejected"}
    <3>1. UNCHANGED <<status, result>>
      BY <2>1, RestStep DEF WaitInv, OrderInv
    <3>. QED  BY <3>1 DEF WaitInv, WaitsOnlyForGates, Pending, Dependents
  <2>2. CASE result \in {"none", "rejected"}
    <3>1. LoopReports
      BY <2>2 DEF Next, Loop, vars, LoopAborted, LoopThrows, LoopStarts, Abort, StartNode,
             StartThrows, Executor, ExecutorSucceeds, ExecutorBlocked, ExecutorCancelled,
             ExecutorFails, Authorized, DelayEnds, DelayAborted
    <3>2. /\ \A n \in Node : status[n] # "running" /\ ~Ready(n)
          /\ status' = status
      BY <3>1, NothingRuns DEF LoopReports, WaitInv, OrderInv
    <3>3. \A n \in Pending : \E g \in Gated \cap Pending : n = g \/ n \in Dependents(g)
      BY <3>2, OnlyGatesLeft DEF WaitInv, OrderInv
    <3>. QED  BY <3>2, <3>3 DEF Pending, Dependents
  <2>. QED  BY <2>1, <2>2
<1>. QED  BY <1>1, <1>2 DEF WaitInv

\* OrchestrationRunner.run: waiting_for_gate is reported only when gates alone hold
\* back what is left, in every plan without a cycle, whatever failed before.
THEOREM WaitsOnlyForGatesHolds == Spec => []WaitsOnlyForGates
<1>1. Init => WaitInv
  <2> SUFFICES ASSUME Init
               PROVE  WaitInv
    OBVIOUS
  <2>1. \A n \in Node : status[n] = "pending"
    BY DEF Init
  <2>2. FailurePropagates
    BY <2>1 DEF FailurePropagates, Broken
  <2>3. SkippedClosed
    <3>1. \A n \in Node : \A d \in DependsOn[n] : d \in Node
      BY RunnerAssumption
    <3>. QED  BY <2>1, <3>1 DEF SkippedClosed, Pending
  <2>4. result = "none"
    BY DEF Init
  <2>5. ReportRests /\ WaitsOnlyForGates
    BY <2>1, <2>4 DEF ReportRests, WaitsOnlyForGates
  <2>. QED  BY <2>2, <2>3, <2>5, OrderInit DEF WaitInv
<1>2. WaitInv => WaitsOnlyForGates
    BY DEF WaitInv
<1>. QED  BY <1>1, <1>2, WaitStep, PTL DEF Spec

(***************************************************************************)
(* Refinement of DagExecution.                                             *)
(***************************************************************************)

LEMMA DagInit == Init => Dag!Init
BY DEF Init, Dag!Init

LEMMA DagStep == OrderInv /\ [Next]_vars => [Dag!Next]_<<status, result>>
<1> SUFFICES ASSUME OrderInv, [Next]_vars
             PROVE  [Dag!Next]_<<status, result>>
    OBVIOUS
<1> USE DEF Dag!Next, Dag!Broken
<1>1. CASE LoopAborted
  <2>1. Dag!Report
    BY <1>1, NothingRuns DEF LoopAborted, LevelDone, Dag!Report, Dag!Results, OrderInv
  <2>. QED  BY <2>1
<1>2. CASE LoopReports
  <2>1. \A n \in Node : status[n] # "running"
    BY <1>2, NothingRuns DEF LoopReports, OrderInv
  <2>2. ReportStatus \in {"succeeded", "failed", "cancelled", "waiting_for_gate"}
    BY DEF ReportStatus
  <2>3. ReportStatus # "cancelled" => Dag!Truthful(ReportStatus)
    BY <2>1 DEF ReportStatus, Pending, Dag!Truthful
  <2>4. Dag!Report
    BY <1>2, <2>1, <2>2, <2>3 DEF LoopReports, LevelDone, Dag!Report, Dag!Results
  <2>. QED  BY <2>4
<1>3. CASE LoopThrows
    BY <1>3 DEF LoopThrows, Dag!Reject
<1>4. CASE result' = result
  <2>1. CASE status' = status
    BY <1>4, <2>1
  <2>2. ASSUME NEW n \in Node, Begins(n), result = "none"
        PROVE  Dag!Start(n)
    BY <1>4, <2>2 DEF Begins, Ready, Dag!Start
  <2>3. ASSUME NEW n \in Node, Ends(n)
        PROVE  Dag!Succeed(n)
    BY <1>4, <2>3 DEF Ends, Dag!Succeed
  <2>4. ASSUME NEW n \in Node, NEW s \in Broken, Breaks(n, s), Ready(n) => result = "none"
        PROVE  Dag!Break(n)
    <3>1. status[n] = "running" \/ Dag!Startable(n)
      BY <2>4 DEF Breaks, Ready, Dag!Startable
    <3>2. status' = [m \in Node |-> IF m = n THEN s
                                    ELSE IF m \in SkippedBy(n) THEN "skipped"
                                    ELSE status[m]]
      BY <2>4 DEF Breaks
    <3>3. \A m \in Node \ {n} :
            m \in SkippedBy(n) <=> status[m] = "pending" /\ status'[m] = "skipped"
      BY <3>2 DEF SkippedBy
    <3>4. status' = [m \in Node |-> IF m = n THEN s
                                    ELSE IF status[m] = "pending" /\ status'[m] = "skipped" THEN "skipped"
                                    ELSE status[m]]
      BY <3>2, <3>3
    <3>5. s \in Dag!Broken
      BY DEF Broken
    <3>. QED  BY <1>4, <3>1, <3>4, <3>5 DEF Dag!Break
  <2>. QED  BY CoreStep, <2>1, <2>2, <2>3, <2>4 DEF OrderInv, StatusStep
<1>. QED
  <2>1. LoopAborted \/ LoopReports \/ LoopThrows \/ result' = result
    BY DEF Next, Loop, vars, LoopStarts, Abort, StartNode, StartThrows, Executor,
           ExecutorSucceeds, ExecutorBlocked, ExecutorCancelled, ExecutorFails,
           Authorized, DelayEnds, DelayAborted
  <2>. QED  BY <1>1, <1>2, <1>3, <1>4, <2>1

\* The runner keeps the promises of DagExecution, step by step.
THEOREM ImplementsDag == Spec => Implements
<1>. QED  BY DagInit, DagStep, OrderInit, OrderInductive, PTL DEF Spec, Implements, Dag!Spec

-----------------------------------------------------------------------------
(***************************************************************************)
(* ApplicationOrchestration, for any plan, any number of places and any    *)
(* number of continue() calls.  With two of them at a time the code        *)
(* executes the same nodes twice (line 533 of the service), so what is     *)
(* proved is about the behaviours in which they come one after the other.  *)
(***************************************************************************)

OneContinuation ==
    \A v, w \in Worker \ {0} :
       v # w => worker[v].pc \in {"none", "ended"} \/ worker[w].pc \in {"none", "ended"}

\* run() or runPendingNodes() is on its way, with a controller of its own.
AtWork(w) == worker[w].pc \in {"start", "loop", "level", "finish", "failing"}

\* So is what precedes it in continue().
Acting(w) == AtWork(w) \/ worker[w].pc \in {"resolving", "stopping"}

\* One worker acts at a time, the registered one, on a record that has not ended,
\* unless a budget has failed it.
WorkersInv ==
    /\ \A v, w \in Worker : Acting(v) /\ Acting(w) => v = w
    /\ \A w \in Worker : /\ Acting(0) /\ w # 0 => worker[w].pc = "none"
                         /\ w = 0 => worker[w].pc \notin {"none", "resolving", "stopping"}
                         /\ w = 0 /\ worker[w].pc = "finish" => worker[w].report # "none"
                         /\ AtWork(w) => controller = w
    /\ \A w \in Worker :
          AtWork(w) => rec.status \in {"queued", "running", "cancelling", "failed"}
    /\ canceller = "idle" /\ alive /\ (AtWork(0) \/ rec.status = "waiting_for_gate") => inputs

\* What holds a node to its child, to its worker, and to the budget it exceeded.
NodeInv(w, n) ==
    /\ exec[w][n].pc # "idle" => worker[w].pc = "level"
    /\ exec[w][n].child = "active" => exec[w][n].pc \in {"note", "noted", "poll", "stopThrow"}
    /\ exec[w][n].pc = "poll" /\ worker[w].aborted => exec[w][n].child # "active"
    /\ exec[w][n].pc \in {"note", "noted", "poll", "lapsed"} => exec[w][n].child # "none"
    /\ exec[w][n].pc \in {"account", "answer"} => exec[w][n].child \in Ended
    /\ n \in rec.over => /\ exec[w][n].pc # "answer"
                         /\ exec[w][n].pc \in {"decide", "returned"} =>
                               exec[w][n].out # "succeeded"
    /\ exec[w][n].pc = "stopThrow" => n \in rec.over
    /\ w = 0 /\ exec[w][n].pc \in {"stopAnswer", "stopThrow", "stopRetry"} => stops
    /\ w = 0 /\ exec[w][n].pc \in {"idle", "returned"} => exec[w][n].out # "transient"

NodesInv == \A w \in Worker, n \in Task : NodeInv(w, n)

\* A level that comes upon a budget remembers it in a node that did not succeed.
Blocked(w, n) ==
    \/ n \in rec.over
    \/ exec[w][n].pc \in {"decide", "returned"} /\ exec[w][n].out = "policy_blocked"

RecInv ==
    /\ rec.over # {} => rec.status \in {"failed", "cancelling", "cancelled", "orphaned"}
    /\ AtWork(0) /\ rec.status = "failed" => stops \/ rec.over # {}
    /\ \A w \in Worker :
         /\ worker[w].pc = "resolving" => rec.over = {}
         /\ worker[w].pc = "start" => rec.over = {} /\ rec.status # "failed"
         /\ w # 0 /\ worker[w].pc \in {"loop", "finish"} =>
               rec.over = {} /\ rec.status # "failed"
         /\ w # 0 /\ worker[w].pc = "level" =>
               /\ \A n \in rec.over : exec[w][n].pc # "idle"
               /\ rec.status = "failed" => \E n \in Task : Blocked(w, n)

ServiceInv == ServiceTypeOK /\ WorkersInv /\ NodesInv /\ RecInv

(***************************************************************************)
(* What the helpers of the service do.                                     *)
(***************************************************************************)

LEMMA SpentEffect ==
    ASSUME rec \in RecordStates, NEW n \in Task, NEW x \in BOOLEAN
    PROVE  /\ Spent(n, x) \in RecordStates
           /\ ~x => Spent(n, x) = rec
           /\ x => /\ Spent(n, x).status = "failed"
                   /\ Spent(n, x).over = rec.over \union {n}
                   /\ n \in Spent(n, x).blamed
BY DEF Spent, RecordStates, TerminalStates

LEMMA StoppedEffect ==
    ASSUME rec \in RecordStates
    PROVE  /\ Stopped \in RecordStates
           /\ Stopped.status = "failed"
           /\ Stopped.over = rec.over
<1>. DEFINE skipped == {n \in Task : rec.node[n] \in {"pending", "queued"}}
            node == [n \in Task |-> IF n \in skipped THEN "skipped" ELSE rec.node[n]]
<1>1. Stopped = [rec EXCEPT !.status = "failed", !.node = node,
                            !.blamed = @ \union skipped]
    BY DEF Stopped
<1>2. skipped \in SUBSET Task
    OBVIOUS
<1>3. node \in [Task -> {"pending", "queued", "running", "retrying", "skipped", "succeeded",
                         "failed", "cancelled", "policy_blocked", "orphaned"}]
    BY DEF RecordStates
<1>. HIDE DEF node, skipped
<1>. QED  BY <1>1, <1>2, <1>3 DEF RecordStates, TerminalStates

\* center.cancel() changes no more than the state of a child.
LEMMA TellEffect ==
    ASSUME NEW e \in [Worker -> [Task -> ExecutionStates]]
    PROVE  /\ Tell(e) \in [Worker -> [Task -> ExecutionStates]]
           /\ \A w \in Worker, n \in Task :
                /\ Tell(e)[w][n].pc = e[w][n].pc
                /\ Tell(e)[w][n].out = e[w][n].out
                /\ Tell(e)[w][n].child # e[w][n].child =>
                      e[w][n].child = "active" /\ Tell(e)[w][n].child = "told"
                /\ Tell(e)[w][n].child = "active" => e[w][n].pc = "note"
<1>1. ASSUME NEW w \in Worker, NEW n \in Task
      PROVE  /\ Tell(e)[w][n] \in ExecutionStates
             /\ Tell(e)[w][n].pc = e[w][n].pc
             /\ Tell(e)[w][n].out = e[w][n].out
             /\ Tell(e)[w][n].child # e[w][n].child =>
                   e[w][n].child = "active" /\ Tell(e)[w][n].child = "told"
             /\ Tell(e)[w][n].child = "active" => e[w][n].pc = "note"
  <2>1. PICK r \in ExecutionStates : r = e[w][n]
      OBVIOUS
  <2>2. Tell(e)[w][n] = IF r.child = "active" /\ r.pc # "note"
                        THEN [r EXCEPT !.child = "told"] ELSE r
      BY <2>1 DEF Tell
  <2>. QED  BY <2>1, <2>2 DEF ExecutionStates
<1>2. Tell(e) \in [Worker -> [Task -> ExecutionStates]]
    BY <1>1 DEF Tell
<1>. QED  BY <1>1, <1>2

(***************************************************************************)
(* A step of one executeNode(), by what it may touch.                      *)
(***************************************************************************)

\* The other executions stay where they are; a child may be told to stop, and the
\* runner may skip a node it has not started.
OthersStay(w, n) ==
    \A v \in Worker, m \in Task : v # w \/ m # n =>
       /\ exec'[v][m].pc = exec[v][m].pc
       /\ exec'[v][m].out # exec[v][m].out =>
             exec[v][m].pc = "idle" /\ exec'[v][m].out = "skipped"
       /\ exec'[v][m].child # exec[v][m].child =>
             exec[v][m].child = "active" /\ exec'[v][m].child = "told"

WorkersStay ==
    /\ \A v \in Worker : /\ worker'[v].pc = worker[v].pc
                         /\ worker'[v].aborted = worker[v].aborted
                         /\ worker'[v].report = worker[v].report
    /\ controller' = controller /\ inputs' = inputs
    /\ canceller' = canceller /\ alive' = alive

\* The record fails at most, for a budget of this node.
BudgetStep(w, n) ==
    /\ stops => stops'
    /\ rec'.over # rec.over => rec'.over = rec.over \union {n} /\ rec'.status = "failed"
    /\ rec'.status # rec.status => /\ rec'.status = "failed"
                                   /\ n \in rec'.over \/ Blocked(w, n)'
                                   /\ n \in rec'.over \/ w # 0 \/ stops'

LEMMA ExecutionStep ==
    ASSUME ServiceInv, NEW w \in Worker, NEW n \in Task,
           exec[w][n].pc # "idle", exec'[w][n].pc # "idle",
           OthersStay(w, n), WorkersStay, BudgetStep(w, n), NodeInv(w, n)',
           w # 0 /\ Blocked(w, n) => Blocked(w, n)'
    PROVE  WorkersInv' /\ NodesInv' /\ RecInv'
<1>1. worker[w].pc = "level" /\ Acting(w) /\ AtWork(w)
    BY DEF ServiceInv, NodesInv, NodeInv, Acting, AtWork
<1>2. \A v \in Worker : v # w => ~Acting(v) /\ ~AtWork(v)
    BY <1>1 DEF ServiceInv, WorkersInv, Acting
<1>3. \A v \in Worker, m \in Task : v # w => exec[v][m].pc = "idle"
    BY <1>2 DEF ServiceInv, NodesInv, NodeInv, Acting, AtWork
<1>4. \A v \in Worker : (Acting(v)' <=> Acting(v)) /\ (AtWork(v)' <=> AtWork(v))
    BY DEF WorkersStay, Acting, AtWork
<1>5. WorkersInv'
  <2>1. \A u, v \in Worker : Acting(u)' /\ Acting(v)' => u = v
      BY <1>4 DEF ServiceInv, WorkersInv
  <2>2. 0 \in Worker
      BY ServiceAssumption DEF Worker
  <2>3. \A v \in Worker : /\ Acting(0)' /\ v # 0 => worker'[v].pc = "none"
                          /\ v = 0 => worker'[v].pc \notin {"none", "resolving", "stopping"}
                          /\ v = 0 /\ worker'[v].pc = "finish" => worker'[v].report # "none"
                          /\ AtWork(v)' => controller' = v
      BY <1>4, <2>2 DEF ServiceInv, WorkersInv, WorkersStay
  <2>4. \A v \in Worker :
           AtWork(v)' => rec'.status \in {"queued", "running", "cancelling", "failed"}
      BY <1>4 DEF ServiceInv, WorkersInv, BudgetStep
  <2>5. rec'.status = "waiting_for_gate" => rec.status = "waiting_for_gate"
      BY DEF BudgetStep
  <2>6. canceller' = "idle" /\ alive' /\ (AtWork(0)' \/ rec'.status = "waiting_for_gate")
           => inputs'
      BY <1>4, <2>2, <2>5, Zenon DEF ServiceInv, WorkersInv, WorkersStay
  <2>. QED  BY <2>1, <2>3, <2>4, <2>6 DEF WorkersInv
<1>6. NodesInv'
  <2>1. ASSUME NEW v \in Worker, NEW m \in Task, v # w \/ m # n
        PROVE  NodeInv(v, m)'
    <3>1. NodeInv(v, m)
        BY DEF ServiceInv, NodesInv
    <3>2. m \in rec'.over => m \in rec.over \/ exec[v][m].pc = "idle"
        BY <2>1, <1>3 DEF BudgetStep
    <3>3. m \in rec.over => m \in rec'.over
        BY DEF BudgetStep
    <3>4. stops => stops'
        BY DEF BudgetStep
    <3>5. /\ exec'[v][m].pc = exec[v][m].pc
          /\ exec'[v][m].out # exec[v][m].out =>
                exec[v][m].pc = "idle" /\ exec'[v][m].out = "skipped"
          /\ exec'[v][m].child # exec[v][m].child =>
                exec[v][m].child = "active" /\ exec'[v][m].child = "told"
        BY <2>1 DEF OthersStay
    <3>6. worker'[v].pc = worker[v].pc /\ worker'[v].aborted = worker[v].aborted
        BY DEF WorkersStay
    <3>. QED  BY <3>1, <3>2, <3>3, <3>4, <3>5, <3>6 DEF NodeInv, Ended
  <2>. QED  BY <2>1 DEF NodesInv
<1>7. RecInv'
  <2>1. rec'.over # {} => rec'.status \in {"failed", "cancelling", "cancelled", "orphaned"}
      BY DEF BudgetStep, ServiceInv, RecInv
  <2>2. AtWork(0)' /\ rec'.status = "failed" => stops' \/ rec'.over # {}
    <3>1. SUFFICES ASSUME AtWork(0)', rec'.status = "failed", rec'.over = {}
                   PROVE  stops'
        OBVIOUS
    <3>2. 0 \in Worker
        BY ServiceAssumption DEF Worker
    <3>3. AtWork(0) /\ w = 0
        BY <3>1, <3>2, <1>2, <1>4
    <3>4. rec.over = {}
        BY <3>1 DEF BudgetStep
    <3>. QED  BY <3>1, <3>3, <3>4 DEF BudgetStep, ServiceInv, RecInv
  <2>3. ASSUME NEW v \in Worker
        PROVE  /\ worker'[v].pc \notin {"resolving", "start"}
               /\ v # 0 => worker'[v].pc \notin {"loop", "finish"}
               /\ worker'[v].pc = "level" => v = w
      BY <1>1, <1>2 DEF WorkersStay, Acting, AtWork
  <2>4. ASSUME w # 0
        PROVE  /\ \A m \in rec'.over : exec'[w][m].pc # "idle"
               /\ rec'.status = "failed" => \E m \in Task : Blocked(w, m)'
    <3>1. /\ \A m \in rec.over : exec[w][m].pc # "idle"
          /\ rec.status = "failed" => \E m \in Task : Blocked(w, m)
        BY <2>4, <1>1 DEF ServiceInv, RecInv
    <3>2. rec.over \subseteq Task
        BY DEF ServiceInv, ServiceTypeOK, RecordStates
    <3>3. \A m \in rec'.over : exec'[w][m].pc # "idle"
        BY <3>1, <3>2 DEF BudgetStep, OthersStay
    <3>4. ASSUME NEW m \in Task, m # n, Blocked(w, m)
          PROVE  Blocked(w, m)'
        BY <3>4 DEF Blocked, OthersStay, BudgetStep
    <3>5. rec'.status = "failed" => \E m \in Task : Blocked(w, m)'
      <4>1. CASE rec.status = "failed"
          BY <4>1, <3>1, <3>4, <2>4
      <4>2. CASE rec.status # "failed"
        <5>1. rec'.status = "failed" => n \in rec'.over \/ Blocked(w, n)'
            BY <4>2 DEF BudgetStep
        <5>2. n \in rec'.over => Blocked(w, n)'
            BY DEF Blocked
        <5>. QED  BY <5>1, <5>2
      <4>. QED  BY <4>1, <4>2
    <3>. QED  BY <3>3, <3>5
  <2>. QED  BY <2>1, <2>2, <2>3, <2>4 DEF RecInv
<1>. QED  BY <1>5, <1>6, <1>7

\* One execution gets another state.
LEMMA OneMoves ==
    ASSUME exec \in [Worker -> [Task -> ExecutionStates]],
           NEW w \in Worker, NEW n \in Task, NEW r \in ExecutionStates,
           exec' = [exec EXCEPT ![w][n] = r]
    PROVE  /\ exec' \in [Worker -> [Task -> ExecutionStates]]
           /\ OthersStay(w, n)
           /\ exec'[w][n] = r
BY DEF OthersStay

LEMMA GoEffect ==
    ASSUME exec \in [Worker -> [Task -> ExecutionStates]],
           NEW w \in Worker, NEW n \in Task, NEW p, Go(w, n, p),
           p \in {"idle", "acquire", "decide", "stopRetry", "delay", "returned"} \union Holding
    PROVE  /\ exec' \in [Worker -> [Task -> ExecutionStates]]
           /\ OthersStay(w, n)
           /\ exec'[w][n].pc = p
           /\ exec'[w][n].out = exec[w][n].out
           /\ exec'[w][n].child = exec[w][n].child
<1>1. PICK e \in ExecutionStates : e = exec[w][n]
    OBVIOUS
<1>2. [e EXCEPT !.pc = p] \in ExecutionStates
    BY DEF ExecutionStates
<1>3. PICK r \in ExecutionStates : r = [e EXCEPT !.pc = p]
    BY <1>2
<1>4. exec' = [exec EXCEPT ![w][n] = r]
    BY <1>1, <1>3 DEF Go
<1>5. exec' \in [Worker -> [Task -> ExecutionStates]] /\ OthersStay(w, n) /\ exec'[w][n] = r
    BY <1>4, OneMoves
<1>. QED  BY <1>1, <1>3, <1>5 DEF ExecutionStates

LEMMA AnswerEffect ==
    ASSUME exec \in [Worker -> [Task -> ExecutionStates]],
           NEW w \in Worker, NEW n \in Task, NEW out \in Answers, Answer(w, n, out)
    PROVE  /\ exec' \in [Worker -> [Task -> ExecutionStates]]
           /\ OthersStay(w, n)
           /\ exec'[w][n].pc = "decide"
           /\ exec'[w][n].out = out
           /\ exec'[w][n].child = Forgotten(exec[w][n].child)
<1>1. PICK e \in ExecutionStates : e = exec[w][n]
    OBVIOUS
<1>2. [e EXCEPT !.pc = "decide", !.out = out, !.child = Forgotten(@)] \in ExecutionStates
    BY DEF ExecutionStates, Forgotten
<1>3. PICK r \in ExecutionStates : r = [e EXCEPT !.pc = "decide", !.out = out, !.child = Forgotten(@)]
    BY <1>2
<1>4. exec' = [exec EXCEPT ![w][n] = r]
    BY <1>1, <1>3 DEF Answer
<1>5. exec' \in [Worker -> [Task -> ExecutionStates]] /\ OthersStay(w, n) /\ exec'[w][n] = r
    BY <1>4, OneMoves
<1>. QED  BY <1>1, <1>3, <1>5 DEF ExecutionStates

LEMMA TellChildEffect ==
    ASSUME exec \in [Worker -> [Task -> ExecutionStates]],
           NEW w \in Worker, NEW n \in Task, NEW p \in Holding, TellChild(w, n, p)
    PROVE  /\ exec' \in [Worker -> [Task -> ExecutionStates]]
           /\ OthersStay(w, n)
           /\ exec'[w][n].pc = p
           /\ exec'[w][n].out = exec[w][n].out
           /\ exec'[w][n].child = IF exec[w][n].child = "active" THEN "told"
                                  ELSE exec[w][n].child
<1>1. PICK e \in ExecutionStates : e = exec[w][n]
    OBVIOUS
<1>2. [e EXCEPT !.pc = p, !.child = IF @ = "active" THEN "told" ELSE @] \in ExecutionStates
    BY DEF ExecutionStates
<1>3. PICK r \in ExecutionStates : r = [e EXCEPT !.pc = p, !.child = IF @ = "active" THEN "told" ELSE @]
    BY <1>2
<1>4. exec' = [exec EXCEPT ![w][n] = r]
    BY <1>1, <1>3 DEF TellChild
<1>5. exec' \in [Worker -> [Task -> ExecutionStates]] /\ OthersStay(w, n) /\ exec'[w][n] = r
    BY <1>4, OneMoves
<1>. QED  BY <1>1, <1>3, <1>5 DEF ExecutionStates

LEMMA NodeEffect ==
    ASSUME rec \in RecordStates, NEW n \in Task,
           NEW s \in {"pending", "queued", "running", "retrying", "skipped", "succeeded",
                      "failed", "cancelled", "policy_blocked", "orphaned"},
           rec' = [rec EXCEPT !.node[n] = s]
    PROVE  rec' \in RecordStates /\ rec'.status = rec.status /\ rec'.over = rec.over
BY DEF RecordStates

(***************************************************************************)
(* Every step of an executeNode() is of that kind.                         *)
(***************************************************************************)

ExecutionMoves(w, n) ==
    /\ ServiceTypeOK'
    /\ exec[w][n].pc # "idle" /\ exec'[w][n].pc # "idle"
    /\ OthersStay(w, n)
    /\ WorkersStay
    /\ BudgetStep(w, n)
    /\ NodeInv(w, n)'
    /\ w # 0 /\ Blocked(w, n) => Blocked(w, n)'

LEMMA MovesPreserve ==
    ASSUME ServiceInv, NEW w \in Worker, NEW n \in Task, ExecutionMoves(w, n)
    PROVE  ServiceInv' /\ (rec.status \in TerminalStates => rec'.status = rec.status)
<1>1. WorkersInv' /\ NodesInv' /\ RecInv'
    BY ExecutionStep DEF ExecutionMoves
<1>2. rec.status \in {"queued", "running", "cancelling", "failed"}
    BY DEF ExecutionMoves, ServiceInv, NodesInv, NodeInv, WorkersInv, AtWork
<1>3. rec.status \in TerminalStates => rec'.status = rec.status
    BY <1>2 DEF TerminalStates, ExecutionMoves, BudgetStep
<1>. QED  BY <1>1, <1>3 DEF ServiceInv, ExecutionMoves

\* What a step finds, and what it leaves to show.
LEMMA StepFinds ==
    ASSUME ServiceInv, NEW w \in Worker, NEW n \in Task, NEW p, At(w, n, p)
    PROVE  /\ exec \in [Worker -> [Task -> ExecutionStates]] /\ exec[w][n] \in ExecutionStates
           /\ rec \in RecordStates
           /\ exec[w][n].pc = p /\ NodeInv(w, n) /\ worker[w].aborted \in BOOLEAN
BY DEF ServiceInv, NodesInv, ServiceTypeOK, At, WorkerStates

LEMMA StepLeaves ==
    ASSUME ServiceInv, NEW w \in Worker, NEW n \in Task,
           exec[w][n].pc # "idle", exec'[w][n].pc # "idle",
           exec' \in [Worker -> [Task -> ExecutionStates]], OthersStay(w, n),
           rec' \in RecordStates, stops' \in BOOLEAN, BudgetStep(w, n), NodeInv(w, n)',
           w # 0 /\ Blocked(w, n) => Blocked(w, n)',
           UNCHANGED <<gated, inputs, controller, worker, canceller, alive>>
    PROVE  ExecutionMoves(w, n)
<1>1. ServiceTypeOK'
    BY DEF ServiceInv, ServiceTypeOK
<1>2. WorkersStay
    BY DEF WorkersStay
<1>. QED  BY <1>1, <1>2 DEF ExecutionMoves

\* The three ways an execution moves, before it decides.
Before(w, n) == exec[w][n].pc \notin {"idle", "decide", "returned"}

Rest == UNCHANGED <<gated, inputs, controller, worker, canceller, alive>>

LEMMA GoStep ==
    ASSUME ServiceInv, NEW w \in Worker, NEW n \in Task, Before(w, n),
           NEW p \in Holding \union {"stopRetry", "delay"}, Go(w, n, p),
           rec' \in RecordStates, stops' \in BOOLEAN, BudgetStep(w, n), Rest,
           exec[w][n].child = "active" => p \in {"note", "noted", "poll", "stopThrow"},
           p = "poll" /\ worker[w].aborted => exec[w][n].child # "active",
           p \in {"note", "noted", "poll", "lapsed"} => exec[w][n].child # "none",
           p \in {"account", "answer"} => exec[w][n].child \in Ended,
           p = "answer" => n \notin rec'.over,
           p = "stopThrow" => n \in rec'.over,
           p \in {"stopAnswer", "stopThrow", "stopRetry"} => stops'
    PROVE  ExecutionMoves(w, n)
<1>1. exec \in [Worker -> [Task -> ExecutionStates]] /\ NodeInv(w, n)
    BY DEF ServiceInv, NodesInv, ServiceTypeOK
<1>2. p \in {"idle", "acquire", "decide", "stopRetry", "delay", "returned"} \union Holding
    OBVIOUS
<1>3. /\ exec' \in [Worker -> [Task -> ExecutionStates]] /\ OthersStay(w, n)
      /\ exec'[w][n].pc = p /\ exec'[w][n].child = exec[w][n].child
    BY <1>1, <1>2, GoEffect
<1>4. p \notin {"idle", "decide", "returned"}
    BY DEF Holding
<1>5. worker' = worker
    BY DEF Rest
<1>6. NodeInv(w, n)'
    BY <1>1, <1>3, <1>4, <1>5 DEF NodeInv, Before
<1>7. Blocked(w, n) => Blocked(w, n)'
    BY DEF Blocked, Before, BudgetStep
<1>. QED  BY <1>3, <1>4, <1>6, <1>7, StepLeaves DEF Rest, Before

LEMMA AnswerStep ==
    ASSUME ServiceInv, NEW w \in Worker, NEW n \in Task, Before(w, n),
           NEW out \in Answers, Answer(w, n, out),
           rec' \in RecordStates, stops' \in BOOLEAN, BudgetStep(w, n), Rest,
           exec[w][n].child # "active", n \in rec'.over => out # "succeeded"
    PROVE  ExecutionMoves(w, n)
<1>1. exec \in [Worker -> [Task -> ExecutionStates]] /\ NodeInv(w, n)
    BY DEF ServiceInv, NodesInv, ServiceTypeOK
<1>2. /\ exec' \in [Worker -> [Task -> ExecutionStates]] /\ OthersStay(w, n)
      /\ exec'[w][n].pc = "decide" /\ exec'[w][n].out = out
      /\ exec'[w][n].child = Forgotten(exec[w][n].child)
    BY <1>1, AnswerEffect
<1>3. worker' = worker
    BY DEF Rest
<1>4. NodeInv(w, n)'
    BY <1>1, <1>2, <1>3 DEF NodeInv, Before, Forgotten
<1>5. Blocked(w, n) => Blocked(w, n)'
    BY DEF Blocked, Before, BudgetStep
<1>. QED  BY <1>2, <1>4, <1>5, StepLeaves DEF Rest, Before

LEMMA TellStep ==
    ASSUME ServiceInv, NEW w \in Worker, NEW n \in Task, Before(w, n),
           NEW p \in {"catchCancelled", "lapsed"}, TellChild(w, n, p),
           rec' \in RecordStates, stops' \in BOOLEAN, BudgetStep(w, n), Rest,
           exec[w][n].child # "none"
    PROVE  ExecutionMoves(w, n)
<1>1. exec \in [Worker -> [Task -> ExecutionStates]] /\ NodeInv(w, n)
    BY DEF ServiceInv, NodesInv, ServiceTypeOK
<1>2. p \in Holding
    BY DEF Holding
<1>3. /\ exec' \in [Worker -> [Task -> ExecutionStates]] /\ OthersStay(w, n)
      /\ exec'[w][n].pc = p
      /\ exec'[w][n].child = IF exec[w][n].child = "active" THEN "told" ELSE exec[w][n].child
    BY <1>1, <1>2, TellChildEffect
<1>4. worker' = worker
    BY DEF Rest
<1>5. NodeInv(w, n)'
    BY <1>1, <1>3, <1>4 DEF NodeInv, Before
<1>6. Blocked(w, n) => Blocked(w, n)'
    BY DEF Blocked, Before, BudgetStep
<1>. QED  BY <1>3, <1>5, <1>6, StepLeaves DEF Rest, Before

\* What they do to the record: nothing a budget is about, or an excess.
LEMMA RecStays ==
    ASSUME ServiceInv, NEW w \in Worker, NEW n \in Task,
           rec'.status = rec.status, rec'.over = rec.over, stops => stops'
    PROVE  BudgetStep(w, n)
BY DEF BudgetStep

LEMMA RecSpends ==
    ASSUME ServiceInv, NEW w \in Worker, NEW n \in Task, NEW x \in BOOLEAN,
           rec' = Spent(n, x), stops => stops'
    PROVE  /\ rec' \in RecordStates /\ BudgetStep(w, n)
           /\ ~x => rec' = rec
           /\ x => n \in rec'.over /\ n \in rec'.blamed
<1>1. rec \in RecordStates
    BY DEF ServiceInv, ServiceTypeOK
<1>2. /\ rec' \in RecordStates
      /\ ~x => rec' = rec
      /\ x => /\ rec'.status = "failed"
              /\ rec'.over = rec.over \union {n}
              /\ n \in rec'.blamed
    BY <1>1, SpentEffect
<1>3. BudgetStep(w, n)
    BY <1>2 DEF BudgetStep
<1>. QED  BY <1>2, <1>3

LEMMA AcquireMoves ==
    ASSUME ServiceInv, NEW w \in Worker, NEW n \in Task, Acquire(w, n)
    PROVE  ExecutionMoves(w, n)
<1>1. /\ rec \in RecordStates /\ exec[w][n].pc = "acquire" /\ NodeInv(w, n)
    BY StepFinds DEF Acquire
<1>2. rec' = rec /\ stops' = stops /\ Rest
    BY DEF Acquire, ExecOnly, RecOnly, Rest
<1>3. stops' \in BOOLEAN /\ BudgetStep(w, n)
    BY <1>2, RecStays DEF ServiceInv, ServiceTypeOK
<1>4. Before(w, n) /\ exec[w][n].child # "active"
    BY <1>1 DEF Before, NodeInv
<1>5. ASSUME NEW p \in {"catchCancelled", "begin"}, Go(w, n, p)
      PROVE  ExecutionMoves(w, n)
  <2>1. p \in Holding
      BY DEF Holding
  <2>. QED  BY <1>1, <1>2, <1>3, <1>4, <1>5, <2>1, GoStep
<1>6. ASSUME Answer(w, n, "policy_blocked")
      PROVE  ExecutionMoves(w, n)
  <2>1. "policy_blocked" \in Answers
      BY DEF Answers
  <2>. QED  BY <1>1, <1>2, <1>3, <1>4, <1>6, <2>1, AnswerStep
<1>. QED  BY <1>5, <1>6 DEF Acquire

LEMMA BeginMoves ==
    ASSUME ServiceInv, NEW w \in Worker, NEW n \in Task, Begin(w, n)
    PROVE  ExecutionMoves(w, n)
<1>1. /\ rec \in RecordStates /\ exec[w][n].pc = "begin" /\ NodeInv(w, n)
    BY StepFinds DEF Begin
<1>2. rec' = rec /\ Rest
    BY DEF Begin, Rest
<1>3. PICK p \in {"stopAnswer", "spend"} :
        Go(w, n, p) /\ IF p = "stopAnswer" THEN stops' = TRUE ELSE stops' = stops
    BY DEF Begin
<1>4. stops' \in BOOLEAN /\ BudgetStep(w, n) /\ (p = "stopAnswer" => stops')
    BY <1>2, <1>3, RecStays DEF ServiceInv, ServiceTypeOK
<1>5. Before(w, n) /\ exec[w][n].child # "active"
    BY <1>1 DEF Before, NodeInv
<1>6. p \in Holding
    BY DEF Holding
<1>. QED  BY <1>1, <1>2, <1>3, <1>4, <1>5, <1>6, GoStep

LEMMA SpendMoves ==
    ASSUME ServiceInv, NEW w \in Worker, NEW n \in Task, SpendIteration(w, n)
    PROVE  ExecutionMoves(w, n)
<1>1. /\ rec \in RecordStates /\ exec[w][n].pc = "spend" /\ NodeInv(w, n)
    BY StepFinds DEF SpendIteration
<1>2. stops' = stops /\ Rest /\ Go(w, n, "queue")
    BY DEF SpendIteration, RecOnly, Rest
<1>3. PICK x \in BOOLEAN : rec' = Spent(n, x)
    BY DEF SpendIteration, Excesses
<1>4. stops' \in BOOLEAN /\ rec' \in RecordStates /\ BudgetStep(w, n)
    BY <1>2, <1>3, RecSpends DEF ServiceInv, ServiceTypeOK
<1>5. Before(w, n) /\ exec[w][n].child # "active" /\ "queue" \in Holding
    BY <1>1 DEF Before, NodeInv, Holding
<1>. QED  BY <1>1, <1>2, <1>4, <1>5, GoStep

LEMMA CaughtPlaces == \A w \in Worker : Caught(w) \in {"catchCancelled", "catchBlocked"}
BY DEF Caught

\* An exception, where no child is known to run.
LEMMA Throws ==
    ASSUME ServiceInv, NEW w \in Worker, NEW n \in Task, Before(w, n),
           Go(w, n, Caught(w)), exec[w][n].child # "active",
           rec' = rec, stops' = stops, Rest
    PROVE  ExecutionMoves(w, n)
<1>1. rec' \in RecordStates /\ stops' \in BOOLEAN /\ BudgetStep(w, n)
    BY RecStays DEF ServiceInv, ServiceTypeOK
<1>2. PICK p \in {"catchCancelled", "catchBlocked"} : p = Caught(w)
    BY CaughtPlaces
<1>3. p \in Holding
    BY DEF Holding
<1>. QED  BY <1>1, <1>2, <1>3, GoStep

LEMMA QueueMoves ==
    ASSUME ServiceInv, NEW w \in Worker, NEW n \in Task, QueueNode(w, n)
    PROVE  ExecutionMoves(w, n)
<1>1. /\ rec \in RecordStates /\ exec[w][n].pc = "queue" /\ NodeInv(w, n)
    BY StepFinds DEF QueueNode
<1>2. stops' = stops /\ Rest
    BY DEF QueueNode, RecOnly, Rest
<1>3. Before(w, n) /\ exec[w][n].child # "active" /\ "enqueue" \in Holding
    BY <1>1 DEF Before, NodeInv, Holding
<1>4. ASSUME rec' = [rec EXCEPT !.node[n] = "queued", !.blamed = @ \ {n}],
             Go(w, n, "enqueue")
      PROVE  ExecutionMoves(w, n)
  <2>1. rec' \in RecordStates /\ rec'.status = rec.status /\ rec'.over = rec.over
      BY <1>1, <1>4 DEF RecordStates
  <2>2. stops' \in BOOLEAN /\ BudgetStep(w, n)
      BY <1>2, <2>1, RecStays DEF ServiceInv, ServiceTypeOK
  <2>. QED  BY <1>2, <1>3, <1>4, <2>1, <2>2, GoStep
<1>5. ASSUME InputsMissing(w, n)
      PROVE  ExecutionMoves(w, n)
    BY <1>2, <1>3, <1>5, Throws DEF InputsMissing
<1>. QED  BY <1>4, <1>5 DEF QueueNode

LEMMA EnqueueMoves ==
    ASSUME ServiceInv, NEW w \in Worker, NEW n \in Task, EnqueueChild(w, n)
    PROVE  ExecutionMoves(w, n)
<1>1. /\ rec \in RecordStates /\ exec[w][n].pc = "enqueue" /\ NodeInv(w, n)
      /\ exec \in [Worker -> [Task -> ExecutionStates]] /\ exec[w][n] \in ExecutionStates
    BY StepFinds DEF EnqueueChild
<1>2. stops' = stops /\ stops' \in BOOLEAN /\ Rest
    BY DEF EnqueueChild, RecOnly, Rest, ServiceInv, ServiceTypeOK
<1>3. Before(w, n) /\ exec[w][n].child # "active"
    BY <1>1 DEF Before, NodeInv
<1>4. ASSUME exec' = [exec EXCEPT ![w][n].pc = "note", ![w][n].child = "active"], rec' = rec
      PROVE  ExecutionMoves(w, n)
  <2>1. PICK e \in ExecutionStates : e = exec[w][n]
      BY <1>1
  <2>2. [e EXCEPT !.pc = "note", !.child = "active"] \in ExecutionStates
      BY DEF ExecutionStates, Holding
  <2>3. PICK r \in ExecutionStates : r = [e EXCEPT !.pc = "note", !.child = "active"]
      BY <2>2
  <2>4. exec' = [exec EXCEPT ![w][n] = r]
      BY <1>4, <2>1, <2>3
  <2>5. /\ exec' \in [Worker -> [Task -> ExecutionStates]] /\ OthersStay(w, n)
        /\ exec'[w][n] = r
      BY <1>1, <2>4, OneMoves
  <2>6. r.pc = "note" /\ r.child = "active"
      BY <2>3 DEF ExecutionStates
  <2>7. worker' = worker
      BY <1>2 DEF Rest
  <2>8. NodeInv(w, n)'
      BY <1>1, <1>4, <2>5, <2>6, <2>7 DEF NodeInv
  <2>9. BudgetStep(w, n) /\ rec' \in RecordStates
      BY <1>1, <1>2, <1>4, RecStays
  <2>10. Blocked(w, n) => Blocked(w, n)'
      BY <1>1, <1>4 DEF Blocked
  <2>. QED  BY <1>1, <1>2, <2>5, <2>6, <2>8, <2>9, <2>10, StepLeaves DEF Rest
<1>5. ASSUME rec' = [rec EXCEPT !.node[n] = "retrying"], Answer(w, n, "transient")
      PROVE  ExecutionMoves(w, n)
  <2>1. rec' \in RecordStates /\ rec'.status = rec.status /\ rec'.over = rec.over
      BY <1>1, <1>5, NodeEffect
  <2>2. BudgetStep(w, n)
      BY <1>2, <2>1, RecStays
  <2>3. "transient" \in Answers
      BY DEF Answers
  <2>. QED  BY <1>2, <1>3, <1>5, <2>1, <2>2, <2>3, AnswerStep
<1>6. ASSUME Go(w, n, Caught(w)), rec' = rec
      PROVE  ExecutionMoves(w, n)
    BY <1>2, <1>3, <1>6, Throws
<1>. QED  BY <1>4, <1>5, <1>6 DEF EnqueueChild

LEMMA NoteMoves ==
    ASSUME ServiceInv, NEW w \in Worker, NEW n \in Task, NoteChild(w, n)
    PROVE  ExecutionMoves(w, n)
<1>1. /\ rec \in RecordStates /\ exec[w][n].pc = "note" /\ NodeInv(w, n)
    BY StepFinds DEF NoteChild
<1>2. stops' = stops /\ stops' \in BOOLEAN /\ Rest
    BY DEF NoteChild, RecOnly, Rest, ServiceInv, ServiceTypeOK
<1>3. Before(w, n) /\ "noted" \in Holding /\ exec[w][n].child # "none"
    BY <1>1 DEF Before, Holding, NodeInv
<1>4. rec' \in RecordStates /\ rec'.status = rec.status /\ rec'.over = rec.over
    BY <1>1, NodeEffect DEF NoteChild
<1>5. BudgetStep(w, n)
    BY <1>2, <1>4, RecStays
<1>. QED  BY <1>2, <1>3, <1>4, <1>5, GoStep DEF NoteChild

\* waitForTerminal(), whichever way it comes to look.
LEMMA PollMoves ==
    ASSUME ServiceInv, NEW w \in Worker, NEW n \in Task,
           \/ PollStarts(w, n) \/ PollAborted(w, n) \/ PollTerminal(w, n)
           \/ PollDeadline(w, n) \/ PollLapsed(w, n)
    PROVE  ExecutionMoves(w, n)
<1>1. PICK q \in {"noted", "poll", "lapsed"} : At(w, n, q)
    BY DEF PollStarts, PollAborted, PollTerminal, PollDeadline, PollLapsed
<1>2. /\ rec \in RecordStates /\ exec[w][n].pc = q /\ NodeInv(w, n)
      /\ exec[w][n] \in ExecutionStates
    BY <1>1, StepFinds
<1>3. rec' = rec /\ stops' = stops /\ Rest
    BY DEF PollStarts, PollAborted, PollTerminal, PollDeadline, PollLapsed,
           ExecOnly, RecOnly, Rest
<1>4. rec' \in RecordStates /\ stops' \in BOOLEAN /\ BudgetStep(w, n)
    BY <1>3, RecStays DEF ServiceInv, ServiceTypeOK
<1>5. Before(w, n) /\ exec[w][n].child # "none"
    BY <1>2 DEF Before, NodeInv
<1>6. {"poll", "account", "catchCancelled", "catchBlocked"} \subseteq Holding
    BY DEF Holding
<1>7. ~Live(w, n) => exec[w][n].child \in Ended
    BY <1>2, <1>5 DEF Live, ExecutionStates
<1>8. CASE PollStarts(w, n)
  <2>1. CASE worker[w].aborted
      BY <1>3, <1>4, <1>5, <1>8, <2>1, TellStep DEF PollStarts
  <2>2. CASE ~worker[w].aborted
    <3>1. Go(w, n, "poll")
        BY <1>8, <2>2 DEF PollStarts
    <3>. QED  BY <1>3, <1>4, <1>5, <1>6, <2>2, <3>1, GoStep
  <2>. QED  BY <2>1, <2>2
<1>9. CASE PollAborted(w, n)
  <2>1. CASE TellChild(w, n, "catchCancelled")
      BY <1>3, <1>4, <1>5, <2>1, TellStep
  <2>2. CASE Go(w, n, "catchCancelled")
    <3>1. exec[w][n].child # "active"
        BY <1>2, <1>9 DEF PollAborted, At, NodeInv
    <3>. QED  BY <1>3, <1>4, <1>5, <1>6, <2>2, <3>1, GoStep
  <2>. QED  BY <1>9, <2>1, <2>2 DEF PollAborted
<1>10. CASE PollTerminal(w, n)
  <2>1. Go(w, n, "account") /\ exec[w][n].child \in Ended /\ exec[w][n].child # "active"
      BY <1>7, <1>10 DEF PollTerminal, Ended
  <2>. QED  BY <1>3, <1>4, <1>5, <1>6, <2>1, GoStep
<1>11. CASE PollDeadline(w, n)
    BY <1>3, <1>4, <1>5, <1>11, TellStep DEF PollDeadline
<1>12. CASE PollLapsed(w, n)
  <2>1. exec[w][n].child # "active"
      BY <1>2, <1>12 DEF PollLapsed, At, NodeInv
  <2>2. CASE Live(w, n)
      BY <1>3, <1>5, <1>12, <2>1, <2>2, Throws DEF PollLapsed
  <2>3. CASE ~Live(w, n)
    <3>1. Go(w, n, "account")
        BY <1>12, <2>3 DEF PollLapsed
    <3>. QED  BY <1>3, <1>4, <1>5, <1>6, <1>7, <2>1, <2>3, <3>1, GoStep
  <2>. QED  BY <2>2, <2>3
<1>. QED  BY <1>8, <1>9, <1>10, <1>11, <1>12

LEMMA ExceedsMoves ==
    ASSUME ServiceInv, NEW w \in Worker, NEW n \in Task, PollExceeds(w, n)
    PROVE  ExecutionMoves(w, n)
<1>1. exec[w][n].pc = "poll" /\ NodeInv(w, n)
    BY StepFinds DEF PollExceeds
<1>2. stops' = TRUE /\ Rest /\ Go(w, n, "stopThrow") /\ rec' = Spent(n, TRUE)
    BY DEF PollExceeds, Rest
<1>3. rec' \in RecordStates /\ BudgetStep(w, n) /\ n \in rec'.over
    BY <1>2, RecSpends
<1>4. Before(w, n) /\ "stopThrow" \in Holding
    BY <1>1 DEF Before, Holding
<1>. QED  BY <1>2, <1>3, <1>4, GoStep

LEMMA AccountMoves ==
    ASSUME ServiceInv, NEW w \in Worker, NEW n \in Task, Account(w, n)
    PROVE  ExecutionMoves(w, n)
<1>1. exec[w][n].pc = "account" /\ NodeInv(w, n)
    BY StepFinds DEF Account
<1>2. Rest
    BY DEF Account, Rest
<1>3. PICK x \in Excesses(n) :
        /\ rec' = Spent(n, x)
        /\ IF n \in rec'.blamed THEN stops' = TRUE /\ Go(w, n, "stopAnswer")
           ELSE stops' = stops /\ Go(w, n, "answer")
    BY DEF Account
<1>4. x \in BOOLEAN /\ (n \in rec.over => x)
    BY DEF Excesses
<1>5. stops' \in BOOLEAN /\ (stops => stops')
    BY <1>3 DEF ServiceInv, ServiceTypeOK
<1>6. /\ rec' \in RecordStates /\ BudgetStep(w, n)
      /\ n \notin rec'.blamed => n \notin rec'.over
    BY <1>3, <1>4, <1>5, RecSpends
<1>7. /\ Before(w, n) /\ {"stopAnswer", "answer"} \subseteq Holding
      /\ exec[w][n].child \in Ended /\ exec[w][n].child # "active"
    BY <1>1 DEF Before, Holding, NodeInv, Ended
<1>8. CASE n \in rec'.blamed
    BY <1>2, <1>3, <1>5, <1>6, <1>7, <1>8, GoStep
<1>9. CASE n \notin rec'.blamed
    BY <1>2, <1>3, <1>5, <1>6, <1>7, <1>9, GoStep
<1>. QED  BY <1>8, <1>9

LEMMA SuccessMoves ==
    ASSUME ServiceInv, NEW w \in Worker, NEW n \in Task, AnswerSuccess(w, n)
    PROVE  ExecutionMoves(w, n)
<1>1. rec \in RecordStates /\ exec[w][n].pc = "answer" /\ NodeInv(w, n)
    BY StepFinds DEF AnswerSuccess
<1>2. stops' = stops /\ stops' \in BOOLEAN /\ Rest
    BY DEF AnswerSuccess, RecOnly, Rest, ServiceInv, ServiceTypeOK
<1>3. Before(w, n) /\ exec[w][n].child # "active" /\ n \notin rec.over
    BY <1>1 DEF Before, NodeInv, Ended
<1>4. ASSUME NEW s \in {"succeeded", "failed"},
             rec' = [rec EXCEPT !.node[n] = s], Answer(w, n, s)
      PROVE  ExecutionMoves(w, n)
  <2>1. rec' \in RecordStates /\ rec'.status = rec.status /\ rec'.over = rec.over
      BY <1>1, <1>4, NodeEffect
  <2>2. BudgetStep(w, n)
      BY <1>2, <2>1, RecStays
  <2>3. s \in Answers
      BY DEF Answers
  <2>. QED  BY <1>2, <1>3, <1>4, <2>1, <2>2, <2>3, AnswerStep
<1>5. ASSUME NoProposals(w, n)
      PROVE  ExecutionMoves(w, n)
    BY <1>2, <1>3, <1>5, Throws DEF NoProposals
<1>. QED  BY <1>4, <1>5 DEF AnswerSuccess

LEMMA FailureMoves ==
    ASSUME ServiceInv, NEW w \in Worker, NEW n \in Task, AnswerFailure(w, n)
    PROVE  ExecutionMoves(w, n)
<1>1. rec \in RecordStates /\ exec[w][n].pc = "answer" /\ NodeInv(w, n)
    BY StepFinds DEF AnswerFailure
<1>2. stops' = stops /\ stops' \in BOOLEAN /\ Rest
    BY DEF AnswerFailure, RecOnly, Rest, ServiceInv, ServiceTypeOK
<1>3. /\ Before(w, n) /\ exec[w][n].child # "active" /\ n \notin rec.over
      /\ exec[w][n].child \in Answers
    BY <1>1 DEF Before, NodeInv, Ended, Answers
<1>4. PICK s \in {"cancelled", "retrying"} : rec' = [rec EXCEPT !.node[n] = s]
    BY DEF AnswerFailure
<1>5. rec' \in RecordStates /\ rec'.status = rec.status /\ rec'.over = rec.over
    BY <1>1, <1>4, NodeEffect
<1>6. BudgetStep(w, n)
    BY <1>2, <1>5, RecStays
<1>7. PICK out \in Answers : out = exec[w][n].child
    BY <1>3
<1>8. Answer(w, n, out)
    BY <1>7 DEF AnswerFailure
<1>. QED  BY <1>2, <1>3, <1>5, <1>6, <1>8, AnswerStep

LEMMA CatchMoves ==
    ASSUME ServiceInv, NEW w \in Worker, NEW n \in Task, Catch(w, n)
    PROVE  ExecutionMoves(w, n)
<1>1. PICK s \in {"cancelled", "policy_blocked"} :
        /\ At(w, n, IF s = "cancelled" THEN "catchCancelled" ELSE "catchBlocked")
        /\ rec' = [rec EXCEPT !.node[n] = s]
        /\ Answer(w, n, s)
    BY DEF Catch
<1>2. /\ rec \in RecordStates /\ exec[w][n].pc \in {"catchCancelled", "catchBlocked"}
      /\ NodeInv(w, n)
    BY <1>1, StepFinds
<1>3. stops' = stops /\ stops' \in BOOLEAN /\ Rest
    BY DEF Catch, RecOnly, Rest, ServiceInv, ServiceTypeOK
<1>4. Before(w, n) /\ exec[w][n].child # "active" /\ s \in Answers
    BY <1>2 DEF Before, NodeInv, Answers
<1>5. rec' \in RecordStates /\ rec'.status = rec.status /\ rec'.over = rec.over
    BY <1>1, <1>2, NodeEffect
<1>6. BudgetStep(w, n)
    BY <1>3, <1>5, RecStays
<1>. QED  BY <1>1, <1>3, <1>4, <1>5, <1>6, AnswerStep

LEMMA StopMoves ==
    ASSUME ServiceInv, NEW w \in Worker, NEW n \in Task, Stop(w, n)
    PROVE  ExecutionMoves(w, n)
<1>1. PICK q \in {"stopAnswer", "stopThrow", "stopRetry"} :
        /\ At(w, n, q)
        /\ exec' = Tell([exec EXCEPT
                     ![w][n].pc = CASE q = "stopAnswer" -> "decide"
                                    [] q = "stopThrow" -> Caught(w)
                                    [] q = "stopRetry" -> "returned",
                     ![w][n].out = IF q = "stopThrow" THEN @ ELSE "policy_blocked",
                     ![w][n].child = Forgotten(@)])
    BY DEF Stop
<1>2. /\ rec \in RecordStates /\ exec[w][n].pc = q /\ NodeInv(w, n)
      /\ exec \in [Worker -> [Task -> ExecutionStates]] /\ exec[w][n] \in ExecutionStates
    BY <1>1, StepFinds
<1>3. rec' = Stopped /\ stops' = stops /\ stops' \in BOOLEAN /\ Rest
    BY DEF Stop, RecOnly, Rest, ServiceInv, ServiceTypeOK
<1>4. PICK e \in ExecutionStates : e = exec[w][n]
    BY <1>2
<1>5. PICK p \in {"decide", "returned", "catchCancelled", "catchBlocked"} :
        p = (CASE q = "stopAnswer" -> "decide"
               [] q = "stopThrow" -> Caught(w)
               [] q = "stopRetry" -> "returned")
    BY CaughtPlaces
<1>6. [e EXCEPT !.pc = p, !.out = IF q = "stopThrow" THEN @ ELSE "policy_blocked",
                !.child = Forgotten(@)] \in ExecutionStates
    BY DEF ExecutionStates, Holding, Forgotten, Answers
<1>7. PICK r \in ExecutionStates :
        r = [e EXCEPT !.pc = p, !.out = IF q = "stopThrow" THEN @ ELSE "policy_blocked",
                      !.child = Forgotten(@)]
    BY <1>6
<1>8. exec' = Tell([exec EXCEPT ![w][n] = r])
    BY <1>1, <1>4, <1>5, <1>7
<1>9. r.pc = p /\ r.out = IF q = "stopThrow" THEN e.out ELSE "policy_blocked"
    BY <1>7 DEF ExecutionStates
<1>10. PICK f \in [Worker -> [Task -> ExecutionStates]] : f = [exec EXCEPT ![w][n] = r]
    BY <1>2
<1>11. /\ f[w][n] = r
       /\ \A v \in Worker, m \in Task : v # w \/ m # n => f[v][m] = exec[v][m]
    BY <1>2, <1>10
<1>12. /\ exec' \in [Worker -> [Task -> ExecutionStates]]
       /\ \A v \in Worker, m \in Task :
            /\ exec'[v][m].pc = f[v][m].pc
            /\ exec'[v][m].out = f[v][m].out
            /\ exec'[v][m].child # f[v][m].child =>
                  f[v][m].child = "active" /\ exec'[v][m].child = "told"
            /\ exec'[v][m].child = "active" => f[v][m].pc = "note"
  <2>1. exec' = Tell(f)
      BY <1>8, <1>10
  <2>2. /\ Tell(f) \in [Worker -> [Task -> ExecutionStates]]
        /\ \A v \in Worker, m \in Task :
             /\ Tell(f)[v][m].pc = f[v][m].pc
             /\ Tell(f)[v][m].out = f[v][m].out
             /\ Tell(f)[v][m].child # f[v][m].child =>
                   f[v][m].child = "active" /\ Tell(f)[v][m].child = "told"
             /\ Tell(f)[v][m].child = "active" => f[v][m].pc = "note"
      BY <1>10, TellEffect
  <2>. QED  BY <2>1, <2>2
<1>13. OthersStay(w, n)
    BY <1>11, <1>12 DEF OthersStay
<1>14. /\ exec'[w][n].pc = p /\ exec'[w][n].child # "active"
       /\ exec'[w][n].out = IF q = "stopThrow" THEN e.out ELSE "policy_blocked"
    BY <1>9, <1>11, <1>12
<1>15. rec' \in RecordStates /\ rec'.status = "failed" /\ rec'.over = rec.over
    BY <1>2, <1>3, StoppedEffect
<1>16. worker' = worker
    BY <1>3 DEF Rest
<1>17. q = "stopThrow" => n \in rec.over
    BY <1>2 DEF NodeInv
<1>18. q # "stopThrow" => p \in {"decide", "returned"}
    BY <1>5
<1>19. NodeInv(w, n)'
    BY <1>2, <1>3, <1>5, <1>14, <1>15, <1>16, <1>17 DEF NodeInv, Caught
<1>20. n \in rec'.over \/ Blocked(w, n)'
    BY <1>14, <1>15, <1>17, <1>18 DEF Blocked
<1>21. w = 0 => stops'
    BY <1>2, <1>3 DEF NodeInv
<1>22. BudgetStep(w, n)
    BY <1>3, <1>15, <1>20, <1>21 DEF BudgetStep
<1>23. Blocked(w, n) => Blocked(w, n)'
    BY <1>2, <1>15 DEF Blocked
<1>. QED  BY <1>2, <1>3, <1>12, <1>13, <1>14, <1>15, <1>19, <1>22, <1>23, StepLeaves DEF Rest

(***************************************************************************)
(* What the worker makes of an answer.                                     *)
(***************************************************************************)

\* The runner takes an answer, and skips what it has not started.
LEMMA TakesMoves ==
    ASSUME ServiceInv, NEW n \in Task, exec[0][n].pc # "idle", exec[0][n].child # "active",
           NEW out \in {"none", "skipped"} \union (Answers \ {"transient"}),
           n \in rec.over => out # "succeeded",
           RunnerTakes(n, out),
           UNCHANGED <<gated, rec, inputs, stops, controller, canceller, alive>>
    PROVE  ExecutionMoves(0, n)
<1>1. /\ exec \in [Worker -> [Task -> ExecutionStates]] /\ 0 \in Worker
      /\ worker \in [Worker -> WorkerStates] /\ NodeInv(0, n)
    BY ServiceAssumption DEF ServiceInv, ServiceTypeOK, NodesInv, Worker
<1>2. PICK S \in SUBSET Task :
        /\ \A m \in S : exec[0][m].pc = "idle"
        /\ exec' = [exec EXCEPT ![0] = [m \in Task |->
                     IF m = n THEN [@[m] EXCEPT !.pc = "returned", !.out = out]
                     ELSE IF m \in S THEN [@[m] EXCEPT !.out = "skipped"]
                     ELSE @[m]]]
        /\ worker' = [worker EXCEPT ![0].remaining = @ \ (S \union {n})]
  <2>. DEFINE T == {m \in worker[0].remaining \ {n} :
                      /\ out # "succeeded"
                      /\ exec[0][m].pc = "idle"
                      /\ n \in FatalTasks \/ m \in Downstream(n)}
  <2>1. T \in SUBSET Task /\ \A m \in T : exec[0][m].pc = "idle"
      BY <1>1 DEF WorkerStates
  <2>2. /\ exec' = [exec EXCEPT ![0] = [m \in Task |->
                     IF m = n THEN [@[m] EXCEPT !.pc = "returned", !.out = out]
                     ELSE IF m \in T THEN [@[m] EXCEPT !.out = "skipped"]
                     ELSE @[m]]]
        /\ worker' = [worker EXCEPT ![0].remaining = @ \ (T \union {n})]
      BY DEF RunnerTakes
  <2>. HIDE DEF T
  <2>. QED  BY <2>1, <2>2
<1>3. ASSUME NEW m \in Task
      PROVE  /\ exec'[0][m] \in ExecutionStates
             /\ m = n => exec'[0][m].pc = "returned" /\ exec'[0][m].out = out
             /\ m # n => exec'[0][m].pc = exec[0][m].pc
             /\ exec'[0][m].child = exec[0][m].child
             /\ m # n /\ exec'[0][m].out # exec[0][m].out =>
                   exec[0][m].pc = "idle" /\ exec'[0][m].out = "skipped"
  <2>1. PICK e \in ExecutionStates : e = exec[0][m]
      BY <1>1
  <2>2. exec'[0][m] = IF m = n THEN [e EXCEPT !.pc = "returned", !.out = out]
                      ELSE IF m \in S THEN [e EXCEPT !.out = "skipped"]
                      ELSE e
      BY <1>1, <1>2, <2>1
  <2>3. m \in S => e.pc = "idle"
      BY <1>2, <2>1
  <2>. QED  BY <2>1, <2>2, <2>3 DEF ExecutionStates
<1>4. \A v \in Worker : v # 0 => exec'[v] = exec[v]
    BY <1>1, <1>2
<1>5. exec' \in [Worker -> [Task -> ExecutionStates]]
    BY <1>1, <1>2, <1>3, <1>4
<1>6. OthersStay(0, n)
    BY <1>3, <1>4 DEF OthersStay
<1>7. /\ worker' \in [Worker -> WorkerStates]
      /\ \A v \in Worker : /\ worker'[v].pc = worker[v].pc
                           /\ worker'[v].aborted = worker[v].aborted
                           /\ worker'[v].report = worker[v].report
    BY <1>1, <1>2 DEF WorkerStates
<1>8. ServiceTypeOK'
    BY <1>5, <1>7 DEF ServiceInv, ServiceTypeOK
<1>9. WorkersStay
    BY <1>7 DEF WorkersStay
<1>10. BudgetStep(0, n)
    BY RecStays, <1>1
<1>11. NodeInv(0, n)'
    BY <1>1, <1>3, <1>7 DEF NodeInv
<1>. QED  BY <1>3, <1>6, <1>8, <1>9, <1>10, <1>11 DEF ExecutionMoves

\* A decision without the runner.
LEMMA DecidedMoves ==
    ASSUME ServiceInv, NEW w \in Worker, NEW n \in Task, exec[w][n].pc = "decide",
           NEW p \in {"delay", "stopRetry", "returned"}, Go(w, n, p),
           rec' \in RecordStates, rec'.status = rec.status, rec'.over = rec.over,
           stops' \in BOOLEAN, stops => stops', p = "stopRetry" => stops',
           p = "returned" => w # 0, p # "returned" => exec[w][n].out # "policy_blocked",
           worker' \in [Worker -> WorkerStates], WorkersStay, gated' = gated
    PROVE  ExecutionMoves(w, n)
<1>1. exec \in [Worker -> [Task -> ExecutionStates]] /\ NodeInv(w, n)
    BY DEF ServiceInv, NodesInv, ServiceTypeOK
<1>2. /\ exec' \in [Worker -> [Task -> ExecutionStates]] /\ OthersStay(w, n)
      /\ exec'[w][n].pc = p /\ exec'[w][n].child = exec[w][n].child
      /\ exec'[w][n].out = exec[w][n].out
    BY <1>1, GoEffect
<1>3. ServiceTypeOK'
    BY <1>2 DEF ServiceInv, ServiceTypeOK, WorkersStay
<1>4. worker'[w].pc = worker[w].pc
    BY DEF WorkersStay
<1>5. NodeInv(w, n)'
    BY <1>1, <1>2, <1>4 DEF NodeInv
<1>6. BudgetStep(w, n)
    BY RecStays
<1>7. Blocked(w, n) => Blocked(w, n)'
    BY <1>2 DEF Blocked
<1>. QED  BY <1>2, <1>3, <1>5, <1>6, <1>7 DEF ExecutionMoves

LEMMA RunnerMoves ==
    ASSUME ServiceInv, NEW n \in Task, RunnerDecides(n)
    PROVE  ExecutionMoves(0, n)
<1>1. 0 \in Worker
    BY ServiceAssumption DEF Worker
<1>2. exec[0][n].pc = "decide" /\ NodeInv(0, n) /\ exec[0][n] \in ExecutionStates
    BY <1>1, StepFinds DEF RunnerDecides
<1>3. UNCHANGED <<gated, rec, inputs, stops, controller, canceller, alive>>
    BY DEF RunnerDecides
<1>4. CASE TriesAgain(0, n)
  <2>1. Go(0, n, "delay") /\ worker' = worker
      BY <1>4 DEF RunnerDecides
  <2>2. exec[0][n].out # "policy_blocked"
      BY <1>4 DEF TriesAgain
  <2>3. /\ rec' \in RecordStates /\ stops' \in BOOLEAN /\ worker' \in [Worker -> WorkerStates]
        /\ stops => stops'
      BY <1>3, <2>1 DEF ServiceInv, ServiceTypeOK
  <2>4. WorkersStay
      BY <1>3, <2>1 DEF WorkersStay
  <2>. QED  BY <1>1, <1>2, <1>3, <2>1, <2>2, <2>3, <2>4, DecidedMoves
<1>5. CASE ~TriesAgain(0, n)
  <2>. DEFINE out == IF exec[0][n].out = "transient" THEN "failed" ELSE exec[0][n].out
  <2>1. RunnerTakes(n, out)
      BY <1>5 DEF RunnerDecides
  <2>2. out \in {"none", "skipped"} \union (Answers \ {"transient"})
      BY <1>2 DEF ExecutionStates, Answers
  <2>3. /\ n \in rec.over => out # "succeeded"
        /\ exec[0][n].child # "active"
      BY <1>2 DEF NodeInv
  <2>. HIDE DEF out
  <2>. QED  BY <1>2, <1>3, <2>1, <2>2, <2>3, TakesMoves
<1>. QED  BY <1>4, <1>5

LEMMA PendingMoves ==
    ASSUME ServiceInv, NEW w \in Worker, NEW n \in Task, PendingDecides(w, n)
    PROVE  ExecutionMoves(w, n)
<1>1. /\ exec[w][n].pc = "decide" /\ NodeInv(w, n) /\ rec \in RecordStates
      /\ worker \in [Worker -> WorkerStates]
    BY StepFinds DEF PendingDecides, ServiceInv, ServiceTypeOK
<1>2. w # 0 /\ UNCHANGED <<gated, inputs, controller, canceller, alive>>
    BY DEF PendingDecides
<1>3. stops \in BOOLEAN
    BY DEF ServiceInv, ServiceTypeOK
<1>4. CASE exec[w][n].out \notin {"failed", "transient"}
  <2>1. /\ Go(w, n, "returned") /\ rec' = rec /\ stops' = stops
        /\ worker' = [worker EXCEPT ![w].remaining =
                        IF exec[w][n].out = "succeeded" THEN @ \ {n} ELSE @]
      BY <1>4 DEF PendingDecides, TriesAgain
  <2>2. /\ worker' \in [Worker -> WorkerStates]
        /\ \A v \in Worker : /\ worker'[v].pc = worker[v].pc
                             /\ worker'[v].aborted = worker[v].aborted
                             /\ worker'[v].report = worker[v].report
      BY <1>1, <2>1 DEF WorkerStates
  <2>3. WorkersStay
      BY <1>2, <2>2 DEF WorkersStay
  <2>. QED  BY <1>1, <1>2, <1>3, <2>1, <2>2, <2>3, DecidedMoves
<1>5. CASE exec[w][n].out \in {"failed", "transient"} /\ TriesAgain(w, n)
  <2>1. /\ rec' = rec /\ worker' = worker
        /\ \E refused \in Refusals(n) :
             IF refused THEN stops' = TRUE /\ Go(w, n, "stopRetry")
             ELSE Go(w, n, "delay") /\ stops' = stops
      BY <1>5 DEF PendingDecides
  <2>2. PICK p \in {"stopRetry", "delay"} :
          Go(w, n, p) /\ IF p = "stopRetry" THEN stops' = TRUE ELSE stops' = stops
      BY <2>1
  <2>3. stops' \in BOOLEAN /\ (stops => stops') /\ (p = "stopRetry" => stops')
      BY <1>3, <2>2
  <2>4. WorkersStay
      BY <1>2, <2>1 DEF WorkersStay
  <2>. QED  BY <1>1, <1>2, <1>5, <2>1, <2>2, <2>3, <2>4, DecidedMoves
<1>6. CASE exec[w][n].out \in {"failed", "transient"} /\ ~TriesAgain(w, n)
  <2>1. /\ rec' = [rec EXCEPT !.node[n] = "failed"]
        /\ Go(w, n, "returned") /\ worker' = worker /\ stops' = stops
      BY <1>6 DEF PendingDecides
  <2>2. rec' \in RecordStates /\ rec'.status = rec.status /\ rec'.over = rec.over
      BY <1>1, <2>1, NodeEffect
  <2>3. WorkersStay
      BY <1>2, <2>1 DEF WorkersStay
  <2>. QED  BY <1>1, <1>2, <1>3, <2>1, <2>2, <2>3, DecidedMoves
<1>. QED  BY <1>4, <1>5, <1>6

LEMMA DelayMoves ==
    ASSUME ServiceInv, NEW w \in Worker, NEW n \in Task, RetryDelay(w, n)
    PROVE  ExecutionMoves(w, n)
<1>1. /\ exec[w][n].pc = "delay" /\ NodeInv(w, n) /\ rec \in RecordStates
      /\ exec \in [Worker -> [Task -> ExecutionStates]] /\ exec[w][n] \in ExecutionStates
    BY StepFinds DEF RetryDelay
<1>2. /\ UNCHANGED <<gated, rec, inputs, stops, controller, canceller, alive>>
      /\ stops' \in BOOLEAN /\ rec' \in RecordStates
    BY <1>1 DEF RetryDelay, ServiceInv, ServiceTypeOK
<1>3. Before(w, n) /\ exec[w][n].child # "active"
    BY <1>1 DEF Before, NodeInv
<1>4. PICK e \in ExecutionStates : e = exec[w][n]
    BY <1>1
<1>5. CASE worker[w].aborted /\ w = 0
  <2>1. RunnerTakes(n, "cancelled")
      BY <1>5 DEF RetryDelay
  <2>2. "cancelled" \in Answers \ {"transient"}
      BY DEF Answers
  <2>. QED  BY <1>1, <1>2, <1>3, <1>5, <2>1, <2>2, TakesMoves
<1>6. ASSUME NEW r \in ExecutionStates, exec' = [exec EXCEPT ![w][n] = r], worker' = worker,
             r.pc \in {"returned", "acquire"}, r.child # "active",
             r.pc = "returned" => w # 0 /\ r.out = "cancelled"
      PROVE  ExecutionMoves(w, n)
  <2>1. /\ exec' \in [Worker -> [Task -> ExecutionStates]] /\ OthersStay(w, n)
        /\ exec'[w][n] = r
      BY <1>1, <1>6, OneMoves
  <2>2. NodeInv(w, n)'
      BY <1>1, <1>2, <1>6, <2>1 DEF NodeInv
  <2>3. BudgetStep(w, n)
      BY <1>2, RecStays
  <2>4. Blocked(w, n) => Blocked(w, n)'
      BY <1>1, <1>2 DEF Blocked
  <2>. QED  BY <1>1, <1>2, <1>6, <2>1, <2>2, <2>3, <2>4, StepLeaves
<1>7. CASE worker[w].aborted /\ w # 0
  <2>1. /\ exec' = [exec EXCEPT ![w][n].pc = "returned", ![w][n].out = "cancelled"]
        /\ worker' = worker
      BY <1>7 DEF RetryDelay
  <2>2. [e EXCEPT !.pc = "returned", !.out = "cancelled"] \in ExecutionStates
      BY DEF ExecutionStates, Answers
  <2>3. PICK r \in ExecutionStates : r = [e EXCEPT !.pc = "returned", !.out = "cancelled"]
      BY <2>2
  <2>4. exec' = [exec EXCEPT ![w][n] = r]
      BY <1>4, <2>1, <2>3
  <2>5. r.pc = "returned" /\ r.out = "cancelled" /\ r.child # "active"
      BY <1>3, <1>4, <2>3 DEF ExecutionStates
  <2>. QED  BY <1>6, <1>7, <2>1, <2>4, <2>5
<1>8. CASE ~worker[w].aborted
  <2>1. /\ exec' = [exec EXCEPT ![w][n].pc = "acquire", ![w][n].try = @ + 1,
                               ![w][n].child = "none"]
        /\ worker' = worker
      BY <1>8 DEF RetryDelay
  <2>2. PICK k \in Nat : k = e.try + 1
      BY DEF ExecutionStates
  <2>3. [e EXCEPT !.pc = "acquire", !.try = k, !.child = "none"] \in ExecutionStates
      BY DEF ExecutionStates
  <2>4. PICK r \in ExecutionStates :
          r = [e EXCEPT !.pc = "acquire", !.try = k, !.child = "none"]
      BY <2>3
  <2>5. exec' = [exec EXCEPT ![w][n] = r]
      BY <1>4, <2>1, <2>2, <2>4
  <2>6. r.pc = "acquire" /\ r.child # "active"
      BY <2>4 DEF ExecutionStates
  <2>. QED  BY <1>6, <2>1, <2>5, <2>6
<1>. QED  BY <1>5, <1>7, <1>8

LEMMA ExecutesMoves ==
    ASSUME ServiceInv, NEW w \in Worker, NEW n \in Task, Executes(w, n)
    PROVE  ExecutionMoves(w, n)
<1>1. w = 0 /\ RunnerDecides(n) => ExecutionMoves(w, n)
    BY RunnerMoves
<1>. QED  BY <1>1, AcquireMoves, BeginMoves, SpendMoves, QueueMoves, EnqueueMoves, NoteMoves,
             PollMoves, ExceedsMoves, AccountMoves, SuccessMoves, FailureMoves, StopMoves,
             CatchMoves, PendingMoves, DelayMoves DEF Executes

(***************************************************************************)
(* The steps of run(), of runPendingNodes(), and of the calls.             *)
(***************************************************************************)

\* FinalUnlessStaleCall, of one step.
KeepsFinal ==
    /\ rec.status \in TerminalStates
    /\ canceller \notin {"checked", "told"}
    /\ \A w \in Worker : worker[w].pc \notin {"resolving", "stopping"}
    => rec'.status = rec.status

LEMMA Zero == 0 \in Worker
BY ServiceAssumption DEF Worker

\* While one worker acts the others do not, and execute nothing.
LEMMA Alone ==
    ASSUME ServiceInv, NEW w \in Worker, Acting(w)
    PROVE  /\ \A v \in Worker : v # w => ~Acting(v) /\ ~AtWork(v)
           /\ \A v \in Worker, n \in Task :
                 v # w \/ worker[w].pc # "level" => exec[v][n].pc = "idle"
BY DEF ServiceInv, WorkersInv, NodesInv, NodeInv, Acting, AtWork

LEMMA NodesStay ==
    ASSUME ServiceInv, exec' = exec, rec'.over = rec.over,
           \A v \in Worker : /\ worker[v].pc = "level" => worker'[v].pc = "level"
                             /\ worker'[v].aborted = worker[v].aborted,
           worker[0].pc = "level" => (stops => stops')
    PROVE  NodesInv'
<1>1. ASSUME NEW v \in Worker, NEW m \in Task
      PROVE  NodeInv(v, m)'
  <2>1. NodeInv(v, m)
      BY DEF ServiceInv, NodesInv
  <2>. QED  BY <2>1 DEF NodeInv
<1>. QED  BY <1>1 DEF NodesInv

OthersWait(w) == \A v \in Worker : v # w => worker'[v] = worker[v]

\* What an acting worker may do to the workers, and to the record.
LEMMA ActorWorkers ==
    ASSUME ServiceInv, NEW w \in Worker, Acting(w), OthersWait(w),
           worker'[w].pc \notin {"none", "resolving", "stopping"},
           w = 0 /\ worker'[w].pc = "finish" => worker'[w].report # "none",
           AtWork(w)' => /\ controller' = w
                         /\ rec'.status \in {"queued", "running", "cancelling", "failed"},
           canceller' = canceller, alive' = alive, inputs => inputs',
           rec'.status = "waiting_for_gate" /\ canceller = "idle" => inputs'
    PROVE  WorkersInv'
<1>1. \A v \in Worker : v # w => ~Acting(v)' /\ ~AtWork(v)'
    BY Alone DEF OthersWait, Acting, AtWork
<1>2. \A u, v \in Worker : Acting(u)' /\ Acting(v)' => u = v
    BY <1>1
<1>3. \A v \in Worker : /\ Acting(0)' /\ v # 0 => worker'[v].pc = "none"
                        /\ v = 0 => worker'[v].pc \notin {"none", "resolving", "stopping"}
                        /\ v = 0 /\ worker'[v].pc = "finish" => worker'[v].report # "none"
                        /\ AtWork(v)' => controller' = v
    BY <1>1, Zero DEF ServiceInv, WorkersInv, OthersWait
<1>4. \A v \in Worker :
         AtWork(v)' => rec'.status \in {"queued", "running", "cancelling", "failed"}
    BY <1>1
<1>5. ASSUME canceller' = "idle", alive', AtWork(0)' \/ rec'.status = "waiting_for_gate"
      PROVE  inputs'
  <2>1. CASE rec'.status = "waiting_for_gate"
      BY <1>5, <2>1
  <2>2. CASE AtWork(0)'
    <3>1. w = 0 /\ AtWork(0)
        BY <1>1, <2>2, Zero DEF ServiceInv, WorkersInv, Acting
    <3>2. canceller = "idle"
        BY <1>5
    <3>3. alive
        BY <1>5, Zenon
    <3>. QED  BY <3>1, <3>2, <3>3 DEF ServiceInv, WorkersInv
  <2>. QED  BY <1>5, <2>1, <2>2
<1>. QED  BY <1>2, <1>3, <1>4, <1>5 DEF WorkersInv

LEMMA ActorRec ==
    ASSUME ServiceInv, NEW w \in Worker, Acting(w), OthersWait(w),
           rec'.over = rec.over,
           rec.over # {} => rec'.status \in {"failed", "cancelling", "cancelled", "orphaned"},
           w = 0 /\ AtWork(w)' /\ rec'.status = "failed" => stops' \/ rec.over # {},
           worker'[w].pc # "resolving",
           worker'[w].pc = "start" \/ (w # 0 /\ worker'[w].pc \in {"loop", "finish", "level"})
              => rec.over = {} /\ rec'.status # "failed"
    PROVE  RecInv'
<1>1. \A v \in Worker : v # w => ~Acting(v)' /\ ~AtWork(v)'
    BY Alone DEF OthersWait, Acting, AtWork
<1>2. AtWork(0)' => w = 0
    BY <1>1, Zero
<1>3. \A v \in Worker :
        v # w => worker'[v].pc \notin {"resolving", "start", "loop", "finish", "level"}
    BY <1>1 DEF Acting, AtWork
<1>. QED  BY <1>2, <1>3 DEF RecInv

\* A worker goes from one place to another.
LEMMA PcEffect ==
    ASSUME ServiceInv, NEW w \in Worker,
           NEW p \in {"none", "resolving", "stopping", "start", "loop", "level", "finish",
                      "failing", "settling", "ended"},
           worker' = [worker EXCEPT ![w].pc = p]
    PROVE  /\ worker' \in [Worker -> WorkerStates] /\ OthersWait(w)
           /\ worker'[w].pc = p
           /\ worker'[w].report = worker[w].report
           /\ \A v \in Worker : worker'[v].aborted = worker[v].aborted
BY DEF ServiceInv, ServiceTypeOK, WorkerStates, OthersWait

LEMMA ChildEndsStep ==
    ASSUME ServiceInv, NEW w \in Worker, NEW n \in Task, ChildEnds(w, n)
    PROVE  ServiceInv' /\ KeepsFinal
<1>1. PICK s \in Ended \union {"none"} :
        /\ exec' = [exec EXCEPT ![w][n].child = s]
        /\ s = "none" <=> exec[w][n].pc \notin {"note", "noted", "poll", "lapsed"}
    BY DEF ChildEnds, Ended
<1>2. /\ UNCHANGED <<rec, gated, inputs, stops, controller, worker, canceller, alive>>
      /\ exec[w][n].child \in {"active", "told"}
    BY DEF ChildEnds, ExecOnly, RecOnly, Live
<1>3. exec \in [Worker -> [Task -> ExecutionStates]]
    BY DEF ServiceInv, ServiceTypeOK
<1>4. PICK e \in ExecutionStates : e = exec[w][n]
    BY <1>3
<1>5. [e EXCEPT !.child = s] \in ExecutionStates
    BY DEF ExecutionStates
<1>6. PICK r \in ExecutionStates : r = [e EXCEPT !.child = s]
    BY <1>5
<1>7. exec' = [exec EXCEPT ![w][n] = r]
    BY <1>1, <1>4, <1>6
<1>8. /\ exec' \in [Worker -> [Task -> ExecutionStates]]
      /\ exec'[w][n].pc = exec[w][n].pc /\ exec'[w][n].out = exec[w][n].out
      /\ exec'[w][n].child = s
      /\ \A v \in Worker, m \in Task : v # w \/ m # n => exec'[v][m] = exec[v][m]
    BY <1>3, <1>4, <1>6, <1>7 DEF ExecutionStates
<1>9. ServiceTypeOK'
    BY <1>2, <1>8 DEF ServiceInv, ServiceTypeOK
<1>10. WorkersInv'
    BY <1>2 DEF ServiceInv, WorkersInv, Acting, AtWork
<1>11. ASSUME NEW v \in Worker, NEW m \in Task
       PROVE  NodeInv(v, m)'
  <2>1. NodeInv(v, m)
      BY DEF ServiceInv, NodesInv
  <2>2. CASE v # w \/ m # n
    <3>1. exec'[v][m] = exec[v][m]
        BY <1>8, <2>2
    <3>. QED  BY <1>2, <2>1, <3>1 DEF NodeInv
  <2>3. CASE v = w /\ m = n
      BY <1>1, <1>2, <1>8, <2>1, <2>3 DEF NodeInv, Ended
  <2>. QED  BY <2>2, <2>3
<1>12. \A v \in Worker, m \in Task :
          exec'[v][m].pc = exec[v][m].pc /\ exec'[v][m].out = exec[v][m].out
    BY <1>8
<1>13. rec.over \subseteq Task
    BY DEF ServiceInv, ServiceTypeOK, RecordStates
<1>14. RecInv'
    BY <1>2, <1>12, <1>13 DEF ServiceInv, RecInv, AtWork, Blocked
<1>. QED  BY <1>2, <1>9, <1>10, <1>11, <1>14 DEF ServiceInv, NodesInv, KeepsFinal

LEMMA RunStartsStep ==
    ASSUME ServiceInv, RunStarts
    PROVE  ServiceInv' /\ KeepsFinal
<1>1. /\ worker[0].pc = "start" /\ rec' = [rec EXCEPT !.status = "running"]
      /\ worker' = [worker EXCEPT ![0].pc = "loop"]
      /\ UNCHANGED <<gated, inputs, stops, controller, exec, canceller, alive>>
    BY DEF RunStarts, Is
<1>2. /\ worker' \in [Worker -> WorkerStates] /\ OthersWait(0) /\ worker'[0].pc = "loop"
      /\ \A v \in Worker : worker'[v].aborted = worker[v].aborted
    BY <1>1, Zero, PcEffect
<1>3. rec' \in RecordStates /\ rec'.status = "running" /\ rec'.over = rec.over
    BY <1>1 DEF ServiceInv, ServiceTypeOK, RecordStates
<1>4. /\ Acting(0) /\ AtWork(0) /\ controller = 0 /\ rec.over = {}
      /\ rec.status \in {"queued", "running", "cancelling", "failed"} /\ rec.status # "failed"
    BY <1>1, Zero DEF Acting, AtWork, ServiceInv, WorkersInv, RecInv
<1>5. ServiceTypeOK'
    BY <1>1, <1>2, <1>3 DEF ServiceInv, ServiceTypeOK
<1>6. WorkersInv'
    BY <1>1, <1>2, <1>3, <1>4, Zero, ActorWorkers
<1>7. NodesInv'
  <2>1. \A v \in Worker : worker[v].pc = "level" => worker'[v].pc = "level"
      BY <1>1, <1>2 DEF OthersWait
  <2>. QED  BY <1>1, <1>2, <1>3, <2>1, NodesStay
<1>8. RecInv'
    BY <1>2, <1>3, <1>4, Zero, ActorRec
<1>. QED  BY <1>4, <1>5, <1>6, <1>7, <1>8 DEF ServiceInv, KeepsFinal, TerminalStates

LEMMA PendingReadsStep ==
    ASSUME ServiceInv, NEW w \in Worker, PendingReads(w)
    PROVE  ServiceInv' /\ KeepsFinal
<1>1. PICK S \in SUBSET Task :
        worker' = [worker EXCEPT ![w].pc = "loop", ![w].remaining = S]
    BY DEF PendingReads
<1>2. /\ w # 0 /\ worker[w].pc = "start"
      /\ UNCHANGED <<gated, rec, inputs, stops, controller, exec, canceller, alive>>
    BY DEF PendingReads, Is
<1>3. /\ worker' \in [Worker -> WorkerStates] /\ OthersWait(w) /\ worker'[w].pc = "loop"
      /\ \A v \in Worker : worker'[v].aborted = worker[v].aborted
    BY <1>1 DEF ServiceInv, ServiceTypeOK, WorkerStates, OthersWait
<1>4. /\ Acting(w) /\ AtWork(w) /\ controller = w /\ rec.over = {}
      /\ rec.status \in {"queued", "running", "cancelling", "failed"} /\ rec.status # "failed"
    BY <1>2 DEF Acting, AtWork, ServiceInv, WorkersInv, RecInv
<1>5. ServiceTypeOK'
    BY <1>2, <1>3 DEF ServiceInv, ServiceTypeOK
<1>6. WorkersInv'
    BY <1>2, <1>3, <1>4, ActorWorkers
<1>7. NodesInv'
  <2>1. \A v \in Worker : worker[v].pc = "level" => worker'[v].pc = "level"
      BY <1>2, <1>3 DEF OthersWait
  <2>. QED  BY <1>2, <1>3, <2>1, NodesStay
<1>8. RecInv'
    BY <1>2, <1>3, <1>4, ActorRec
<1>. QED  BY <1>2, <1>5, <1>6, <1>7, <1>8 DEF ServiceInv, KeepsFinal

LEMMA LevelStartsStep ==
    ASSUME ServiceInv, NEW w \in Worker, LevelStarts(w)
    PROVE  ServiceInv' /\ KeepsFinal
<1>1. PICK S \in SUBSET Task :
        exec' = [exec EXCEPT ![w] = [n \in Task |->
                  IF n \in S THEN [@[n] EXCEPT !.pc = "acquire", !.try = 1] ELSE @[n]]]
  <2>1. CanStart(w) \in SUBSET Task
      BY DEF CanStart, ServiceInv, ServiceTypeOK, WorkerStates
  <2>2. exec' = [exec EXCEPT ![w] = [n \in Task |->
                  IF n \in CanStart(w) THEN [@[n] EXCEPT !.pc = "acquire", !.try = 1]
                  ELSE @[n]]]
      BY DEF LevelStarts
  <2>. QED  BY <2>1, <2>2
<1>2. /\ worker[w].pc = "loop" /\ worker' = [worker EXCEPT ![w].pc = "level"]
      /\ UNCHANGED <<gated, rec, inputs, stops, controller, canceller, alive>>
    BY DEF LevelStarts, Is
<1>3. /\ worker' \in [Worker -> WorkerStates] /\ OthersWait(w) /\ worker'[w].pc = "level"
      /\ \A v \in Worker : worker'[v].aborted = worker[v].aborted
    BY <1>2, PcEffect
<1>4. /\ Acting(w) /\ AtWork(w) /\ controller = w
      /\ w # 0 => rec.over = {} /\ rec.status # "failed"
      /\ rec.status \in {"queued", "running", "cancelling", "failed"}
      /\ w = 0 /\ rec.status = "failed" => stops \/ rec.over # {}
      /\ rec.over # {} => rec.status \in {"failed", "cancelling", "cancelled", "orphaned"}
    BY <1>2 DEF Acting, AtWork, ServiceInv, WorkersInv, RecInv
<1>5. exec \in [Worker -> [Task -> ExecutionStates]]
    BY DEF ServiceInv, ServiceTypeOK
<1>6. ASSUME NEW n \in Task
      PROVE  /\ exec'[w][n] \in ExecutionStates
             /\ exec'[w][n].pc \in {exec[w][n].pc, "acquire"}
             /\ exec'[w][n].out = exec[w][n].out /\ exec'[w][n].child = exec[w][n].child
  <2>1. PICK e \in ExecutionStates : e = exec[w][n]
      BY <1>5
  <2>2. PICK k \in Nat : k = 1
      OBVIOUS
  <2>3. [e EXCEPT !.pc = "acquire", !.try = k] \in ExecutionStates
      BY DEF ExecutionStates
  <2>4. PICK r \in ExecutionStates : r = [e EXCEPT !.pc = "acquire", !.try = k]
      BY <2>3
  <2>5. exec'[w][n] = IF n \in S THEN r ELSE e
      BY <1>1, <1>5, <2>1, <2>2, <2>4
  <2>6. r.pc = "acquire" /\ r.out = e.out /\ r.child = e.child
      BY <2>4 DEF ExecutionStates
  <2>. QED  BY <2>1, <2>5, <2>6
<1>7. \A v \in Worker : v # w => exec'[v] = exec[v]
    BY <1>1, <1>5
<1>8. exec' \in [Worker -> [Task -> ExecutionStates]]
    BY <1>1, <1>5, <1>6, <1>7
<1>9. ServiceTypeOK'
    BY <1>2, <1>3, <1>8 DEF ServiceInv, ServiceTypeOK
<1>10. WorkersInv'
    BY <1>2, <1>3, <1>4, ActorWorkers
<1>11. ASSUME NEW v \in Worker, NEW m \in Task
       PROVE  NodeInv(v, m)'
  <2>1. NodeInv(v, m) /\ exec[v][m].pc = "idle"
      BY <1>2, <1>4, Alone DEF ServiceInv, NodesInv
  <2>2. CASE v = w
      BY <1>2, <1>3, <1>6, <2>1, <2>2 DEF NodeInv
  <2>3. CASE v # w
    <3>1. exec'[v][m] = exec[v][m]
        BY <1>7, <2>3
    <3>. QED  BY <1>2, <2>1, <3>1 DEF NodeInv
  <2>. QED  BY <2>2, <2>3
<1>12. RecInv'
    BY <1>2, <1>3, <1>4, ActorRec
<1>. QED  BY <1>2, <1>9, <1>10, <1>11, <1>12 DEF ServiceInv, NodesInv, KeepsFinal

\* A level of runPendingNodes() that came upon no budget has none behind it.
LEMMA LevelEndsStep ==
    ASSUME ServiceInv, NEW w \in Worker, LevelEnds(w)
    PROVE  ServiceInv' /\ KeepsFinal
<1>1. /\ worker[w].pc = "level"
      /\ \A n \in Task : exec[w][n].pc \in {"idle", "returned"}
      /\ exec' = [exec EXCEPT ![w] = [n \in Task |-> [@[n] EXCEPT !.pc = "idle", !.try = 0]]]
      /\ UNCHANGED <<gated, rec, inputs, stops, controller, canceller, alive>>
    BY DEF LevelEnds, Is
<1>2. PICK p \in {"failing", "loop"} :
        /\ worker' = [worker EXCEPT ![w].pc = p]
        /\ p = "loop" /\ w # 0 =>
             \A n \in Task : exec[w][n].pc = "returned" => exec[w][n].out = "succeeded"
    BY DEF LevelEnds
<1>3. /\ worker' \in [Worker -> WorkerStates] /\ OthersWait(w) /\ worker'[w].pc = p
      /\ \A v \in Worker : worker'[v].aborted = worker[v].aborted
    BY <1>2, PcEffect
<1>4. /\ Acting(w) /\ AtWork(w) /\ controller = w
      /\ rec.status \in {"queued", "running", "cancelling", "failed"}
      /\ w = 0 /\ rec.status = "failed" => stops \/ rec.over # {}
      /\ rec.over # {} => rec.status \in {"failed", "cancelling", "cancelled", "orphaned"}
    BY <1>1 DEF Acting, AtWork, ServiceInv, WorkersInv, RecInv
<1>5. w # 0 /\ p = "loop" => rec.over = {} /\ rec.status # "failed"
  <2>1. SUFFICES ASSUME w # 0, p = "loop"
                 PROVE  rec.over = {} /\ rec.status # "failed"
      OBVIOUS
  <2>2. rec.over \subseteq Task
      BY DEF ServiceInv, ServiceTypeOK, RecordStates
  <2>3. ASSUME NEW n \in rec.over
        PROVE  exec[w][n].pc = "returned" /\ exec[w][n].out # "succeeded"
    <3>1. n \in Task /\ NodeInv(w, n)
        BY <2>2 DEF ServiceInv, NodesInv
    <3>2. exec[w][n].pc # "idle"
        BY <1>1, <2>1 DEF ServiceInv, RecInv
    <3>. QED  BY <1>1, <3>1, <3>2 DEF NodeInv
  <2>4. rec.over = {}
      BY <1>2, <2>1, <2>2, <2>3
  <2>5. ~ \E n \in Task : Blocked(w, n)
      BY <1>1, <1>2, <2>1, <2>4 DEF Blocked
  <2>. QED  BY <1>1, <2>1, <2>4, <2>5 DEF ServiceInv, RecInv
<1>6. exec \in [Worker -> [Task -> ExecutionStates]]
    BY DEF ServiceInv, ServiceTypeOK
<1>7. ASSUME NEW n \in Task
      PROVE  /\ exec'[w][n] \in ExecutionStates
             /\ exec'[w][n].pc = "idle"
             /\ exec'[w][n].out = exec[w][n].out /\ exec'[w][n].child = exec[w][n].child
  <2>1. PICK e \in ExecutionStates : e = exec[w][n]
      BY <1>6
  <2>2. PICK k \in Nat : k = 0
      OBVIOUS
  <2>3. [e EXCEPT !.pc = "idle", !.try = k] \in ExecutionStates
      BY DEF ExecutionStates
  <2>4. PICK r \in ExecutionStates : r = [e EXCEPT !.pc = "idle", !.try = k]
      BY <2>3
  <2>5. exec'[w][n] = r
      BY <1>1, <1>6, <2>1, <2>2, <2>4
  <2>6. r.pc = "idle" /\ r.out = e.out /\ r.child = e.child
      BY <2>4 DEF ExecutionStates
  <2>. QED  BY <2>1, <2>5, <2>6
<1>8. \A v \in Worker : v # w => exec'[v] = exec[v]
    BY <1>1, <1>6
<1>9. exec' \in [Worker -> [Task -> ExecutionStates]]
    BY <1>1, <1>6, <1>7, <1>8
<1>10. ServiceTypeOK'
    BY <1>1, <1>3, <1>9 DEF ServiceInv, ServiceTypeOK
<1>11. WorkersInv'
    BY <1>1, <1>3, <1>4, ActorWorkers
<1>12. ASSUME NEW v \in Worker, NEW m \in Task
       PROVE  NodeInv(v, m)'
  <2>1. NodeInv(v, m)
      BY DEF ServiceInv, NodesInv
  <2>2. CASE v = w
      BY <1>1, <1>7, <2>1, <2>2 DEF NodeInv
  <2>3. CASE v # w
    <3>1. exec'[v][m] = exec[v][m] /\ exec[v][m].pc = "idle"
        BY <1>4, <1>8, <2>3, Alone
    <3>. QED  BY <1>1, <2>1, <3>1 DEF NodeInv
  <2>. QED  BY <2>2, <2>3
<1>13. RecInv'
    BY <1>1, <1>3, <1>4, <1>5, ActorRec
<1>. QED  BY <1>1, <1>10, <1>11, <1>12, <1>13 DEF ServiceInv, NodesInv, KeepsFinal

\* A step of a worker that executes nothing, and leaves what its nodes are about.
LEMMA QuietNodes ==
    ASSUME ServiceInv, NEW w \in Worker, worker[w].pc # "level", OthersWait(w),
           worker'[w].aborted = worker[w].aborted, exec' = exec, rec'.over = rec.over,
           worker[0].pc = "level" => (stops => stops')
    PROVE  NodesInv'
<1>1. \A v \in Worker : /\ worker[v].pc = "level" => worker'[v].pc = "level"
                        /\ worker'[v].aborted = worker[v].aborted
    BY DEF OthersWait
<1>. QED  BY <1>1, NodesStay

LEMMA RunnerReportsStep ==
    ASSUME ServiceInv, RunnerReports
    PROVE  ServiceInv' /\ KeepsFinal
<1>1. PICK s \in {"waiting_for_gate"} \union TerminalStates :
        worker' = [worker EXCEPT ![0].pc = "finish", ![0].report = s]
    BY DEF RunnerReports, TerminalStates
<1>2. /\ worker[0].pc = "loop"
      /\ UNCHANGED <<gated, rec, inputs, stops, controller, exec, canceller, alive>>
    BY DEF RunnerReports, Is
<1>3. /\ worker' \in [Worker -> WorkerStates] /\ OthersWait(0) /\ worker'[0].pc = "finish"
      /\ worker'[0].report # "none" /\ worker'[0].aborted = worker[0].aborted
    BY <1>1, Zero DEF ServiceInv, ServiceTypeOK, WorkerStates, OthersWait, TerminalStates
<1>4. /\ Acting(0) /\ AtWork(0) /\ controller = 0
      /\ rec.status \in {"queued", "running", "cancelling", "failed"}
      /\ rec.status = "failed" => stops \/ rec.over # {}
      /\ rec.over # {} => rec.status \in {"failed", "cancelling", "cancelled", "orphaned"}
    BY <1>2, Zero DEF Acting, AtWork, ServiceInv, WorkersInv, RecInv
<1>5. ServiceTypeOK'
    BY <1>2, <1>3 DEF ServiceInv, ServiceTypeOK
<1>6. WorkersInv'
    BY <1>2, <1>3, <1>4, Zero, ActorWorkers
<1>7. NodesInv'
    BY <1>2, <1>3, Zero, QuietNodes
<1>8. RecInv'
    BY <1>2, <1>3, <1>4, Zero, ActorRec
<1>. QED  BY <1>2, <1>5, <1>6, <1>7, <1>8 DEF ServiceInv, KeepsFinal

LEMMA LoopEndsStep ==
    ASSUME ServiceInv, NEW w \in Worker, LoopEnds(w)
    PROVE  ServiceInv' /\ KeepsFinal
<1>1. PICK p \in {"finish", "failing"} : worker' = [worker EXCEPT ![w].pc = p]
    BY DEF LoopEnds
<1>2. /\ w # 0 /\ worker[w].pc = "loop"
      /\ UNCHANGED <<gated, rec, inputs, stops, controller, exec, canceller, alive>>
    BY DEF LoopEnds, Is
<1>3. /\ worker' \in [Worker -> WorkerStates] /\ OthersWait(w) /\ worker'[w].pc = p
      /\ worker'[w].aborted = worker[w].aborted
    BY <1>1, PcEffect
<1>4. /\ Acting(w) /\ AtWork(w) /\ controller = w
      /\ rec.over = {} /\ rec.status # "failed"
      /\ rec.status \in {"queued", "running", "cancelling", "failed"}
    BY <1>2 DEF Acting, AtWork, ServiceInv, WorkersInv, RecInv
<1>5. ServiceTypeOK'
    BY <1>2, <1>3 DEF ServiceInv, ServiceTypeOK
<1>6. WorkersInv'
    BY <1>2, <1>3, <1>4, ActorWorkers
<1>7. NodesInv'
    BY <1>2, <1>3, QuietNodes
<1>8. RecInv'
    BY <1>2, <1>3, <1>4, ActorRec
<1>. QED  BY <1>2, <1>5, <1>6, <1>7, <1>8 DEF ServiceInv, KeepsFinal

LEMMA LeavesEffect ==
    ASSUME ServiceInv, NEW w \in Worker, Leaves(w)
    PROVE  /\ worker' \in [Worker -> WorkerStates] /\ OthersWait(w)
           /\ worker'[w].pc \in {"settling", "ended"}
           /\ worker'[w].aborted = worker[w].aborted
           /\ controller' \in Worker \union {None}
<1>1. PICK p \in {"settling", "ended"} : worker' = [worker EXCEPT ![w].pc = p]
    BY DEF Leaves
<1>2. controller' \in Worker \union {None}
    BY DEF Leaves, ServiceInv, ServiceTypeOK
<1>. QED  BY <1>1, <1>2, PcEffect

\* The end of a worker, by what it makes of the record.
LEMMA WorkerLeaves ==
    ASSUME ServiceInv, NEW w \in Worker, AtWork(w), worker[w].pc # "level", Leaves(w),
           rec' \in RecordStates, rec'.over = rec.over,
           rec.over # {} => rec'.status \in {"failed", "cancelling", "cancelled", "orphaned"},
           rec'.status = "waiting_for_gate" /\ canceller = "idle" => inputs,
           rec.status = "failed" => rec'.status = "failed",
           stops' \in BOOLEAN, stops' # stops => w = 0,
           UNCHANGED <<gated, inputs, exec, canceller, alive>>
    PROVE  ServiceInv' /\ KeepsFinal
<1>1. /\ worker' \in [Worker -> WorkerStates] /\ OthersWait(w)
      /\ worker'[w].pc \in {"settling", "ended"}
      /\ worker'[w].aborted = worker[w].aborted
      /\ controller' \in Worker \union {None}
    BY LeavesEffect
<1>2. Acting(w) /\ rec.status \in {"queued", "running", "cancelling", "failed"}
    BY DEF Acting, ServiceInv, WorkersInv
<1>3. ServiceTypeOK'
    BY <1>1 DEF ServiceInv, ServiceTypeOK
<1>4. ~AtWork(w)'
    BY <1>1 DEF AtWork
<1>5. WorkersInv'
    BY <1>1, <1>2, <1>4, ActorWorkers
<1>6. worker[0].pc = "level" => stops' = stops
    OBVIOUS
<1>7. NodesInv'
    BY <1>1, <1>6, QuietNodes
<1>8. RecInv'
    BY <1>1, <1>2, <1>4, ActorRec
<1>9. KeepsFinal
    BY <1>2 DEF KeepsFinal, TerminalStates
<1>. QED  BY <1>3, <1>5, <1>7, <1>8, <1>9 DEF ServiceInv

LEMMA FinishRunStep ==
    ASSUME ServiceInv, FinishRun
    PROVE  ServiceInv' /\ KeepsFinal
<1>1. /\ worker[0].pc = "finish" /\ alive /\ stops' = FALSE /\ Leaves(0)
      /\ UNCHANGED <<gated, inputs, exec, canceller, alive>>
      /\ rec' = IF stops \/ rec.over # {} THEN [rec EXCEPT !.status = "failed"]
                ELSE [rec EXCEPT !.status = worker[0].report,
                                 !.node = [n \in Task |-> Reported(n)]]
    BY DEF FinishRun, Is
<1>2. /\ AtWork(0) /\ Acting(0) /\ rec \in RecordStates
      /\ rec.status = "failed" => stops \/ rec.over # {}
      /\ canceller = "idle" => inputs
    BY <1>1, Zero DEF AtWork, Acting, ServiceInv, WorkersInv, RecInv, ServiceTypeOK
<1>3. CASE stops \/ rec.over # {}
  <2>1. rec' \in RecordStates /\ rec'.status = "failed" /\ rec'.over = rec.over
      BY <1>1, <1>2, <1>3 DEF RecordStates, TerminalStates
  <2>. QED  BY <1>1, <1>2, <2>1, Zero, WorkerLeaves
<1>4. CASE ~(stops \/ rec.over # {})
  <2>1. PICK s \in {"waiting_for_gate"} \union TerminalStates : s = worker[0].report
      BY <1>1, Zero DEF ServiceInv, WorkersInv, ServiceTypeOK, WorkerStates
  <2>2. \A n \in Task : Reported(n) \in {"pending", "skipped", "succeeded", "failed",
                                         "cancelled", "policy_blocked"}
    <3>1. TAKE n \in Task
    <3>2. exec[0][n].pc = "idle" /\ NodeInv(0, n)
        BY <1>1, <1>2, Zero, Alone DEF ServiceInv, NodesInv
    <3>3. exec[0][n] \in ExecutionStates /\ exec[0][n].out # "transient"
        BY <3>2, Zero DEF NodeInv, ServiceInv, ServiceTypeOK
    <3>. QED  BY <3>3 DEF Reported, ExecutionStates, Answers
  <2>3. PICK f \in [Task -> {"pending", "queued", "running", "retrying", "skipped", "succeeded",
                             "failed", "cancelled", "policy_blocked", "orphaned"}] :
          f = [n \in Task |-> Reported(n)]
      BY <2>2
  <2>4. rec' = [rec EXCEPT !.status = s, !.node = f]
      BY <1>1, <1>4, <2>1, <2>3
  <2>5. rec' \in RecordStates /\ rec'.over = rec.over
      BY <1>2, <2>4 DEF RecordStates
  <2>. QED  BY <1>1, <1>2, <1>4, <2>5, Zero, WorkerLeaves
<1>. QED  BY <1>3, <1>4

LEMMA FinishPendingStep ==
    ASSUME ServiceInv, NEW w \in Worker, FinishPending(w)
    PROVE  ServiceInv' /\ KeepsFinal
<1>1. /\ w # 0 /\ worker[w].pc = "finish" /\ rec' = [rec EXCEPT !.status = "succeeded"]
      /\ Leaves(w) /\ UNCHANGED <<gated, inputs, stops, exec, canceller, alive>>
    BY DEF FinishPending, Is
<1>2. AtWork(w) /\ rec.over = {} /\ rec.status # "failed" /\ stops \in BOOLEAN
    BY <1>1 DEF AtWork, ServiceInv, RecInv, ServiceTypeOK
<1>3. rec' \in RecordStates /\ rec'.status = "succeeded" /\ rec'.over = rec.over
    BY <1>1 DEF ServiceInv, ServiceTypeOK, RecordStates, TerminalStates
<1>. QED  BY <1>1, <1>2, <1>3, WorkerLeaves

LEMMA FailClosedStep ==
    ASSUME ServiceInv, NEW w \in Worker, FailClosed(w)
    PROVE  ServiceInv' /\ KeepsFinal
<1>1. /\ worker[w].pc = "failing" /\ Leaves(w)
      /\ UNCHANGED <<gated, inputs, stops, exec, canceller, alive>>
      /\ rec' = [rec EXCEPT !.status = IF @ \in TerminalStates THEN @ ELSE "failed"]
    BY DEF FailClosed, Is
<1>2. AtWork(w) /\ rec.status \in {"queued", "running", "cancelling", "failed"}
      /\ stops \in BOOLEAN
    BY <1>1 DEF AtWork, ServiceInv, WorkersInv, ServiceTypeOK
<1>3. rec' \in RecordStates /\ rec'.status = "failed" /\ rec'.over = rec.over
    BY <1>1, <1>2 DEF ServiceInv, ServiceTypeOK, RecordStates, TerminalStates
<1>. QED  BY <1>1, <1>2, <1>3, WorkerLeaves

LEMMA SettleStep ==
    ASSUME ServiceInv, NEW w \in Worker, Settle(w)
    PROVE  ServiceInv' /\ KeepsFinal
<1>1. /\ worker[w].pc = "settling" /\ worker' = [worker EXCEPT ![w].pc = "ended"]
      /\ inputs' = (inputs /\ rec.status = "waiting_for_gate")
      /\ stops' = (stops /\ rec.status \notin TerminalStates)
      /\ UNCHANGED <<gated, rec, controller, exec, canceller, alive>>
    BY DEF Settle, Is
<1>2. /\ worker' \in [Worker -> WorkerStates] /\ OthersWait(w) /\ worker'[w].pc = "ended"
      /\ worker'[w].aborted = worker[w].aborted
    BY <1>1, PcEffect
<1>3. ~AtWork(0) /\ ~Acting(0)
    BY <1>1, Zero DEF ServiceInv, WorkersInv, AtWork, Acting
<1>4. \A v \in Worker : worker'[v].pc = worker[v].pc \/ v = w
    BY <1>2 DEF OthersWait
<1>5. ServiceTypeOK'
    BY <1>1, <1>2 DEF ServiceInv, ServiceTypeOK
<1>6. \A v \in Worker : /\ Acting(v)' => Acting(v) /\ v # w
                        /\ AtWork(v)' => AtWork(v) /\ v # w
    BY <1>2, <1>4 DEF Acting, AtWork
<1>7. WorkersInv'
  <2>1. \A u, v \in Worker : Acting(u)' /\ Acting(v)' => u = v
      BY <1>6 DEF ServiceInv, WorkersInv
  <2>2. \A v \in Worker : /\ Acting(0)' /\ v # 0 => worker'[v].pc = "none"
                          /\ v = 0 => worker'[v].pc \notin {"none", "resolving", "stopping"}
                          /\ v = 0 /\ worker'[v].pc = "finish" => worker'[v].report # "none"
                          /\ AtWork(v)' => controller' = v
      BY <1>1, <1>2, <1>3, <1>6, Zero DEF ServiceInv, WorkersInv, OthersWait
  <2>3. \A v \in Worker :
           AtWork(v)' => rec'.status \in {"queued", "running", "cancelling", "failed"}
      BY <1>1, <1>6 DEF ServiceInv, WorkersInv
  <2>4. canceller' = "idle" /\ alive' /\ (AtWork(0)' \/ rec'.status = "waiting_for_gate")
           => inputs'
    <3>1. ~AtWork(0)'
        BY <1>3, <1>6, Zero
    <3>2. canceller = "idle" /\ alive /\ rec.status = "waiting_for_gate" => inputs
        BY DEF ServiceInv, WorkersInv
    <3>. QED  BY <1>1, <3>1, <3>2, Zenon
  <2>. QED  BY <2>1, <2>2, <2>3, <2>4 DEF WorkersInv
<1>8. NodesInv'
  <2>1. worker[0].pc # "level"
      BY <1>3 DEF AtWork
  <2>. QED  BY <1>1, <1>2, <2>1, QuietNodes
<1>9. RecInv'
  <2>1. ~AtWork(0)'
      BY <1>3, <1>6, Zero
  <2>. QED  BY <1>1, <1>2, <1>4, <2>1 DEF ServiceInv, RecInv, Blocked
<1>. QED  BY <1>1, <1>5, <1>7, <1>8, <1>9 DEF ServiceInv, KeepsFinal

(***************************************************************************)
(* The calls of the user, and a restart.                                   *)
(***************************************************************************)

LEMMA ContinueChecksStep ==
    ASSUME ServiceInv, OneContinuation', NEW w \in Worker, ContinueChecks(w)
    PROVE  ServiceInv' /\ KeepsFinal
<1>1. PICK p \in {"stopping", "resolving"} :
        /\ worker' = [worker EXCEPT ![w].pc = p]
        /\ stops' = TRUE \/ stops' = stops
    BY DEF ContinueChecks
<1>2. /\ w # 0 /\ rec.status = "waiting_for_gate" /\ inputs
      /\ UNCHANGED <<gated, rec, inputs, controller, exec, canceller, alive>>
      /\ worker[w].pc = "none"
    BY DEF ContinueChecks, Is
<1>3. /\ worker' \in [Worker -> WorkerStates] /\ OthersWait(w) /\ worker'[w].pc = p
      /\ worker'[w].aborted = worker[w].aborted
    BY <1>1, PcEffect
<1>4. \A v \in Worker : ~AtWork(v)
    BY <1>2 DEF ServiceInv, WorkersInv
<1>5. \A v \in Worker : v # w => ~Acting(v)' /\ ~AtWork(v)'
  <2>1. ASSUME NEW v \in Worker, v # w, Acting(v)'
        PROVE  FALSE
    <3>1. worker[v].pc \in {"resolving", "stopping"} /\ worker'[v].pc = worker[v].pc
        BY <1>3, <1>4, <2>1 DEF Acting, AtWork, OthersWait
    <3>2. v # 0
        BY <3>1 DEF ServiceInv, WorkersInv
    <3>. QED  BY <1>2, <1>3, <2>1, <3>1, <3>2 DEF OneContinuation
  <2>. QED  BY <2>1 DEF Acting
<1>6. ~AtWork(w)'
    BY <1>3 DEF AtWork
<1>7. stops' \in BOOLEAN /\ (stops => stops')
  <2>1. CASE stops' = TRUE
      BY <2>1
  <2>2. CASE stops' = stops
      BY <2>2 DEF ServiceInv, ServiceTypeOK
  <2>. QED  BY <1>1, <2>1, <2>2
<1>8. ServiceTypeOK'
    BY <1>2, <1>3, <1>7 DEF ServiceInv, ServiceTypeOK
<1>9. WorkersInv'
  <2>1. \A u, v \in Worker : Acting(u)' /\ Acting(v)' => u = v
      BY <1>5
  <2>2. \A v \in Worker : /\ Acting(0)' /\ v # 0 => worker'[v].pc = "none"
                          /\ v = 0 => worker'[v].pc \notin {"none", "resolving", "stopping"}
                          /\ v = 0 /\ worker'[v].pc = "finish" => worker'[v].report # "none"
                          /\ ~AtWork(v)'
      BY <1>2, <1>3, <1>5, <1>6, Zero DEF ServiceInv, WorkersInv, OthersWait
  <2>3. inputs'
      BY <1>2, Zenon
  <2>. QED  BY <2>1, <2>2, <2>3 DEF WorkersInv
<1>10. NodesInv'
    BY <1>2, <1>3, <1>7, QuietNodes
<1>11. RecInv'
  <2>1. rec.over = {}
      BY <1>2 DEF ServiceInv, RecInv
  <2>2. \A v \in Worker : /\ ~AtWork(v)'
                          /\ worker'[v].pc \notin {"start", "loop", "finish", "level"}
      BY <1>5, <1>6 DEF AtWork
  <2>. QED  BY <1>2, <2>1, <2>2, Zero DEF RecInv
<1>. QED  BY <1>2, <1>8, <1>9, <1>10, <1>11 DEF ServiceInv, KeepsFinal

LEMMA ContinueStopsStep ==
    ASSUME ServiceInv, NEW w \in Worker, ContinueStops(w)
    PROVE  ServiceInv' /\ KeepsFinal
<1>1. /\ worker[w].pc = "stopping" /\ rec' = Stopped /\ exec' = Tell(exec)
      /\ worker' = [worker EXCEPT ![w].pc = "ended"]
      /\ UNCHANGED <<gated, inputs, stops, controller, canceller, alive>>
    BY DEF ContinueStops, Is
<1>2. /\ worker' \in [Worker -> WorkerStates] /\ OthersWait(w) /\ worker'[w].pc = "ended"
      /\ \A v \in Worker : worker'[v].aborted = worker[v].aborted
    BY <1>1, PcEffect
<1>3. /\ Acting(w) /\ rec \in RecordStates
      /\ exec \in [Worker -> [Task -> ExecutionStates]]
    BY <1>1 DEF Acting, ServiceInv, ServiceTypeOK
<1>4. rec' \in RecordStates /\ rec'.status = "failed" /\ rec'.over = rec.over
    BY <1>1, <1>3, StoppedEffect
<1>5. \A v \in Worker, n \in Task : exec[v][n].pc = "idle"
    BY <1>1, <1>3, Alone
<1>6. /\ exec' \in [Worker -> [Task -> ExecutionStates]]
      /\ \A v \in Worker, n \in Task :
           /\ exec'[v][n].pc = exec[v][n].pc /\ exec'[v][n].out = exec[v][n].out
           /\ exec'[v][n].child = "active" => exec[v][n].pc = "note"
    BY <1>1, <1>3, TellEffect
<1>7. ServiceTypeOK'
    BY <1>1, <1>2, <1>4, <1>6 DEF ServiceInv, ServiceTypeOK
<1>8. ~AtWork(w)'
    BY <1>2 DEF AtWork
<1>9. WorkersInv'
    BY <1>1, <1>2, <1>3, <1>4, <1>8, ActorWorkers
<1>10. ASSUME NEW v \in Worker, NEW m \in Task
       PROVE  NodeInv(v, m)'
  <2>1. NodeInv(v, m)
      BY DEF ServiceInv, NodesInv
  <2>2. exec'[v][m].pc = "idle" /\ exec'[v][m].out = exec[v][m].out
        /\ exec'[v][m].child # "active"
      BY <1>5, <1>6
  <2>. QED  BY <1>5, <2>1, <2>2 DEF NodeInv
<1>11. RecInv'
    BY <1>1, <1>2, <1>3, <1>4, <1>8, ActorRec
<1>. QED  BY <1>1, <1>7, <1>9, <1>10, <1>11 DEF ServiceInv, NodesInv, KeepsFinal

LEMMA ContinueResolvesStep ==
    ASSUME ServiceInv, NEW w \in Worker, ContinueResolves(w)
    PROVE  ServiceInv' /\ KeepsFinal
<1>1. PICK s \in {"waiting_for_gate", "running"}, p \in {"ended", "start"} :
        /\ rec' = [rec EXCEPT !.status = s]
        /\ worker' = [worker EXCEPT ![w].pc = p]
        /\ controller' = IF p = "start" THEN w ELSE controller
        /\ p = "start" <=> s = "running"
    BY DEF ContinueResolves
<1>2. /\ worker[w].pc = "resolving" /\ inputs' = TRUE
      /\ UNCHANGED <<gated, stops, exec, canceller, alive>>
    BY DEF ContinueResolves, Is
<1>3. /\ worker' \in [Worker -> WorkerStates] /\ OthersWait(w) /\ worker'[w].pc = p
      /\ worker'[w].aborted = worker[w].aborted
    BY <1>1, PcEffect
<1>4. Acting(w) /\ rec.over = {} /\ w # 0
    BY <1>2, Zero DEF Acting, ServiceInv, WorkersInv, RecInv
<1>5. rec' \in RecordStates /\ rec'.status = s /\ rec'.over = rec.over
    BY <1>1 DEF ServiceInv, ServiceTypeOK, RecordStates
<1>6. controller' \in Worker \union {None}
    BY <1>1 DEF ServiceInv, ServiceTypeOK
<1>7. ServiceTypeOK'
    BY <1>2, <1>3, <1>5, <1>6 DEF ServiceInv, ServiceTypeOK
<1>8. AtWork(w)' => p = "start"
    BY <1>3 DEF AtWork
<1>9. WorkersInv'
    BY <1>1, <1>2, <1>3, <1>4, <1>5, <1>8, ActorWorkers
<1>10. NodesInv'
    BY <1>2, <1>3, <1>5, QuietNodes
<1>11. RecInv'
    BY <1>1, <1>3, <1>4, <1>5, <1>8, ActorRec
<1>. QED  BY <1>2, <1>7, <1>9, <1>10, <1>11 DEF ServiceInv, KeepsFinal

LEMMA CancelChecksStep ==
    ASSUME ServiceInv, CancelChecks
    PROVE  ServiceInv' /\ KeepsFinal
<1>1. /\ canceller' = "checked"
      /\ UNCHANGED <<gated, rec, inputs, stops, controller, worker, exec, alive>>
    BY DEF CancelChecks
<1>2. ServiceTypeOK'
    BY <1>1 DEF ServiceInv, ServiceTypeOK
<1>3. WorkersInv'
    BY <1>1 DEF ServiceInv, WorkersInv, Acting, AtWork
<1>4. NodesInv'
    BY <1>1 DEF ServiceInv, NodesInv, NodeInv
<1>5. RecInv'
    BY <1>1 DEF ServiceInv, RecInv, AtWork, Blocked
<1>. QED  BY <1>1, <1>2, <1>3, <1>4, <1>5 DEF ServiceInv, KeepsFinal

\* The mutation of cancel() takes any status back, but only of a record whose
\* nodes and budgets it leaves as they are.
LEMMA CancelMarksStep ==
    ASSUME ServiceInv, CancelMarks
    PROVE  ServiceInv' /\ KeepsFinal
<1>1. /\ canceller = "checked" /\ canceller' = "told" /\ inputs' = FALSE
      /\ rec' = [rec EXCEPT !.status = "cancelling"] /\ exec' = Tell(exec)
      /\ worker' = [w \in Worker |-> [worker[w] EXCEPT !.aborted = @ \/ w = controller]]
      /\ UNCHANGED <<gated, stops, controller, alive>>
    BY DEF CancelMarks
<1>2. /\ rec \in RecordStates /\ worker \in [Worker -> WorkerStates]
      /\ exec \in [Worker -> [Task -> ExecutionStates]]
    BY DEF ServiceInv, ServiceTypeOK
<1>3. ASSUME NEW w \in Worker
      PROVE  /\ worker'[w] \in WorkerStates /\ worker'[w].pc = worker[w].pc
             /\ worker'[w].report = worker[w].report
  <2>1. PICK k \in WorkerStates : k = worker[w]
      BY <1>2
  <2>2. PICK b \in BOOLEAN : b = (k.aborted \/ w = controller)
      OBVIOUS
  <2>3. worker'[w] = [k EXCEPT !.aborted = b]
      BY <1>1, <2>1, <2>2
  <2>. QED  BY <2>1, <2>3 DEF WorkerStates
<1>4. worker' \in [Worker -> WorkerStates]
    BY <1>1, <1>3
<1>5. rec' \in RecordStates /\ rec'.status = "cancelling" /\ rec'.over = rec.over
    BY <1>1, <1>2 DEF RecordStates
<1>6. /\ exec' \in [Worker -> [Task -> ExecutionStates]]
      /\ \A w \in Worker, n \in Task :
           /\ exec'[w][n].pc = exec[w][n].pc /\ exec'[w][n].out = exec[w][n].out
           /\ exec'[w][n].child # exec[w][n].child =>
                 exec[w][n].child = "active" /\ exec'[w][n].child = "told"
           /\ exec'[w][n].child = "active" => exec[w][n].pc = "note"
    BY <1>1, <1>2, TellEffect
<1>7. ServiceTypeOK'
    BY <1>1, <1>4, <1>5, <1>6 DEF ServiceInv, ServiceTypeOK
<1>8. \A w \in Worker : (Acting(w)' <=> Acting(w)) /\ (AtWork(w)' <=> AtWork(w))
    BY <1>3 DEF Acting, AtWork
<1>9. WorkersInv'
  <2>1. \A u, v \in Worker : Acting(u)' /\ Acting(v)' => u = v
      BY <1>8 DEF ServiceInv, WorkersInv
  <2>2. \A v \in Worker : /\ Acting(0)' /\ v # 0 => worker'[v].pc = "none"
                          /\ v = 0 => worker'[v].pc \notin {"none", "resolving", "stopping"}
                          /\ v = 0 /\ worker'[v].pc = "finish" => worker'[v].report # "none"
                          /\ AtWork(v)' => controller' = v
      BY <1>1, <1>3, <1>8, Zero DEF ServiceInv, WorkersInv
  <2>. QED  BY <1>1, <1>5, <2>1, <2>2 DEF WorkersInv
<1>10. ASSUME NEW v \in Worker, NEW m \in Task
       PROVE  NodeInv(v, m)'
  <2>1. NodeInv(v, m)
      BY DEF ServiceInv, NodesInv
  <2>. QED  BY <1>1, <1>3, <1>5, <1>6, <2>1 DEF NodeInv, Ended
<1>11. RecInv'
  <2>1. ASSUME NEW w \in Worker, w # 0, worker'[w].pc = "level"
        PROVE  \A n \in rec'.over : exec'[w][n].pc # "idle"
    <3>1. TAKE n \in rec'.over
    <3>2. n \in rec.over /\ n \in Task
        BY <1>2, <1>5 DEF RecordStates
    <3>3. exec[w][n].pc # "idle"
        BY <1>3, <2>1, <3>2 DEF ServiceInv, RecInv
    <3>. QED  BY <1>6, <3>2, <3>3
  <2>. QED  BY <1>3, <1>5, <2>1 DEF ServiceInv, RecInv
<1>. QED  BY <1>1, <1>7, <1>9, <1>10, <1>11 DEF ServiceInv, NodesInv, KeepsFinal

\* cancel() ends the record only when nobody is registered who works on it.
LEMMA CancelEndsStep ==
    ASSUME ServiceInv, CancelEnds
    PROVE  ServiceInv' /\ KeepsFinal
<1>1. /\ canceller = "told" /\ canceller' = "done"
      /\ rec' = [rec EXCEPT !.status = IF controller = None THEN "cancelled" ELSE @]
      /\ UNCHANGED <<gated, inputs, stops, controller, worker, exec, alive>>
    BY DEF CancelEnds
<1>2. rec \in RecordStates
    BY DEF ServiceInv, ServiceTypeOK
<1>3. /\ rec' \in RecordStates /\ rec'.over = rec.over
      /\ rec'.status \in {rec.status, "cancelled"}
      /\ controller # None => rec'.status = rec.status
    BY <1>1, <1>2 DEF RecordStates, TerminalStates
<1>4. \A w \in Worker : AtWork(w) => rec'.status = rec.status
    BY <1>3, ServiceAssumption DEF ServiceInv, WorkersInv
<1>5. ServiceTypeOK'
    BY <1>1, <1>3 DEF ServiceInv, ServiceTypeOK
<1>6. \A w \in Worker : (Acting(w)' <=> Acting(w)) /\ (AtWork(w)' <=> AtWork(w))
    BY <1>1 DEF Acting, AtWork
<1>7. WorkersInv'
  <2>1. \A v \in Worker :
           AtWork(v)' => rec'.status \in {"queued", "running", "cancelling", "failed"}
      BY <1>4, <1>6 DEF ServiceInv, WorkersInv
  <2>. QED  BY <1>1, <1>6, <2>1, Zero DEF ServiceInv, WorkersInv
<1>8. NodesInv'
    BY <1>1, <1>3 DEF ServiceInv, NodesInv, NodeInv
<1>9. RecInv'
  <2>1. rec'.status = "failed" => rec.status = "failed"
      BY <1>3
  <2>2. rec.over # {} => rec'.status \in {"failed", "cancelling", "cancelled", "orphaned"}
      BY <1>3 DEF ServiceInv, RecInv
  <2>. QED  BY <1>1, <1>3, <1>6, <2>1, <2>2, Zero DEF ServiceInv, RecInv, Blocked
<1>. QED  BY <1>1, <1>5, <1>7, <1>8, <1>9 DEF ServiceInv, KeepsFinal

LEMMA RestartStep ==
    ASSUME ServiceInv, Restart
    PROVE  ServiceInv' /\ KeepsFinal
<1>1. /\ alive' = FALSE /\ gated' = gated /\ inputs' = FALSE /\ stops' = FALSE
      /\ controller' = None /\ canceller' = "done"
      /\ worker' = [w \in Worker |-> [worker[w] EXCEPT !.pc = "ended", !.aborted = FALSE,
                                                       !.remaining = {}, !.report = "none"]]
      /\ exec' = [w \in Worker |-> [n \in Task |-> Unstarted]]
    BY DEF Restart
<1>2. rec \in RecordStates /\ worker \in [Worker -> WorkerStates]
    BY DEF ServiceInv, ServiceTypeOK
<1>3. /\ rec' \in RecordStates /\ rec'.over = rec.over
      /\ rec'.status \in TerminalStates
      /\ rec.status \in TerminalStates => rec'.status = rec.status
      /\ rec.status \notin TerminalStates => rec'.status = "orphaned"
  <2>1. CASE rec.status \in TerminalStates
      BY <1>2, <2>1 DEF Restart
  <2>2. CASE rec.status \notin TerminalStates
    <3>. DEFINE f == [n \in Task |-> IF rec.node[n] \in {"queued", "running", "retrying"}
                                     THEN "orphaned" ELSE rec.node[n]]
    <3>1. f \in [Task -> {"pending", "queued", "running", "retrying", "skipped", "succeeded",
                          "failed", "cancelled", "policy_blocked", "orphaned"}]
        BY <1>2 DEF RecordStates
    <3>2. rec' = [rec EXCEPT !.status = "orphaned", !.node = f]
        BY <2>2 DEF Restart
    <3>. HIDE DEF f
    <3>. QED  BY <1>2, <2>2, <3>1, <3>2 DEF RecordStates, TerminalStates
  <2>. QED  BY <2>1, <2>2
<1>4. ASSUME NEW w \in Worker
      PROVE  worker'[w] \in WorkerStates /\ worker'[w].pc = "ended"
  <2>1. PICK k \in WorkerStates : k = worker[w]
      BY <1>2
  <2>2. worker'[w] = [k EXCEPT !.pc = "ended", !.aborted = FALSE,
                               !.remaining = {}, !.report = "none"]
      BY <1>1, <2>1
  <2>. QED  BY <2>2 DEF WorkerStates
<1>5. worker' \in [Worker -> WorkerStates]
    BY <1>1, <1>4
<1>6. /\ exec' \in [Worker -> [Task -> ExecutionStates]]
      /\ \A w \in Worker, n \in Task :
           exec'[w][n].pc = "idle" /\ exec'[w][n].out = "none" /\ exec'[w][n].child = "none"
    BY <1>1 DEF Unstarted, ExecutionStates
<1>7. ServiceTypeOK'
    BY <1>1, <1>3, <1>5, <1>6 DEF ServiceInv, ServiceTypeOK
<1>8. \A w \in Worker : ~Acting(w)' /\ ~AtWork(w)'
    BY <1>4 DEF Acting, AtWork
<1>9. WorkersInv'
    BY <1>1, <1>4, <1>8, Zero DEF WorkersInv
<1>10. NodesInv'
    BY <1>6 DEF NodesInv, NodeInv
<1>11. RecInv'
  <2>1. rec'.over # {} => rec'.status \in {"failed", "cancelling", "cancelled", "orphaned"}
      BY <1>3 DEF ServiceInv, RecInv
  <2>. QED  BY <1>4, <1>8, <2>1, Zero DEF RecInv
<1>. QED  BY <1>3, <1>7, <1>9, <1>10, <1>11 DEF ServiceInv, KeepsFinal

(***************************************************************************)
(* The invariant, and what it is for.                                      *)
(***************************************************************************)

LEMMA ServiceStarts == ServiceInit => ServiceInv
<1>1. SUFFICES ASSUME ServiceInit PROVE ServiceInv
    OBVIOUS
<1>2. /\ \A w \in Worker : /\ worker[w] \in WorkerStates
                           /\ worker[w].pc = IF w = 0 THEN "start" ELSE "none"
      /\ worker \in [Worker -> WorkerStates]
    BY <1>1 DEF ServiceInit, WorkerStates
<1>3. /\ \A w \in Worker, n \in Task : /\ exec[w][n].pc = "idle" /\ exec[w][n].out = "none"
                                       /\ exec[w][n].child = "none"
      /\ exec \in [Worker -> [Task -> ExecutionStates]]
    BY <1>1 DEF ServiceInit, Unstarted, ExecutionStates
<1>4. rec \in RecordStates /\ rec.over = {} /\ rec.status = "queued"
    BY <1>1 DEF ServiceInit, RecordStates
<1>5. ServiceTypeOK
    BY <1>1, <1>2, <1>3, <1>4, Zero DEF ServiceTypeOK, ServiceInit
<1>6. \A w \in Worker : (Acting(w) => w = 0) /\ (AtWork(w) => w = 0)
    BY <1>2 DEF Acting, AtWork
<1>7. WorkersInv
    BY <1>1, <1>2, <1>4, <1>6, Zero DEF WorkersInv, ServiceInit
<1>8. NodesInv
    BY <1>3 DEF NodesInv, NodeInv
<1>9. RecInv
    BY <1>2, <1>4 DEF RecInv
<1>. QED  BY <1>5, <1>7, <1>8, <1>9 DEF ServiceInv

LEMMA ServiceStep ==
    ASSUME ServiceInv, OneContinuation', [ServiceNext]_service
    PROVE  ServiceInv' /\ KeepsFinal
<1>1. ASSUME NEW w \in Worker, NEW n \in Task, Executes(w, n)
      PROVE  ServiceInv' /\ KeepsFinal
    BY <1>1, ExecutesMoves, MovesPreserve DEF KeepsFinal
<1>2. ASSUME NEW w \in Worker, NEW n \in Task, ChildEnds(w, n)
      PROVE  ServiceInv' /\ KeepsFinal
    BY <1>2, ChildEndsStep
<1>3. ASSUME NEW w \in Worker, Works(w)
      PROVE  ServiceInv' /\ KeepsFinal
    BY <1>3, RunStartsStep, RunnerReportsStep, FinishRunStep, PendingReadsStep,
       LevelStartsStep, LevelEndsStep, LoopEndsStep, FinishPendingStep, FailClosedStep,
       SettleStep, ContinueStopsStep, ContinueResolvesStep DEF Works
<1>4. ASSUME NEW w \in Worker, ContinueChecks(w)
      PROVE  ServiceInv' /\ KeepsFinal
    BY <1>4, ContinueChecksStep
<1>5. CASE UNCHANGED service
  <2>1. ServiceTypeOK'
      BY <1>5 DEF service, ServiceInv, ServiceTypeOK
  <2>2. WorkersInv'
      BY <1>5 DEF service, ServiceInv, WorkersInv, Acting, AtWork
  <2>3. NodesInv'
      BY <1>5 DEF service, ServiceInv, NodesInv, NodeInv
  <2>4. RecInv'
      BY <1>5 DEF service, ServiceInv, RecInv, AtWork, Blocked
  <2>. QED  BY <1>5, <2>1, <2>2, <2>3, <2>4 DEF service, ServiceInv, KeepsFinal
<1>. QED  BY <1>1, <1>2, <1>3, <1>4, <1>5, CancelMarksStep, CancelEndsStep, CancelChecksStep,
             RestartStep DEF ServiceNext, Runs

LEMMA ServiceInvAgrees == ServiceInv => RecordAndRunsAgree
<1>1. SUFFICES ASSUME ServiceInv PROVE RecordAndRunsAgree
    OBVIOUS
<1>2. \A w \in Worker, n \in Task :
         exec[w][n].child = "active" => worker[w].pc = "level" /\ Acting(w)
    BY <1>1 DEF ServiceInv, NodesInv, NodeInv, Acting, AtWork
<1>3. ASSUME NEW n \in Task
      PROVE  Cardinality({w \in Worker : exec[w][n].child = "active"}) <= 1
  <2>. DEFINE S == {w \in Worker : exec[w][n].child = "active"}
  <2>1. \A v, w \in S : v = w
      BY <1>1, <1>2 DEF ServiceInv, WorkersInv
  <2>. HIDE DEF S
  <2>2. Cardinality(S) <= 1
    <3>1. CASE S = {}
        BY <3>1, FS_EmptySet
    <3>2. CASE S # {}
      <4>1. PICK w : w \in S
          BY <3>2
      <4>2. S = {w}
          BY <2>1, <4>1
      <4>3. Cardinality({w}) = 1
          BY FS_Singleton
      <4>. QED  BY <4>2, <4>3
    <3>. QED  BY <3>1, <3>2
  <2>. QED  BY <2>2 DEF S
<1>4. ChildrenAccounted
  <2>1. \A w \in Worker, n \in Task :
           worker[w].pc \in {"settling", "ended"} => exec[w][n].child # "active"
      BY <1>2
  <2>. QED  BY <1>3, <2>1 DEF ChildrenAccounted
<1>5. RecordTruthful
  <2>1. rec.over # {} => rec.status \notin {"succeeded", "waiting_for_gate"}
      BY <1>1 DEF ServiceInv, RecInv
  <2>2. alive /\ canceller = "idle" /\ rec.status = "waiting_for_gate" => inputs
      BY <1>1 DEF ServiceInv, WorkersInv
  <2>. QED  BY <2>1, <2>2 DEF RecordTruthful
<1>. QED  BY <1>1, <1>4, <1>5 DEF RecordAndRunsAgree, ServiceInv

LEMMA ServiceInvHolds == ServiceSpec /\ []OneContinuation => []ServiceInv
<1>1. ServiceInv /\ OneContinuation' /\ [ServiceNext]_service => ServiceInv'
    BY ServiceStep
<1>. QED  BY <1>1, ServiceStarts, PTL DEF ServiceSpec

\* With one call of continue(), as in the run, the proviso is always met.
LEMMA OneCall == Continues <= 1 => OneContinuation
BY ServiceAssumption DEF OneContinuation, Worker

\* As long as nobody continues an orchestration that is being continued, every run is
\* accounted for - no node has two that nobody asked to stop, and none outlives the
\* worker that started it - and an orchestration at rest says of its budget and its
\* input what is so (agents/application-orchestration-service.ts).
THEOREM RecordAndRunsAgreeHolds ==
    ServiceSpec /\ []OneContinuation => []RecordAndRunsAgree
BY ServiceInvHolds, ServiceInvAgrees, PTL

\* Under the same proviso the final status of an orchestration stays, but for a cancel() or
\* continue() that has looked at it before it was final.
THEOREM FinalUnlessStaleCallHolds ==
    ServiceSpec /\ []OneContinuation => FinalUnlessStaleCall
<1>1. ServiceInv /\ OneContinuation' /\ [ServiceNext]_service =>
        [/\ rec.status \in TerminalStates
         /\ canceller \notin {"checked", "told"}
         /\ \A w \in Worker : worker[w].pc \notin {"resolving", "stopping"}
         => rec'.status = rec.status]_service
    BY ServiceStep DEF KeepsFinal
<1>. QED  BY <1>1, ServiceInvHolds, PTL DEF ServiceSpec, FinalUnlessStaleCall

===============================================================================
