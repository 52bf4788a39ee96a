---------------------------- MODULE DagExecution ----------------------------
(***************************************************************************)
(* What the orchestration of a workflow promises, whatever runs its nodes: *)
(* a node starts when all it depends on has succeeded, settles once, and   *)
(* is skipped only while it has not started; a failure may skip nodes; the *)
(* result is reported when nothing runs any more, and says how the nodes   *)
(* stand.  Module OrchestrationRunner implements it.                       *)
(***************************************************************************)

CONSTANTS
    Node,        \* the nodes of the plan
    DependsOn    \* the nodes a node waits for

VARIABLES
    status,   \* NodeExecutionStatus of each node
    result    \* status of the report, "none" before run() returns

Broken == {"failed", "cancelled", "policy_blocked"}
Settled == Broken \union {"succeeded"}

Results == {"none", "succeeded", "failed", "cancelled", "waiting_for_gate", "rejected"}

Init ==
    /\ status = [n \in Node |-> "pending"]
    /\ result = "none"

Start(n) ==
    /\ status[n] = "pending"
    /\ \A d \in DependsOn[n] : status[d] = "succeeded"
    /\ result = "none"
    /\ status' = [status EXCEPT ![n] = "running"]
    /\ UNCHANGED result

\* A node may start and break in one step, when its first check stops it.
Startable(n) ==
    /\ status[n] = "pending" /\ result = "none"
    /\ \A d \in DependsOn[n] : status[d] = "succeeded"

Succeed(n) ==
    /\ status[n] = "running"
    /\ status' = [status EXCEPT ![n] = "succeeded"]
    /\ UNCHANGED result

Break(n) ==
    /\ status[n] = "running" \/ Startable(n)
    /\ \E s \in Broken :
         status' = [m \in Node |-> IF m = n THEN s
                                   ELSE IF status[m] = "pending" /\ status'[m] = "skipped" THEN "skipped"
                                   ELSE status[m]]
    /\ UNCHANGED result

\* The report tells the truth about the nodes.
Truthful(r) ==
    /\ \A n \in Node : status[n] # "running"
    /\ r = "succeeded" <=> \A n \in Node : status[n] = "succeeded"
    /\ r = "failed" => /\ \A n \in Node : status[n] # "pending"
                       /\ \E n \in Node : status[n] # "succeeded"
    /\ r = "waiting_for_gate" => \E n \in Node : status[n] = "pending"

Report ==
    /\ result = "none"
    /\ \E r \in Results \ {"none", "rejected"} :
         /\ r # "cancelled" => Truthful(r)
         /\ result' = r
    /\ \A n \in Node : status[n] # "running"
    /\ UNCHANGED status

\* run() may also throw: then it reports nothing.
Reject ==
    /\ result = "none"
    /\ result' = "rejected"
    /\ UNCHANGED status

Next ==
    \/ \E n \in Node : Start(n) \/ Succeed(n) \/ Break(n)
    \/ Report
    \/ Reject

Spec == Init /\ [][Next]_<<status, result>>

=============================================================================
