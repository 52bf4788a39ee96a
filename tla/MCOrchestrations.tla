--------------------------- MODULE MCOrchestrations ---------------------------
(***************************************************************************)
(* For TLC, one of:                                                        *)
(*   "runner"   OrchestrationRunner, with a plan made to meet in six nodes *)
(*              what the workflows of agents/application-workflows.ts meet *)
(*              only between them: a level of two nodes, a join, a gate    *)
(*              that stays closed, both failure strategies, all kinds of   *)
(*              side effects, retries, and a total of iterations that may  *)
(*              run out before, at or after a level;                       *)
(*   "service"  ApplicationOrchestration, with a node that decides         *)
(*              everything and two that depend on it, as the author and    *)
(*              the two reviewers there.  Before run() starts no gate may  *)
(*              be open, as there, or the first one, or the last ones, as  *)
(*              in the workflow of the mail; a node may ask back, as the   *)
(*              finalizer.                                                 *)
(***************************************************************************)
EXTENDS OrchestrationRunner, ApplicationOrchestration, TLC

CONSTANTS
    evidence, author, ats, style, finalizer, respond,  \* the nodes of the runner
    draft, review1, review2,                           \* those of the service
    Systems

VARIABLE work

Plan == {evidence, author, ats, style, finalizer, respond}
PlanDependsOn ==
    [n \in Plan |->
        CASE n = evidence -> {}
          [] n = finalizer -> {ats, style}
          [] n = respond -> {author, ats}
          [] OTHER -> {evidence}]
PlanGated == {author}
PlanFailFast == {ats, finalizer}
PlanSideEffect ==
    [n \in Plan |-> CASE n = finalizer -> "non_idempotent"
                      [] n = style -> "idempotent_local"
                      [] OTHER -> "none"]
PlanAttempts ==
    [n \in Plan |-> CASE n = evidence -> 5
                      [] n \in {style, finalizer} -> 2
                      [] OTHER -> 1]

Three == {draft, review1, review2}
ThreeDependOn == [n \in Three |-> IF n = draft THEN {} ELSE {draft}]
ThreeGateSets == {{}, {draft}, {review1, review2}}
ThreeAttempts == [n \in Three |-> IF n = draft THEN 2 ELSE 1]

MCInit == work \in Systems /\ Init /\ ServiceInit /\ (work = "runner" => gated = {})

MCNext ==
    \/ work = "runner" /\ Next /\ UNCHANGED <<work, service>>
    \/ work = "service" /\ ServiceNext /\ UNCHANGED <<work, vars>>

MCSpec == MCInit /\ [][MCNext]_<<work, vars, service>>

\* The reviews of the service are interchangeable, and no property is a liveness one.
Interchangeable == Permutations({review1, review2})

-----------------------------------------------------------------------------
\* Whenever nothing more can happen by itself run() has returned, and the
\* orchestration of the service has ended or waits for the user.  As neither can
\* go on for ever, each always comes to that.
NeverStuck ==
    /\ work = "runner" => NeverWaits
    /\ work = "service" => ServiceNeverStuck

=============================================================================
