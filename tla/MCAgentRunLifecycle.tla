------------------------ MODULE MCAgentRunLifecycle ------------------------
(***************************************************************************)
(* AgentRunLifecycle for TLC, on one of two kinds of days: on a "rough"    *)
(* one the server may crash, restart and fail to write; on a "quiet" one   *)
(* it does not crash, and its calls go on.                                 *)
(***************************************************************************)
EXTENDS AgentRunLifecycle

CONSTANTS Days      \* those that may be chosen

VARIABLE day

allVars == <<day, vars>>

\* The CLI adapters emit run_completed, the HTTP adapter does not.
Quiet == INSTANCE AgentRunLifecycle WITH
    Reporting <- {TRUE}, MaxCrashes <- 0, MaxRestarts <- 1, MaxFailures <- 0

MCInit == day \in Days /\ IF day = "quiet" THEN Quiet!Init ELSE Init

MCNext ==
    /\ UNCHANGED day
    /\ \/ day = "rough" /\ Next
       \/ day = "quiet" /\ Quiet!Next

MCSpec == MCInit /\ [][MCNext]_allVars

\* While the server is up its calls go on, and every provider process ends, at the
\* latest at its wall-time limit.  Nobody has to ask, answer or cancel.
Quietly(step) == day = "quiet" /\ step /\ UNCHANGED day
MCFairness ==
    /\ WF_allVars(Quietly(Quiet!Store))
    /\ WF_allVars(Quietly(Quiet!AnnounceRun))
    /\ WF_allVars(Quietly(Quiet!Execute))
    /\ WF_allVars(Quietly(Quiet!ProviderGoesOn))
    /\ \A c \in Cancellers : WF_allVars(Quietly(Quiet!CancelGoesOn(c)))
    /\ \A i \in Inputs : WF_allVars(Quietly(Quiet!InputGoesOn(i)))

MCFairSpec == MCSpec /\ MCFairness

-----------------------------------------------------------------------------
\* Every run that was created is over some day, if nobody cancels it.
UncancelledRunEnds ==
    day = "quiet" /\ [](\A c \in Cancellers : cancel[c].pc = "idle")
        => (enqueue = "announce" ~> snap.state \in Terminal)

=============================================================================
