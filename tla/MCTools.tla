------------------------------ MODULE MCTools ------------------------------
(***************************************************************************)
(* What decides whether an agent may do something, for TLC, one of: three  *)
(* requests for approval, any of which may replace another, with           *)
(* revokeAll() for two of them and for all; the tool calls of a run that   *)
(* confirm and execute commands; the requests for a run under a key.  The  *)
(* parts share no state but the server that restarts.                      *)
(***************************************************************************)
EXTENDS ApprovalLifecycle, DomainCommands, RunAdmission, TLC

CONSTANTS
    r1, r2, r3,             \* the approvals
    p1, p2, p3,             \* the proposals
    Parts                   \* the parts a behaviour may be of

ThreeRequests == {r1, r2, r3}
RunsAndAll == {S \in SUBSET ThreeRequests : Cardinality(S) >= 2}

ThreeProposals == {p1, p2, p3}
EachKind ==
    (p1 :> "application_status") @@ (p2 :> "mail_correlation") @@ (p3 :> "follow_up_reminder")

VARIABLE part

MCInit == part \in Parts /\ Init /\ CommandsInit /\ AdmissionInit

MCNext ==
    \/ part = "approvals" /\ Next /\ UNCHANGED <<part, commands, admission>>
    \/ part = "commands" /\ CommandsNext /\ UNCHANGED <<part, vars, admission>>
    \/ part = "admission" /\ AdmissionNext /\ UNCHANGED <<part, vars, commands>>

MCSpec == MCInit /\ [][MCNext]_<<part, vars, commands, admission>>

\* No property is a liveness one, and what is interchangeable in one part does
\* not occur in the others.
Interchangeable ==
    Permutations(ThreeRequests) \cup Permutations(Callers) \cup Permutations(Keys)

=============================================================================
