---------------------------- MODULE MCDocuments ----------------------------
(***************************************************************************)
(* What a user writes and sends, for TLC, one of: a case with two          *)
(* documents, an artifact of an agent and two requests at a time; the      *)
(* style profile, edited in the client and by hand.                        *)
(***************************************************************************)
EXTENDS Applications, TLC

CONSTANTS
    k1, d1, d2, a1, q1, q2,                             \* applications
    Texts, MaxStyleRevision, MaxRequests, MaxHandEdits  \* style profile

OneCase == {k1}
TwoDocuments == {d1, d2}
OneArtifact == {a1}
TwoCallers == {q1, q2}

VARIABLES part, file, meta, net, view, draft, busy, tick, seen, handEdits

Style == INSTANCE StyleProfile WITH MaxRevision <- MaxStyleRevision

caseVars == <<workspace, store, line, call, approvedOnce, restored>>
styleVars == <<file, meta, net, view, draft, busy, tick, seen, handEdits>>

\* Nothing is there of the part that does not move.
MCInit ==
    /\ part \in {"applications", "style"}
    /\ WorkspaceInit /\ (part = "style" => \A k \in OneCase : cases[k] = NeverCase)
    /\ \A k \in OneCase : Exists(k) => cases[k].revision = IF artifacts[a1].life = "none" THEN 1 ELSE 2
    /\ Style!Init /\ (part = "applications" => file = Style!Missing /\ meta = Style!NoMeta)

MCNext ==
    \/ part = "applications" /\ WorkspaceNext /\ UNCHANGED <<part, styleVars>>
    \/ part = "style" /\ Style!Next /\ UNCHANGED <<part, caseVars>>

MCSpec == MCInit /\ [][MCNext]_<<part, caseVars, styleVars, faults>>

Interchangeable == Permutations(TwoDocuments) \cup Permutations(TwoCallers)

-----------------------------------------------------------------------------
\* What has been used stays as it was sent, and a style profile replaces the one it was
\* written over (artifact-revisions.ts, style-profile.ts).
ReplacesOnlySeen == UsedIsFinal /\ Style!SavesOverSeen

=============================================================================
