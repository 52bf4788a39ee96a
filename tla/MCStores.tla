------------------------------ MODULE MCStores ------------------------------
(***************************************************************************)
(* What is kept on disk beside the runs, for TLC, one of the Parts:        *)
(*   "agents"       the security profile or the approved versions, changed *)
(*                  in two windows                                         *)
(*   "search"       the jobs, searches and plans of a user with one page   *)
(*                  open                                                   *)
(*   "imports"      one CV import with two clients that review, adopt,     *)
(*                  revoke, restore and delete it                          *)
(*   "structuring"  one AI run that reads it while the import changes and  *)
(*                  is deleted                                             *)
(*   "files"        two ended agent runs whose artifacts have the same     *)
(*                  content, and two deletions of them                     *)
(***************************************************************************)
EXTENDS AgentConfig, TLC

CONSTANTS
    Parts,          \* the systems of this instance
    Postings, SearchRuns, Plans, s1,
    Imports, SourceOf, AiRuns, Sessions, FileFact, OwnFact,
    MaxRecognitions, MaxImportRevision, MaxAdoptions,
    Users, Removers, MaxAttempts, MaxRevision, MaxFailures,
    EndedRuns, Artifacts, Owner, Blob, CaseOf, Targets, Holds, Verdicts, Sweeps, Selection,
    MaxReleases,
    i1, r1, r2, a1, a2, d1, d2, case

AllPages == {"search", "list", "marks", "plans"}
SearchesOf == [p \in AllPages |-> IF p \in {"search", "marks"} THEN SearchRuns ELSE {s1}]
LimitOf == [p \in AllPages |-> IF p = "list" THEN 2 ELSE 1]
StopsOf == [p \in AllPages |-> IF p = "list" THEN 0 ELSE 1]

TheFile == i1 :> "file"
OwnerOf == (a1 :> r1) @@ (a2 :> r2)
SameContent == (a1 :> "b1") @@ (a2 :> "b1")
SameCase == (r1 :> case) @@ (r2 :> case)
AllAndOne == (d1 :> {r1, r2}) @@ (d2 :> {r1})

VARIABLES
    part, page, net, flags, searches, inventory, plans, found, listed, planned,
    store, profile, ledger, snapshots, handler, confirmed,
    import, record, agent, call, queue, deleting, untracked,
    records, blobs, files, ended, logs, holds, releasing, journal, sweeps, torn

Search == INSTANCE JobSearch
    WITH Jobs <- Postings, Pages <- AllPages, RunsOf <- SearchesOf, MaxInventory <- LimitOf,
         MaxFaults <- StopsOf, runs <- searches
Cv == INSTANCE CvImports
    WITH Runs <- AiRuns, Clients <- Sessions, Base <- FileFact, Own <- OwnFact, MaxVersions <- MaxRecognitions,
         MaxRevision <- MaxImportRevision, call <- handler
Ai == INSTANCE CvStructuring WITH Runs <- AiRuns, MaxFaults <- MaxFailures
Kept == INSTANCE Retention
    WITH Runs <- EndedRuns, Decisions <- Verdicts, MaxFaults <- MaxFailures, store <- files, runs <- ended

\* The user's fact and that of the file are two, and neither is an AI run; the callers of a
\* service, its runs, the sweep and nobody are apart; a person approves or rejects; every
\* artifact is of a run, and runs are deleted with what is theirs.
ASSUME RecordsAssumption ==
    /\ FileFact # OwnFact /\ {FileFact, OwnFact} \cap AiRuns = {}
    /\ (Users \cup Removers) \cap AiRuns = {}
    /\ {Ai!Sweep, Ai!Nobody} \cap (Users \cup Removers \cup AiRuns) = {}
    /\ MaxAttempts \in Nat /\ MaxRecognitions \in Nat \ {0}
    /\ Verdicts \subseteq {"approved", "rejected"}
    /\ Owner \in [Artifacts -> EndedRuns] /\ Selection \in [Sweeps -> SUBSET EndedRuns]

agentVars == <<kind, stores, seen, waiting, job, clock, history>>
searchVars == <<page, net, flags, searches, inventory, plans, found, listed, planned>>
importVars == <<store, profile, ledger, snapshots, handler, confirmed>>
aiVars == <<import, record, agent, call, queue, deleting, untracked>>
fileVars == <<records, blobs, files, ended, logs, holds, releasing, journal, sweeps, torn>>
allVars == <<part, faults, agentVars, searchVars, importVars, aiVars, fileVars>>

\* The parts that do not move are at one of their beginnings. Of the files, either all
\* deletions move and no hold can be put, or not all of them while holds come and go; of
\* what a released hold was on nothing depends.
MCInit ==
    /\ part \in Parts
    /\ Init /\ (part # "agents" => kind = "profile")
    /\ Search!Init /\ (part # "search" => page = "list")
    /\ Cv!Init /\ Ai!Init /\ Kept!Init
    /\ \A h \in Holds :
         /\ (holds[h].state = "released") = (part = "files" /\ \A s \in Sweeps : sweeps[s] = Kept!Rest)
         /\ holds[h].state = "released" => holds[h].on = CHOOSE t \in Targets : TRUE
    /\ part # "files" => \A s \in Sweeps : sweeps[s] = Kept!Rest

MCNext ==
    \/ part = "agents" /\ Next /\ UNCHANGED <<part, searchVars, importVars, aiVars, fileVars>>
    \/ part = "search" /\ Search!Next /\ UNCHANGED <<part, agentVars, importVars, aiVars, fileVars>>
    \/ part = "imports" /\ Cv!Next /\ UNCHANGED <<part, faults, agentVars, searchVars, aiVars, fileVars>>
    \/ part = "structuring" /\ Ai!Next /\ UNCHANGED <<part, agentVars, searchVars, importVars, fileVars>>
    \/ part = "files" /\ Kept!Next /\ UNCHANGED <<part, agentVars, searchVars, importVars, aiVars>>

MCSpec == MCInit /\ [][MCNext]_allVars

WindowsAlike == Permutations(Windows)
SessionsAlike == Permutations(Sessions)

-----------------------------------------------------------------------------
\* The user's marks on jobs stay, whatever searches and imports overlap with them
\* (workspace-store.ts).
MarksStay == Search!MarksKept

\* What a record says is so: no import that could not be read again, no adoption of
\* anything but the confirmed version on show, no claim in the profile that was never
\* confirmed, no applied run without its facts, nothing left of a deleted import, no end
\* that cannot be saved, no record of a content that is not there (CvImportService,
\* CvAiStructuringService, AgentArtifactStore).
RecordsTellTheTruth ==
    /\ Cv!SuccessorsLoad /\ Cv!AdoptionStands /\ Cv!OnlyConfirmedClaims
    /\ Ai!AppliedMeansHeld /\ Ai!NothingLeft /\ Ai!EndsCanBeSaved
    /\ Kept!ContentOfRecords

\* Whatever calls overlap, the user's decisions on facts and the end of an AI run stay;
\* what an application has used is remembered, what is held is kept, and a run goes after
\* everything of it (reviewFacts(), saveRecord(), AgentRetentionCoordinator.execute()).
DecisionsStay ==
    /\ Cv!DecisionsSurvive /\ Ai!OverStaysOver
    /\ Kept!UsedIsRemembered /\ Kept!HeldIsKept /\ Kept!RunGoesLast

=============================================================================
