---------------------------- MODULE Applications ----------------------------
(***************************************************************************)
(* Application cases and the documents made for them: the routes under     *)
(* /api/application-cases of src/server/src/app.ts, workspace-store.ts,    *)
(* application-case.ts, artifact-revisions.ts, and the adoption of an agent*)
(* artifact (artifact-store.ts, agent-artifact-adoption.ts).               *)
(*                                                                         *)
(* A handler reads a case, awaits, and saves the whole record it computed  *)
(* from what it read.  All writes of workspace.json go through one promise *)
(* chain per file: they are applied in order, and one that throws rejects  *)
(* every write queued behind it.  Reads do not wait.                       *)
(***************************************************************************)
EXTENDS Integers, Sequences, FiniteSets, Functions

CONSTANTS
    Cases,          \* ids of application cases
    Documents,      \* ids of document revisions
    Artifacts,      \* ids of agent artifacts
    Callers,        \* requests in flight
    MaxRevision,    \* bound: the revision number of a case
    MaxFaults       \* bound: failing writes and restarts

NoDocument == "no document"
NoArtifact == "no artifact"
Nobody == "nobody"

\* Ids are UUIDs, and none of these.
ASSUME ApplicationsAssumption == NoArtifact \notin Artifacts /\ Nobody \notin Callers

VARIABLES
    cases,          \* data.applicationCases
    documents,      \* data.artifactRevisions
    unlogged,       \* states of each case data.applicationEvents has yet to name
    artifacts,      \* the records of the agent artifact store
    storing,        \* who is inside serialized() of that store
    line,           \* the callers waiting to write workspace.json
    call,           \* where each caller is, and what it has read
    approvedOnce,   \* history: documents a review has approved
    restored,       \* history: documents that were saved again after their removal
    faults

workspace == <<cases, documents, unlogged>>
store == <<artifacts, storing>>
past == <<approvedOnce, restored, faults>>
applications == <<workspace, store, line, call, past>>

Follows ==
    [selected |-> {"analysis", "closed"},
     analysis |-> {"questions", "draft", "closed"},
     questions |-> {"analysis", "draft", "closed"},
     draft |-> {"review", "closed"},
     review |-> {"draft", "approved", "closed"},
     approved |-> {"review", "exported", "closed"},
     exported |-> {"approved", "dry_run", "closed"},
     dry_run |-> {"exported", "submitted", "closed"},
     submitted |-> {"closed"},
     closed |-> {}]
States == DOMAIN Follows
Released == {"approved", "exported", "dry_run", "submitted"}

NeverCase == [state |-> "never"]
GoneCase == [state |-> "gone"]
NeverDocument == [life |-> "never"]
GoneDocument(a) == [life |-> "gone", source |-> a]

Exists(c) == cases[c].state \in States
NewCase(mode) == [state |-> "selected", revision |-> 1, mode |-> mode, binding |-> NoDocument]

\* An agent artifact is bound to the case as the agent's run has seen it.
ApprovedFor(c) == [life |-> "approved", case |-> c, revision |-> cases[c].revision, mode |-> cases[c].mode]

\* The server starts on a workspace that has a case under review, with agent
\* artifacts approved for it, or none; the revision counts what has happened to it.
WorkspaceInit ==
    /\ cases \in [Cases -> {NeverCase} \cup
           [state : {"review"}, revision : 1 .. MaxRevision, mode : {"real", "incognito"}, binding : {NoDocument}]]
    /\ documents = [d \in Documents |-> NeverDocument]
    /\ unlogged = [c \in Cases |-> {}]
    /\ line = <<>>
    /\ artifacts \in [Artifacts -> {[life |-> "none"]} \cup {ApprovedFor(c) : c \in {k \in Cases : Exists(k)}}]
    /\ storing = Nobody
    /\ call = [q \in Callers |-> [at |-> "idle"]]
    /\ approvedOnce = {} /\ restored = {} /\ faults = 0

-----------------------------------------------------------------------------
(* Callers and the write queue of workspace.json *)

At(q, at) == call[q].at = at
Goes(q, next) == call' = [call EXCEPT ![q] = next]
Finishes(q) == Goes(q, [at |-> "idle"])

\* Handlers end early, one of them inside the artifact store perhaps; the event
\* of a case that was saved is then never written.
EndsAll(qs) ==
    /\ call' = [q \in Callers |-> IF q \in qs THEN [at |-> "idle"] ELSE call[q]]
    /\ storing' = IF storing \in qs THEN Nobody ELSE storing
    /\ unlogged' = [c \in Cases |-> unlogged[c] \
           {call[q].to.state : q \in {p \in qs : At(p, "log") /\ call[p].case = c}}]

Writing == {"save", "log", "document", "erase"}

\* mutate(): the change joins the chain of the file.
Queues(q) ==
    /\ call[q].at \in Writing /\ q \notin Range(line)
    /\ line' = Append(line, q)
    /\ UNCHANGED <<workspace, store, call, past>>

\* A write fails; every write chained behind it is rejected with its error.
FailsLine ==
    /\ line' = <<>>
    /\ EndsAll(Range(line))
    /\ UNCHANGED <<cases, documents, artifacts, approvedOnce, restored>>

DiskFails == line # <<>> /\ faults < MaxFaults /\ faults' = faults + 1 /\ FailsLine

Written(q) == line # <<>> /\ Head(line) = q /\ line' = Tail(line)

EventOf(c, a) == [at |-> "log", case |-> c, to |-> [state |-> a.state, revision |-> a.revision]]

\* saveApplicationCase(): the whole record replaces the one that is there.
SavesCase(q) ==
    /\ Written(q) /\ At(q, "save")
    /\ cases' = [cases EXCEPT ![call[q].case] = call[q].to]
    /\ unlogged' = [unlogged EXCEPT ![call[q].case] = @ \cup {call[q].to.state}]
    /\ Goes(q, EventOf(call[q].case, call[q].to))
    /\ UNCHANGED <<documents, store, past>>

\* appendApplicationEvent(), under an id of its own
Logs(c, to) == unlogged[c] \ {to.state}

LogsEvent(q) ==
    /\ Written(q) /\ At(q, "log")
    /\ unlogged' = [unlogged EXCEPT ![call[q].case] = Logs(call[q].case, call[q].to)]
    /\ Finishes(q)
    /\ UNCHANGED <<cases, documents, store, past>>

\* Mutant: a save replaces whatever is stored.
RefusesNothing(old) == FALSE

\* saveArtifactRevision(): a used revision is immutable, also for a second use,
\* which has another time.
RefusesDocument(old) == old.life = "used"

SavesDocument(q) ==
    /\ Written(q) /\ At(q, "document")
    /\ LET d == call[q].document
       IN  /\ ~RefusesDocument(documents[d])
           /\ documents' = [documents EXCEPT ![d] = call[q].content]
           /\ approvedOnce' = approvedOnce \cup (IF call[q].content.life = "approved" THEN {d} ELSE {})
           /\ restored' = restored \cup (IF documents[d].life = "gone" THEN {d} ELSE {})
    /\ Goes(q, call[q].next)
    /\ UNCHANGED <<cases, unlogged, store, faults>>

\* The refusal throws inside the chain.
ConflictFailsLine(q) ==
    /\ line # <<>> /\ Head(line) = q /\ At(q, "document")
    /\ RefusesDocument(documents[call[q].document])
    /\ FailsLine /\ UNCHANGED faults

\* What goes with the cases: deleteApplicationCase() takes every document of its
\* case, clear('application_cases') every document there is, those put back after
\* their case was gone included; purgeBefore() keeps the used ones.
Removed(cs, keepUsed) ==
    /\ cases' = [c \in Cases |-> IF c \in cs /\ Exists(c) THEN GoneCase ELSE cases[c]]
    /\ unlogged' = [c \in Cases |-> IF c \in cs THEN {} ELSE unlogged[c]]
    /\ documents' = [d \in Documents |->
           IF documents[d].life \notin {"never", "gone"} /\ documents[d].case \in cs
              /\ (keepUsed => documents[d].life # "used")
           THEN GoneDocument(documents[d].source) ELSE documents[d]]

Erases(q) ==
    /\ Written(q) /\ At(q, "erase")
    /\ \/ call[q].what = "case" /\ Removed({c \in {call[q].case} : Exists(c)}, FALSE)
       \/ call[q].what = "all" /\ Removed(Cases, FALSE)
       \/ /\ call[q].what = "old"
          /\ \E old \in SUBSET {c \in Cases : cases[c].state = "closed"} : Removed(old, TRUE)
    /\ Finishes(q)
    /\ UNCHANGED <<store, past>>

\* Everything in flight is gone; the temporary file of a write is never read.
Restart ==
    /\ faults < MaxFaults /\ faults' = faults + 1
    /\ line' = <<>> /\ EndsAll(Callers)
    /\ UNCHANGED <<cases, documents, artifacts, approvedOnce, restored>>

-----------------------------------------------------------------------------
(* Cases: the handlers up to their first write *)

Steps(q, next) == Goes(q, next) /\ UNCHANGED <<workspace, store, line, past>>
Gives(q, ok, next) == Steps(q, IF ok THEN next ELSE [at |-> "idle"])

Create(q, c, mode) ==
    /\ At(q, "idle") /\ cases[c] = NeverCase
    /\ \A p \in Callers : ~At(p, "save")
    /\ Steps(q, [at |-> "save", case |-> c, to |-> NewCase(mode)])

\* transitionApplicationCase()
MayBecome(a, target) ==
    \/ target = a.state
    \/ target \in Follows[a.state] /\ (a.mode = "incognito" => target \notin Released)
Become(a, target) ==
    IF target = a.state THEN a ELSE [a EXCEPT !.state = target, !.revision = @ + 1]
Bounded(a) == a.revision <= MaxRevision

Transition(q, c, target) ==
    /\ At(q, "idle") /\ Exists(c) /\ target # "approved"
    /\ MayBecome(cases[c], target) /\ Bounded(Become(cases[c], target))
    /\ Steps(q, [at |-> "save", case |-> c, to |-> Become(cases[c], target)])

\* readVerifiedArtifactRevision(): the record is of the case and has a proof,
\* and its file is there with the content that was proved.
Verified(d, c) ==
    /\ documents[d].life \notin {"never", "gone"}
    /\ documents[d].case = c /\ documents[d].verified

\* Mutant: any verified document of the case may be bound.
BindsUnreviewed(d, c) == Verified(d, c)

\* assertApplicationApprovalReady()
ApprovalReady(d, c) == Verified(d, c) /\ documents[d].life = "approved"

AsksApproval(q, c, d) ==
    /\ At(q, "idle") /\ Exists(c) /\ cases[c].mode = "real"
    /\ Steps(q, [at |-> "approve", case |-> c, read |-> cases[c], document |-> d])
Binds(q) ==
    /\ At(q, "approve")
    /\ LET a == call[q].read
           bound == [Become(a, "approved") EXCEPT !.binding = call[q].document]
       IN  Gives(q, ApprovalReady(call[q].document, call[q].case) /\ MayBecome(a, "approved") /\ Bounded(bound),
                 [at |-> "save", case |-> call[q].case, to |-> bound])

Note(q, c) ==
    /\ At(q, "idle") /\ Exists(c)
    /\ Steps(q, EventOf(c, cases[c]))

Delete(q, c) == At(q, "idle") /\ Steps(q, [at |-> "erase", what |-> "case", case |-> c])
Clear(q) == At(q, "idle") /\ Steps(q, [at |-> "erase", what |-> "all"])
Retention(q) == At(q, "idle") /\ Steps(q, [at |-> "erase", what |-> "old"])

-----------------------------------------------------------------------------
(* Documents *)

\* createArtifactRevision() writes the file, then the record that names it.
Proposed(c, proof, a) == [life |-> "proposed", case |-> c, verified |-> proof, source |-> a]
Unwritten(d) ==
    /\ documents[d] = NeverDocument
    /\ \A q \in Callers : At(q, "document") => call[q].document # d
WriteTo(d, content, next) == [at |-> "document", document |-> d, content |-> content, next |-> next]

\* The document the user writes carries no proof; the one the pipeline makes of
\* a case under review does.
Propose(q, c, d) ==
    /\ At(q, "idle") /\ Exists(c) /\ Unwritten(d)
    /\ \E proof \in BOOLEAN :
          /\ proof => cases[c].state = "review"
          /\ Steps(q, WriteTo(d, Proposed(c, proof, NoArtifact), [at |-> "idle"]))

Review(q, c, d) ==
    /\ At(q, "idle") /\ Exists(c) /\ Verified(d, c) /\ documents[d].life = "proposed"
    /\ \E decision \in {"approved", "rejected"} :
          Steps(q, WriteTo(d, [documents[d] EXCEPT !.life = decision], [at |-> "idle"]))

\* markArtifactUsed() on the case as the handler has read it.
Marks(q, a, c, d, next) ==
    LET mine == Verified(d, c) /\ a.binding = d
    IN  IF mine /\ documents[d].life = "used"
        THEN Steps(q, next)
        ELSE Gives(q, mine /\ documents[d].life = "approved",
                   WriteTo(d, [documents[d] EXCEPT !.life = "used"], next))

Use(q, c, d) ==
    /\ At(q, "idle") /\ Exists(c)
    /\ cases[c].mode = "real" /\ cases[c].state \in {"approved", "exported"}
    /\ Marks(q, cases[c], c, d, [at |-> "idle"])

Export(q, c, d) ==
    /\ At(q, "idle") /\ Exists(c)
    /\ cases[c].mode = "real" /\ cases[c].state = "approved" /\ cases[c].binding = d
    /\ Verified(d, c) /\ documents[d].life = "approved" /\ cases[c].revision < MaxRevision
    /\ Steps(q, [at |-> "rendered", case |-> c, read |-> cases[c], document |-> d])
Rendered(q) ==
    /\ At(q, "rendered")
    /\ Marks(q, call[q].read, call[q].case, call[q].document,
             [at |-> "save", case |-> call[q].case, to |-> Become(call[q].read, "exported")])

-----------------------------------------------------------------------------
(* Agent artifacts and their adoption *)

\* AgentArtifactStore.adopt() keeps the queue of its store until it has answered.
Adopt(q, a) ==
    /\ At(q, "idle") /\ storing = Nobody
    /\ artifacts[a].life = "approved" /\ artifacts[a].mode = "real"
    /\ storing' = q
    /\ Goes(q, [at |-> "adopt", artifact |-> a])
    /\ UNCHANGED <<workspace, artifacts, line, past>>

MadeOf(a) == {d \in Documents : documents[d].life \notin {"never", "gone"} /\ documents[d].source = a}

\* The document an earlier attempt has made.
AdoptedBefore(a) == MadeOf(a)

\* VerifiedApplicationArtifactAdoptionPort.adopt(): the case is under review and
\* is the one the artifact is bound to; the pipeline then makes the document.
Adopts(q) ==
    /\ At(q, "adopt")
    /\ LET a == call[q].artifact
           c == artifacts[a].case
           bound == /\ Exists(c)
                    /\ cases[c].state = "review" /\ cases[c].mode = "real"
                    /\ cases[c].revision = artifacts[a].revision
           used == [at |-> "adopted", artifact |-> a]
       IN  \/ /\ bound /\ AdoptedBefore(a) # {}
              /\ \A d \in AdoptedBefore(a) : Verified(d, c)
              /\ Goes(q, used) /\ UNCHANGED storing
           \/ /\ bound /\ AdoptedBefore(a) = {}
              /\ \E d \in Documents :
                    /\ Unwritten(d)
                    /\ Goes(q, WriteTo(d, Proposed(c, TRUE, a), used))
              /\ UNCHANGED storing
           \/ Finishes(q) /\ storing' = Nobody
    /\ UNCHANGED <<workspace, artifacts, line, past>>

Adopted(q) ==
    /\ At(q, "adopted")
    /\ artifacts' = [artifacts EXCEPT ![call[q].artifact].life = "used"]
    /\ storing' = Nobody /\ Finishes(q)
    /\ UNCHANGED <<workspace, line, past>>

-----------------------------------------------------------------------------

Handles(q) ==
    \/ Queues(q) \/ SavesCase(q) \/ LogsEvent(q) \/ SavesDocument(q)
    \/ ConflictFailsLine(q) \/ Erases(q)
    \/ Binds(q) \/ Rendered(q) \/ Adopts(q) \/ Adopted(q)

Asks(q) ==
    \/ \E c \in Cases :
          \/ \E mode \in {"real", "incognito"} : Create(q, c, mode)
          \/ \E target \in States : Transition(q, c, target)
          \/ \E d \in Documents :
                AsksApproval(q, c, d) \/ Propose(q, c, d) \/ Review(q, c, d) \/ Use(q, c, d) \/ Export(q, c, d)
          \/ Note(q, c) \/ Delete(q, c)
    \/ \E a \in Artifacts : Adopt(q, a)
    \/ Clear(q) \/ Retention(q)

WorkspaceNext ==
    \/ \E q \in Callers : Handles(q) \/ Asks(q)
    \/ DiskFails \/ Restart

WorkspaceSpec == WorkspaceInit /\ [][WorkspaceNext]_applications

-----------------------------------------------------------------------------

\* A case that has left review for approval, export or submission has a real
\* identity and is bound to a document that a review has approved - whatever
\* stale record a slower handler has saved meanwhile.
OnlyApprovedLeaves ==
    \A c \in Cases : cases[c].state \in Released =>
        cases[c].mode = "real" /\ cases[c].binding \in approvedOnce

\* A document that has been used stays as it was sent until the user or the
\* retention removes its case; no review that was on its way changes it.
UsedIsFinal ==
    [][\A d \in Documents : documents[d].life = "used" =>
          documents'[d].life \in {"used", "gone"}]_applications

\* The history of a case names the state the case is in, or the handler that
\* has saved it is about to write it; only a failed write or a restart between
\* the two loses it.
HistoryNamesState ==
    \A c \in Cases : cases[c].state \in unlogged[c] =>
        \E q \in Callers : At(q, "log") /\ call[q].case = c /\ call[q].to.state = cases[c].state

\* An agent artifact becomes one document, however often its adoption is tried
\* again after a failure - only the document of a deleted case that a slower
\* handler has saved again may stand beside the one a new adoption has made -
\* and a used artifact has become one, which may be gone with its case.
AdoptedOnce ==
    \A a \in Artifacts :
        /\ \A d, e \in MadeOf(a) \ restored : d = e
        /\ artifacts[a].life = "used" =>
              \E d \in Documents : documents[d] # NeverDocument /\ documents[d].source = a

\* What is stored of the applications is true, whichever handlers overlap and
\* whichever of their writes fail (the routes under /api/application-cases,
\* workspace-store.ts, agent-artifact-adoption.ts).
DocumentsAreTrue ==
    OnlyApprovedLeaves /\ HistoryNamesState /\ AdoptedOnce

=============================================================================
