--------------------------- MODULE CvStructuring ---------------------------
(***************************************************************************)
(* CvAiStructuringService of src/server/src/services/cv-ai-structuring.ts: *)
(* an agent run reads a CV, its answer is validated and either staged into *)
(* the import after the user selected from it (review_suggestions) or added*)
(* to it as a version (replace_with_ai_version).  The record of a run is   *)
(* saved by comparison; the import is the record of CvImports, reduced to  *)
(* its revision and to the runs it holds facts of.                         *)
(*                                                                         *)
(* The processes are the callers, one refresh per run (refreshSingleflight)*)
(* and the retention sweep.  They interleave at the awaits; operations on  *)
(* the import are serialised by withImportOperation().                     *)
(***************************************************************************)
EXTENDS Integers, FiniteSets

CONSTANTS
    Runs,           \* the run records that are ever created
    Users,          \* the callers of start and apply
    Removers,       \* the callers of cancel and of both deletions
    MaxAttempts,    \* MAX_RETENTION_CANCEL_ATTEMPTS
    MaxRevision,    \* bound: revisions of the import
    MaxFaults       \* bound: failing calls and restarts

Sweep == "sweep"
Nobody == "nobody"
Clients == Users \cup Removers
Processes == Clients \cup Runs \cup {Sweep}

VARIABLES
    import,         \* the import: status, revision, runs it holds facts of
    record,         \* the stored record of each run
    agent,          \* its agent run
    call,           \* where each process is, and the record it works with
    queue,          \* who is inside withImportOperation()
    deleting,       \* the import is in deletingImports
    untracked,      \* history: agent runs whose record was lost or dropped
    faults

vars == <<import, record, agent, call, queue, deleting, untracked, faults>>

Modes == {"review_suggestions", "replace_with_ai_version"}
Active == {"queued", "running", "validating", "applying", "cancel_requested"}
Cancellable == Active \ {"applying"}
Terminal == {"succeeded", "failed", "cancelled"}
Erased == {"none", "purged"}

Absent == [status |-> "absent"]
Idle == [at |-> "idle"]
NewRecord(mode) ==
    [status |-> "queued", mode |-> mode, binding |-> import.revision,
     intent |-> 0, has |-> {}, cleanup |-> 0]

Init ==
    /\ import = [status |-> "open", revision |-> 1, holds |-> {}]
    /\ record = [r \in Runs |-> Absent]
    /\ agent = [r \in Runs |-> "none"]
    /\ call = [p \in Processes |-> Idle]
    /\ queue = Nobody /\ deleting = FALSE /\ untracked = {} /\ faults = 0

-----------------------------------------------------------------------------
(* Records *)

\* The rules of assertRecord() on what a status goes with; a record that
\* breaks them can be neither saved nor read.
Sealed(n) ==
    /\ n.cleanup > 0 => n.status = "cancel_requested" /\ n.cleanup <= MaxAttempts
    /\ n.status \in Cancellable \cup {"cancelled"} => n.has \cap {"proposal", "result"} = {}
    /\ n.status \in {"suggestions_ready", "applying"} => n.has = {"proposal"}
    /\ n.status = "applied" => n.has = {"proposal", "result"}
    /\ (n.status = "applying") = (n.intent > 0)
    /\ (n.status = "failed") = ("failure" \in n.has)

ReplaceReady(n) == n.status = "suggestions_ready" /\ n.mode = "replace_with_ai_version"
NeedsRecovery(n) == n.status \in Active \/ ReplaceReady(n)

Becomes(n, status) == [n EXCEPT !.status = status]

\* What the handlers save: the patches of save() and fail().
Successor(to, n) ==
    CASE to = "failed" -> [n EXCEPT !.status = to, !.has = @ \cup {"failure"}, !.cleanup = 0]
      [] to = "cancelled" -> [n EXCEPT !.status = to, !.cleanup = 0]
      [] to = "not applied" -> [n EXCEPT !.status = "failed", !.has = @ \cup {"failure"}, !.intent = 0]
      [] to = "applied" -> [n EXCEPT !.status = to, !.has = @ \cup {"result"}, !.intent = 0]
      [] to = "suggestions_ready" -> [n EXCEPT !.status = to, !.has = @ \cup {"proposal"}]
      [] to = "retained" -> [n EXCEPT !.status = "cancel_requested", !.cleanup = @ + 1]
      [] OTHER -> Becomes(n, to)

\* compareAndSave()
Saves(r, old, new) == record[r] = old /\ Sealed(new)

-----------------------------------------------------------------------------
(* Processes *)

At(p, at) == call[p].at = at
Goes(p, at, r, n) == call' = [call EXCEPT ![p] = [at |-> at, run |-> r, rec |-> n]]

\* The handler answers or throws; an operation on the import is over.
Ends(p) ==
    /\ call' = [call EXCEPT ![p] = Idle]
    /\ queue' = IF queue = p THEN Nobody ELSE queue
Enters(p) == queue = Nobody /\ queue' = p
Faulty == faults < MaxFaults /\ faults' = faults + 1

\* The last step of a handler: its save, refused if the record has changed.
LastSaves == {"failed", "cancelled", "running", "applied", "not applied", "cancel_requested", "retained"}
SavesAndEnds(p) ==
    /\ call[p].at \in LastSaves
    /\ LET r == call[p].run
           new == Successor(call[p].at, call[p].rec)
       IN  record' = IF Saves(r, call[p].rec, new) THEN [record EXCEPT ![r] = new] ELSE record
    /\ Ends(p)
    /\ UNCHANGED <<import, agent, deleting, untracked, faults>>

\* agentRuns.cancel(): a run that can still be stopped is stopped, at once or
\* when its process has ended.
CancelOf(r) == IF agent[r] \in {"active", "asking", "cancelling"}
               THEN {"cancelling", "cancelled"} ELSE {agent[r]}

\* purgeRawRun(): only a run that has ended and is still there is deleted.
Purges(r) == agent[r] \in Terminal /\ agent' = [agent EXCEPT ![r] = "purged"] /\ UNCHANGED faults
PurgeFails(r) ==
    /\ UNCHANGED agent
    /\ IF agent[r] \in Terminal THEN Faulty ELSE UNCHANGED faults

-----------------------------------------------------------------------------
(* start() and retry() *)

\* The checks of startInternalExclusive() up to its first await.
Begins(c, r, mode) ==
    /\ At(c, "idle") /\ Enters(c)
    /\ record[r] = Absent /\ agent[r] = "none"
    /\ ~deleting /\ import.status = "open"
    /\ \A q \in Runs : ~(record[q] # Absent /\ ReplaceReady(record[q]))
    /\ Goes(c, "enqueueing", r, NewRecord(mode))
    /\ UNCHANGED <<import, record, agent, deleting, untracked, faults>>

\* retry() starts once more, with a new record, what has failed or was cancelled.
Start(c) == \E r \in Runs, mode \in Modes : Begins(c, r, mode)

Enqueues(c) ==
    /\ At(c, "enqueueing")
    /\ IF deleting
       THEN Ends(c) /\ UNCHANGED <<agent, faults>>
       ELSE \/ /\ agent' = [agent EXCEPT ![call[c].run] = "active"]
               /\ Goes(c, "creating", call[c].run, call[c].rec)
               /\ UNCHANGED <<queue, faults>>
            \/ Faulty /\ Ends(c) /\ UNCHANGED agent
    /\ UNCHANGED <<import, record, deleting, untracked>>

Creates(c) ==
    /\ At(c, "creating")
    /\ LET r == call[c].run
       IN  \/ /\ ~deleting
              /\ record' = [record EXCEPT ![r] = call[c].rec]
              /\ Goes(c, "created", r, call[c].rec)
              /\ UNCHANGED faults
           \/ /\ IF deleting THEN UNCHANGED faults ELSE Faulty
              /\ Goes(c, "discarding", r, call[c].rec)
              /\ UNCHANGED record
    /\ UNCHANGED <<import, agent, queue, deleting, untracked>>

\* cleanupUntrackedAgentRun(): cancelled, waited for and deleted, or not.
CleansUp(r) == agent[r] \notin Erased /\ agent' = [agent EXCEPT ![r] = "purged"] /\ UNCHANGED faults
CleanUpFails(r) ==
    IF agent[r] \in Erased THEN UNCHANGED <<agent, faults>>
    ELSE Faulty /\ \E a \in CancelOf(r) : agent' = [agent EXCEPT ![r] = a]

\* The agent run of a record that is not to be is removed; if that fails the
\* record is kept so that somebody can, and if that fails too it is left behind.
Discards(c) ==
    /\ At(c, "discarding")
    /\ LET r == call[c].run
       IN  \/ CleansUp(r) /\ UNCHANGED <<record, untracked>>
          \/ /\ CleanUpFails(r)
             /\ \/ record' = [record EXCEPT ![r] = call[c].rec] /\ UNCHANGED untracked
                \/ untracked' = untracked \cup {r} /\ UNCHANGED record
    /\ Ends(c)
    /\ UNCHANGED <<import, deleting>>

\* The import is deleted while the new run was being stored.
Created(c) ==
    /\ At(c, "created")
    /\ LET r == call[c].run
       IN  IF ~deleting
           THEN UNCHANGED <<record, agent, faults>>
           ELSE \/ CleansUp(r) /\ record' = [record EXCEPT ![r] = Absent]
                \/ CleanUpFails(r) /\ UNCHANGED record
    /\ Ends(c)
    /\ UNCHANGED <<import, deleting, untracked>>

-----------------------------------------------------------------------------
(* refresh() *)

RefreshReads(r) ==
    /\ At(r, "idle") /\ NeedsRecovery(record[r])
    /\ Goes(r, CASE record[r].status = "applying" -> "awaiting apply"
                 [] ReplaceReady(record[r]) -> "awaiting version"
                 [] OTHER -> "looking", r, record[r])
    /\ UNCHANGED <<import, record, agent, queue, deleting, untracked, faults>>

\* The agent run is deleted before the record says that the run is over; if it
\* cannot be deleted the record stays as it is, for the next refresh.
PurgeThen(r, to) ==
    \/ Purges(r) /\ Goes(r, to, r, call[r].rec) /\ UNCHANGED queue
    \/ PurgeFails(r) /\ Ends(r)
PurgeIfThereThen(r, to) ==
    IF agent[r] \in Erased
    THEN Goes(r, to, r, call[r].rec) /\ UNCHANGED <<agent, queue, faults>>
    ELSE PurgeThen(r, to)
Proceeds(r, to) == Goes(r, to, r, call[r].rec) /\ UNCHANGED <<agent, queue, faults>>

\* What the state of the agent run makes of a run that is not over.
Looks(r) ==
    /\ At(r, "looking")
    /\ LET requested == call[r].rec.status = "cancel_requested"
       IN  CASE agent[r] \in Erased -> Proceeds(r, "failed")
             [] requested /\ agent[r] \in Terminal -> PurgeThen(r, "cancelled")
             [] ~requested /\ agent[r] = "asking" -> Proceeds(r, "quarantining")
             [] ~requested /\ agent[r] = "cancelled" -> PurgeThen(r, "cancelled")
             [] ~requested /\ agent[r] = "failed" -> PurgeThen(r, "failed")
             [] ~requested /\ agent[r] = "succeeded" ->
                  Proceeds(r, "quarantining") \/ Proceeds(r, "completing")
             [] call[r].rec.status = "queued" /\ agent[r] \in {"active", "cancelling"} ->
                  Proceeds(r, "running") \/ (Ends(r) /\ UNCHANGED <<agent, faults>>)
             [] OTHER -> Ends(r) /\ UNCHANGED <<agent, faults>>
    /\ UNCHANGED <<import, record, deleting, untracked>>

\* quarantineAgentRun()
Quarantines(r) ==
    /\ At(r, "quarantining")
    /\ \/ agent[r] \in Terminal \cup Erased /\ PurgeIfThereThen(r, "failed")
       \/ /\ agent[r] \notin Terminal \cup Erased
          /\ \E a \in CancelOf(r) : agent' = [agent EXCEPT ![r] = a]
          /\ IF agent'[r] \in Terminal THEN UNCHANGED <<call, queue>> ELSE Ends(r)
          /\ UNCHANGED faults
    /\ UNCHANGED <<import, record, deleting, untracked>>

\* The provider has answered; the record says so before the answer is read.
Completes(r) ==
    /\ At(r, "completing")
    /\ LET rec == call[r].rec
           new == Becomes(rec, "validating")
       IN  IF rec = new \/ Saves(r, rec, new)
           THEN Goes(r, "validating", r, new) /\ record' = [record EXCEPT ![r] = IF rec = new THEN @ ELSE new]
                /\ UNCHANGED queue
           ELSE Ends(r) /\ UNCHANGED record
    /\ UNCHANGED <<import, agent, deleting, untracked, faults>>

\* The answer is a valid proposal for the import as it was, or it is not.
Validates(r) ==
    /\ At(r, "validating")
    /\ \/ Proceeds(r, "invalid")
       \/ import.status = "open" /\ Proceeds(r, "valid")
    /\ UNCHANGED <<import, record, deleting, untracked>>

Invalid(r) ==
    /\ At(r, "invalid") /\ PurgeThen(r, "failed")
    /\ UNCHANGED <<import, record, deleting, untracked>>

SavesProposal(r) ==
    /\ At(r, "valid")
    /\ LET rec == call[r].rec
           new == Successor("suggestions_ready", rec)
       IN  IF Saves(r, rec, new)
           THEN /\ record' = [record EXCEPT ![r] = new]
                /\ Goes(r, IF ReplaceReady(new) THEN "awaiting version" ELSE "erasing", r,
                        IF ReplaceReady(new) THEN new ELSE rec)
           ELSE Goes(r, "invalid", r, rec) /\ UNCHANGED record
    /\ UNCHANGED <<import, agent, queue, deleting, untracked, faults>>

\* The suggestions are stored, their agent run is deleted; the handler of a
\* failure tries again, and then to fail a record that is no longer current.
Erases(r) ==
    /\ At(r, "erasing")
    /\ \/ Purges(r) /\ Ends(r)
       \/ PurgeFails(r) /\ Goes(r, "invalid", r, call[r].rec) /\ UNCHANGED queue
    /\ UNCHANGED <<import, record, deleting, untracked>>

-----------------------------------------------------------------------------
(* completeRecognitionVersion() and completeApply(), on the import's queue *)

EntersQueue(r) ==
    /\ Enters(r)
    /\ \/ At(r, "awaiting apply") /\ Goes(r, "apply", r, call[r].rec)
       \/ At(r, "awaiting version") /\ Goes(r, "version", r, call[r].rec)
    /\ UNCHANGED <<import, record, agent, deleting, untracked, faults>>

Materializes(r) ==
    /\ At(r, "version")
    /\ \/ import.status = "open" /\ Goes(r, "materialized", r, call[r].rec) /\ UNCHANGED faults
       \/ /\ IF import.status = "open" THEN Faulty ELSE UNCHANGED faults
          /\ Goes(r, "unversioned", r, call[r].rec)
    /\ UNCHANGED <<import, record, agent, queue, deleting, untracked>>

\* The import takes in the facts of run r, if it is the one that was checked.
Takes(r, revision) ==
    /\ import.status = "open" /\ import.revision = revision
    /\ import' = [import EXCEPT !.revision = @ + 1, !.holds = @ \cup {r}]

\* createAiRecognitionVersion(): the version of a run that has one is returned.
AddsVersion(r) ==
    /\ At(r, "materialized")
    /\ \/ r \in import.holds /\ UNCHANGED import /\ Goes(r, "versioned", r, call[r].rec)
       \/ r \notin import.holds /\ Takes(r, call[r].rec.binding) /\ Goes(r, "versioned", r, call[r].rec)
       \/ /\ r \notin import.holds
          /\ ~(import.status = "open" /\ import.revision = call[r].rec.binding)
          /\ UNCHANGED import /\ Goes(r, "unversioned", r, call[r].rec)
    /\ UNCHANGED <<record, agent, queue, deleting, untracked, faults>>

EndsVersion(r) ==
    /\ \/ At(r, "versioned") /\ PurgeIfThereThen(r, "applied")
       \/ At(r, "unversioned") /\ PurgeIfThereThen(r, "failed")
    /\ UNCHANGED <<import, record, deleting, untracked>>

Applies(p) ==
    /\ At(p, "apply")
    /\ LET n == call[p].rec
       IN  Goes(p, CASE call[p].run \in import.holds -> "applied"
                     [] ~deleting /\ import.status = "open" /\ import.revision = n.intent -> "merging"
                     [] OTHER -> "not applied", call[p].run, n)
    /\ UNCHANGED <<import, record, agent, queue, deleting, untracked, faults>>

\* Mutant: a staging that was refused is taken for done.
StagesBlindly(p) ==
    /\ At(p, "merging")
    /\ LET r == call[p].run
           n == call[p].rec
       IN  Goes(p, "applied", r, n) /\ (Takes(r, n.intent) \/ UNCHANGED import)
    /\ UNCHANGED <<record, agent, queue, deleting, untracked, faults>>

\* stageAiStructure(), after the script has merged the selected suggestions.
Stages(p) ==
    /\ At(p, "merging")
    /\ LET r == call[p].run
           n == call[p].rec
       IN  \/ Takes(r, n.intent) /\ Goes(p, "applied", r, n) /\ UNCHANGED faults
          \/ /\ IF import.status = "open" /\ import.revision = n.intent THEN Faulty ELSE UNCHANGED faults
             /\ Goes(p, "not applied", r, n) /\ UNCHANGED import
    /\ UNCHANGED <<record, agent, queue, deleting, untracked>>

-----------------------------------------------------------------------------
(* apply(), cancel(), deleteRun() *)

\* applyExclusive() up to the completion; the intent names the import it saw.
Apply(c) ==
    \E r \in Runs :
        /\ At(c, "idle") /\ Enters(c) /\ ~deleting /\ import.status = "open"
        /\ record[r].status = "suggestions_ready" /\ ~ReplaceReady(record[r])
        /\ LET new == [record[r] EXCEPT !.status = "applying", !.intent = import.revision]
           IN  record' = [record EXCEPT ![r] = new] /\ Goes(c, "apply", r, new)
        /\ UNCHANGED <<import, agent, deleting, untracked, faults>>

Cancel(c) ==
    \E r \in Runs :
        /\ At(c, "idle") /\ record[r].status \in Cancellable
        /\ \E a \in CancelOf(r) : agent' = [agent EXCEPT ![r] = a]
        /\ IF record[r].status = "cancel_requested" THEN UNCHANGED call
           ELSE Goes(c, "cancel_requested", r, record[r])
        /\ UNCHANGED <<import, record, queue, deleting, untracked, faults>>

\* deleteRun(): neither the cancellation nor the deletion of the agent run has
\* to succeed.
DeleteRun(c) ==
    \E r \in Runs :
        /\ At(c, "idle") /\ record[r] # Absent
        /\ \/ /\ record[r].status \in Cancellable
              /\ \E a \in CancelOf(r) : agent' = [agent EXCEPT ![r] = a]
              /\ UNCHANGED faults
           \/ /\ UNCHANGED agent
              /\ IF record[r].status \in Cancellable THEN Faulty ELSE UNCHANGED faults
        /\ Goes(c, "discarded", r, record[r])
        /\ UNCHANGED <<import, record, queue, deleting, untracked>>

ErasesDiscarded(c) ==
    /\ At(c, "discarded")
    /\ Purges(call[c].run) \/ PurgeFails(call[c].run)
    /\ Goes(c, "dropping", call[c].run, call[c].rec)
    /\ UNCHANGED <<import, record, queue, deleting, untracked>>

\* compareAndDelete(), of deleteRun() and of the sweep.
Drops(p) ==
    /\ At(p, "dropping")
    /\ LET r == call[p].run
       IN  IF record[r] = call[p].rec
           THEN /\ record' = [record EXCEPT ![r] = Absent]
                /\ untracked' = untracked \cup (IF agent[r] \in Erased THEN {} ELSE {r})
           ELSE UNCHANGED <<record, untracked>>
    /\ Ends(p)
    /\ UNCHANGED <<import, agent, deleting, faults>>

-----------------------------------------------------------------------------
(* expireAndPrune() *)

\* A record whose apply or version is not settled is refreshed first, and left
\* alone while it is not.
SweepReads ==
    \E r \in Runs :
        /\ At(Sweep, "idle") /\ record[r] # Absent
        /\ record[r].status # "applying" /\ ~ReplaceReady(record[r])
        /\ Goes(Sweep, "expired", r, record[r])
        /\ UNCHANGED <<import, record, agent, queue, deleting, untracked, faults>>

Prunes ==
    /\ At(Sweep, "expired")
    /\ LET r == call[Sweep].run
           rec == call[Sweep].rec
       IN  CASE agent[r] \in Erased ->
                  Goes(Sweep, "dropping", r, rec) /\ UNCHANGED <<agent, queue, faults>>
             [] agent[r] \in Terminal ->
                  \/ Purges(r) /\ Goes(Sweep, "dropping", r, rec) /\ UNCHANGED queue
                  \/ PurgeFails(r) /\ Ends(Sweep)
             [] OTHER ->
                  \/ /\ NeedsRecovery(rec) => rec.cleanup < MaxAttempts
                     /\ IF rec.status = "cancel_requested" /\ rec.cleanup = 0 THEN UNCHANGED agent
                        ELSE \E a \in CancelOf(r) : agent' = [agent EXCEPT ![r] = a]
                     /\ IF NeedsRecovery(rec)
                        THEN Goes(Sweep, "retained", r, rec) /\ UNCHANGED queue
                        ELSE Ends(Sweep)
                     /\ UNCHANGED faults
                  \/ Ends(Sweep) /\ UNCHANGED <<agent, faults>>
    /\ UNCHANGED <<import, record, deleting, untracked>>

-----------------------------------------------------------------------------
(* DELETE of the import: deleteForImport() and then the record itself *)

Delete(c) ==
    /\ At(c, "idle") /\ import.status # "deleted"
    /\ Goes(c, "awaiting deletion", Nobody, import.revision)
    /\ deleting' = TRUE
    /\ UNCHANGED <<import, record, agent, queue, untracked, faults>>

DeletesNext(c) ==
    /\ At(c, "awaiting deletion") /\ Enters(c)
    /\ Goes(c, "settling", {r \in Runs : record[r] # Absent}, call[c].rec)
    /\ UNCHANGED <<import, record, agent, deleting, untracked, faults>>

\* completeApply() for every run that is applying: nothing is staged any more.
Settles(c) ==
    /\ At(c, "settling")
    /\ record' = [r \in Runs |->
            IF r \in call[c].run /\ record[r].status = "applying"
            THEN Successor(IF r \in import.holds THEN "applied" ELSE "not applied", record[r])
            ELSE record[r]]
    /\ Goes(c, "clearing", call[c].run, call[c].rec)
    /\ UNCHANGED <<import, agent, queue, deleting, untracked, faults>>

\* A run that does not end in time makes the whole deletion fail.
ClearsRun(c, r) ==
    \/ Purges(r) /\ UNCHANGED <<call, queue>>
    \/ agent[r] \in Terminal /\ PurgeFails(r) /\ Ends(c)
    \/ /\ agent[r] \notin Terminal \cup Erased
       /\ \E a \in CancelOf(r) : agent' = [agent EXCEPT ![r] = a]
       /\ UNCHANGED <<call, queue>> \/ Ends(c)
       /\ UNCHANGED faults

Clears(c) ==
    /\ At(c, "clearing")
    /\ \E r \in call[c].run : agent[r] \notin Erased /\ ClearsRun(c, r)
    /\ UNCHANGED <<import, record, deleting, untracked>>

\* The records go last; a run created meanwhile is not among them.
DropsAll(c) ==
    /\ At(c, "clearing") /\ \A r \in call[c].run : agent[r] \in Erased
    /\ record' = [r \in Runs |-> IF r \in call[c].run THEN Absent ELSE record[r]]
    /\ call' = [call EXCEPT ![c] = [at |-> "removing", run |-> Nobody, rec |-> @.rec]]
    /\ queue' = Nobody
    /\ UNCHANGED <<import, agent, deleting, untracked, faults>>

Removes(c) ==
    /\ At(c, "removing")
    /\ IF import.revision = call[c].rec /\ import.status # "deleted"
       THEN import' = [import EXCEPT !.status = "deleted", !.holds = {}]
       ELSE UNCHANGED import
    /\ Ends(c)
    /\ UNCHANGED <<record, agent, deleting, untracked, faults>>

-----------------------------------------------------------------------------
(* What is around the service *)

\* The user works on the import or takes it over into the profile.
ImportChanges ==
    /\ import.status = "open" /\ import.revision < MaxRevision
    /\ \E s \in {"open", "adopted"} : import' = [import EXCEPT !.revision = @ + 1, !.status = s]
    /\ UNCHANGED <<record, agent, call, queue, deleting, untracked, faults>>

AgentMoves(r) ==
    /\ \/ agent[r] = "active" /\ \E a \in {"succeeded", "failed", "asking"} : agent' = [agent EXCEPT ![r] = a]
       \/ agent[r] = "cancelling" /\ agent' = [agent EXCEPT ![r] = "cancelled"]
    /\ UNCHANGED <<import, record, call, queue, deleting, untracked, faults>>

\* The process ends: what was in memory is gone, the agent run that had no
\* record yet stays behind.
Restart ==
    /\ Faulty
    /\ call' = [p \in Processes |-> Idle]
    /\ queue' = Nobody /\ deleting' = FALSE
    /\ untracked' = untracked \cup
            {call[c].run : c \in {x \in Clients : call[x].at \in {"creating", "discarding"}}}
    /\ UNCHANGED <<import, record, agent>>

Refresh(r) ==
    \/ RefreshReads(r) \/ Looks(r) \/ Quarantines(r) \/ Completes(r) \/ Validates(r)
    \/ Invalid(r) \/ SavesProposal(r) \/ Erases(r) \/ Materializes(r) \/ AddsVersion(r)
    \/ EndsVersion(r) \/ Applies(r) \/ Stages(r) \/ SavesAndEnds(r)

Handles(c) ==
    \/ Enqueues(c) \/ Creates(c) \/ Discards(c) \/ Created(c) \/ Applies(c) \/ Stages(c)
    \/ SavesAndEnds(c) \/ ErasesDiscarded(c) \/ Drops(c) \/ Settles(c) \/ Clears(c)
    \/ DropsAll(c) \/ Removes(c)

Next ==
    \/ \E c \in Users : Start(c) \/ Apply(c)
    \/ \E c \in Removers : Cancel(c) \/ DeleteRun(c) \/ Delete(c) \/ DeletesNext(c)
    \/ \E c \in Clients : Handles(c)
    \/ \E r \in Runs : Refresh(r) \/ EntersQueue(r) \/ AgentMoves(r)
    \/ SweepReads \/ Prunes \/ Drops(Sweep) \/ SavesAndEnds(Sweep)
    \/ ImportChanges \/ Restart

Spec == Init /\ [][Next]_vars

-----------------------------------------------------------------------------
(* Properties *)

\* A run whose record says "applied" has its facts in the import, and a run that
\* was cancelled has left nothing of the CV with the agent.
AppliedMeansHeld ==
    \A r \in Runs :
        /\ record[r].status = "applied" /\ import.status # "deleted" => r \in import.holds
        /\ record[r].status = "cancelled" => agent[r] \in Erased

\* When the import is deleted no record and no agent run of it is left, apart
\* from the agent runs whose record was lost before.
NothingLeft ==
    import.status = "deleted" =>
        \A r \in Runs : record[r] = Absent /\ (agent[r] \in Erased \/ r \in untracked)

\* A run that was applied, failed or was cancelled stays so until its record is
\* deleted, whatever an earlier refresh, sweep or call still has in its hands.
OverStaysOver ==
    [][\A r \in Runs :
        record[r].status \in {"applied", "failed", "cancelled"} =>
            record'[r] \in {record[r], Absent}]_vars

\* Whoever gets to the last save of a run has a record in hand that can be saved:
\* one that broke the rules of assertRecord() could be neither saved nor read, and
\* the run would never end.
EndsCanBeSaved ==
    \A p \in Processes : call[p].at \in LastSaves => Sealed(Successor(call[p].at, call[p].rec))

=============================================================================
