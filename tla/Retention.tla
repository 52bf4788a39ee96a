------------------------------ MODULE Retention ------------------------------
(* The artifacts of agent runs and the deletion of ended runs with what       *)
(* belongs to them: records and content-addressed blobs                      *)
(* (agents/artifact-store.ts), legal holds, their journal and the cascade    *)
(* over artifacts, logs and runs (agents/retention.ts), and the routes of    *)
(* app.ts that call them.                                                    *)
(*                                                                           *)
(* The artifact store does one thing at a time (serialized()): "store" says  *)
(* which and how far it is. A deletion renames files into a staging          *)
(* directory, which is forgotten when the server stops.                      *)
EXTENDS Naturals, FiniteSets

CONSTANTS
    Runs,       \* runs of the store
    Artifacts,  \* artifacts that may be made
    Owner,      \* Owner[a]: the run that makes a
    Blob,       \* Blob[a]: the hash of its content
    CaseOf,     \* CaseOf[r]: the application case of run r
    Targets,    \* what a person may put under a legal hold
    Holds,      \* legal holds
    Decisions,  \* what a review may say
    Sweeps,     \* the deletions that are asked for, also at the same time
    Selection,  \* Selection[s]: the runs that deletion s is asked for
    MaxReleases,\* bound: releases of one hold that are in flight
    MaxFaults   \* bound: failing file operations and restarts

VARIABLES
    records,    \* the record of each artifact
    blobs,      \* the contents on disk
    store,      \* what the artifact store is doing
    runs,       \* the runs that have ended and are still there
    logs,       \* the runs whose raw logs exist
    holds,      \* the legal holds
    releasing,  \* releases of a hold that have looked and not yet written
    journal,    \* the journal of the holds: "readable" or "corrupt"
    sweeps,     \* where each deletion is
    torn,       \* a deletion of artifacts broke off where it cannot be undone
    faults

vars == <<records, blobs, store, runs, logs, holds, releasing, journal, sweeps, torn, faults>>
artifactVars == <<records, blobs, store>>
holdVars == <<holds, releasing>>

None == [life |-> "none"]
Gone == [life |-> "gone"]
There(a) == records[a] \notin {None, Gone}
Available(a) == There(a) /\ ~records[a].emptied
Free == [at |-> "free"]
Rest == [at |-> "idle"]
Over == [at |-> "over"]

Init ==
    /\ records = [a \in Artifacts |-> None] /\ blobs = {}
    /\ store = Free
    /\ runs = Runs /\ logs = Runs
    /\ holds \in [Holds -> {[state |-> "none"]} \cup {[state |-> "released", on |-> t] : t \in Targets}]
    /\ releasing = [h \in Holds |-> 0]
    /\ journal = "readable"
    /\ sweeps \in [Sweeps -> {Rest, Over}]
    /\ torn = FALSE /\ faults = 0

Readable == journal = "readable"
Fault == faults < MaxFaults /\ faults' = faults + 1

-----------------------------------------------------------------------------
(* Artifacts: created, reviewed, adopted *)

\* The content is written first; what is already there is the same content.
Create(a) ==
    /\ store = Free /\ records[a] = None /\ Owner[a] \in runs
    /\ store' = [at |-> "create", artifact |-> a]
    /\ blobs' = blobs \cup {Blob[a]}
    /\ UNCHANGED <<records, runs, logs, holdVars, journal, sweeps, torn, faults>>

Created ==
    /\ store.at = "create" /\ store' = Free
    /\ \/ /\ records' = [records EXCEPT ![store.artifact] = [life |-> "proposed", emptied |-> FALSE]]
          /\ UNCHANGED faults
       \/ Fault /\ UNCHANGED records
    /\ UNCHANGED <<blobs, runs, logs, holdVars, journal, sweeps, torn>>

Review(a, decision) ==
    /\ store = Free /\ records[a].life = "proposed" /\ Owner[a] \in runs
    /\ records' = [records EXCEPT ![a].life = decision]
    /\ UNCHANGED <<blobs, store, runs, logs, holdVars, journal, sweeps, torn, faults>>

\* adopt() holds the store while the document is imported.
Adopt(a) ==
    /\ store = Free /\ records[a].life = "approved" /\ Blob[a] \in blobs
    /\ Owner[a] \in runs
    /\ store' = [at |-> "adopt", artifact |-> a]
    /\ UNCHANGED <<records, blobs, runs, logs, holdVars, journal, sweeps, torn, faults>>

Adopted ==
    /\ store.at = "adopt" /\ store' = Free
    /\ \/ records' = [records EXCEPT ![store.artifact].life = "used"] /\ UNCHANGED faults
       \/ Fault /\ UNCHANGED records
    /\ UNCHANGED <<blobs, runs, logs, holdVars, journal, sweeps, torn>>

-----------------------------------------------------------------------------
(* Legal holds *)

CreateHold(h, target) ==
    /\ holds[h].state = "none" /\ Readable
    /\ holds' = [holds EXCEPT ![h] = [state |-> "active", on |-> target]]
    /\ UNCHANGED <<artifactVars, runs, logs, releasing, journal, sweeps, torn, faults>>

\* releaseHold() looks before it stands in line for the journal.
AsksRelease(h) ==
    /\ holds[h].state = "active" /\ Readable /\ releasing[h] < MaxReleases
    /\ releasing' = [releasing EXCEPT ![h] = @ + 1]
    /\ UNCHANGED <<artifactVars, runs, logs, holds, journal, sweeps, torn, faults>>

\* A second release of a hold is an entry that no reader accepts.
Releases(h) ==
    /\ releasing[h] > 0
    /\ releasing' = [releasing EXCEPT ![h] = @ - 1]
    /\ IF Readable
       THEN IF holds[h].state = "active"
            THEN holds' = [holds EXCEPT ![h].state = "released"] /\ UNCHANGED journal
            ELSE journal' = "corrupt" /\ UNCHANGED holds
       ELSE UNCHANGED <<holds, journal>>
    /\ UNCHANGED <<artifactVars, runs, logs, sweeps, torn, faults>>

Active == {h \in Holds : holds[h].state = "active"}
On(hs) == {holds[h].on : h \in hs}

-----------------------------------------------------------------------------
(* What a deletion would do *)

RunHeld(r, hs) == On(hs) \cap {r, CaseOf[r]} # {}

ArtifactHeld(a, hs) == RunHeld(Owner[a], hs) \/ a \in On(hs)

ArtifactsOf(rs) == {a \in Artifacts : There(a) /\ Owner[a] \in rs}

SharedBy(b, chosen) == {a \in Artifacts \ chosen : Available(a) /\ Blob[a] = b}

\* previewDeletion()
OfArtifacts(chosen) ==
    [records |-> [a \in chosen |-> records[a]],
     blobs |-> [b \in {Blob[a] : a \in {c \in chosen : Available(c)}} |-> SharedBy(b, chosen)]]

\* buildPreview(): its digest stands for all of this.
Preview(rs, hs) ==
    LET held == {a \in ArtifactsOf(rs) : ArtifactHeld(a, hs)} IN
    [runs |-> [r \in rs |-> [held |-> RunHeld(r, hs), logs |-> r \in logs]],
     held |-> held,
     effect |-> OfArtifacts(ArtifactsOf(rs) \ held)]

IsProtected(rs, preview) ==
    preview.held # {} \/ \E r \in rs : preview.runs[r].held

-----------------------------------------------------------------------------
(* The cascade: preview() and execute() of AgentRetentionCoordinator *)

Is(s, place) == sweeps[s].at = place
Moves(s, place) == sweeps' = [sweeps EXCEPT ![s].at = place]
Ends(s) == sweeps' = [sweeps EXCEPT ![s] = Over]
Known(rs) == rs \subseteq runs

\* A person has looked at a preview and confirms it.
Ask(s) ==
    LET rs == Selection[s] IN
    /\ Is(s, "idle") /\ Readable /\ Known(rs)
    /\ sweeps' = [sweeps EXCEPT ![s] =
                    [at |-> "confirm", runs |-> rs, preview |-> Preview(rs, Active)]]
    /\ UNCHANGED <<artifactVars, runs, logs, holdVars, journal, torn, faults>>

\* The preview is made anew and journaled, and has to be the confirmed one.
\* Then it is made once more, for execute(), and the holds are read first.
Confirms(s) ==
    LET w == sweeps[s] IN
    /\ Is(s, "confirm")
    /\ IF Readable /\ Known(w.runs) /\ Preview(w.runs, Active) = w.preview
       THEN sweeps' = [sweeps EXCEPT ![s] =
                         [at |-> "build", runs |-> w.runs, preview |-> w.preview,
                          holds |-> Active, done |-> {}]]
       ELSE Ends(s)
    /\ UNCHANGED <<artifactVars, runs, logs, holdVars, journal, torn, faults>>

Builds(s) ==
    LET w == sweeps[s] IN
    /\ Is(s, "build")
    /\ IF /\ Known(w.runs) /\ Preview(w.runs, w.holds) = w.preview
          /\ ~IsProtected(w.runs, w.preview)
       THEN Moves(s, "look") ELSE Ends(s)
    /\ UNCHANGED <<artifactVars, runs, logs, holdVars, journal, torn, faults>>

\* The artifacts are looked at once more: it is this that applyDeletion()
\* compares with, and not what the person has confirmed.
Chosen(s) == DOMAIN sweeps[s].preview.effect.records
Exist(as) == \A a \in as : There(a)

LooksAgain(s) ==
    /\ Is(s, "look")
    /\ IF Exist(Chosen(s)) /\ Known(sweeps[s].runs)
       THEN sweeps' = [sweeps EXCEPT ![s].preview.effect = OfArtifacts(Chosen(s)),
                                     ![s].at = IF Chosen(s) = {} THEN "logs" ELSE "apply"]
       ELSE Ends(s)
    /\ UNCHANGED <<artifactVars, runs, logs, holdVars, journal, torn, faults>>

\* applyDeletion() begins when the store is free and nothing has changed.
Applies(s) ==
    LET effect == sweeps[s].preview.effect IN
    /\ Is(s, "apply") /\ store = Free
    /\ IF Exist(Chosen(s)) /\ OfArtifacts(Chosen(s)) = effect
       THEN /\ store' = [at |-> "records", by |-> s,
                         left |-> {a \in Chosen(s) : ~records[a].emptied},
                         rewrite |-> {}, staged |-> {}, moved |-> {},
                         blobs |-> {b \in DOMAIN effect.blobs : effect.blobs[b] = {}}]
            /\ Moves(s, "deleting")
       ELSE Ends(s) /\ UNCHANGED store
    /\ UNCHANGED <<records, blobs, runs, logs, holdVars, journal, torn, faults>>

KeepsMetadata(r) == r.life = "used"

Of(a) == sweeps[store.by].preview.effect.records[a]

MovesRecord(a) ==
    /\ store.at = "records" /\ store.rewrite = {} /\ a \in store.left
    /\ \/ /\ records' = [records EXCEPT ![a] = Gone]
          /\ store' = [store EXCEPT !.left = @ \ {a}, !.staged = @ \cup {a},
                                    !.rewrite = IF KeepsMetadata(Of(a)) THEN {a} ELSE {}]
          /\ UNCHANGED faults
       \/ Fault /\ store' = [store EXCEPT !.at = "undo"] /\ UNCHANGED records
    /\ UNCHANGED <<blobs, runs, logs, holdVars, journal, sweeps, torn>>

\* The record of a used artifact is written again, without content.
RewritesRecord ==
    /\ store.at = "records" /\ store.rewrite # {}
    /\ \/ /\ records' = [a \in Artifacts |->
                           IF a \in store.rewrite THEN [Of(a) EXCEPT !.emptied = TRUE] ELSE records[a]]
          /\ store' = [store EXCEPT !.rewrite = {}] /\ UNCHANGED faults
       \/ Fault /\ store' = [store EXCEPT !.at = "undo"] /\ UNCHANGED records
    /\ UNCHANGED <<blobs, runs, logs, holdVars, journal, sweeps, torn>>

MovesBlob(b) ==
    /\ store.at = "records" /\ store.left = {} /\ store.rewrite = {} /\ b \in store.blobs
    /\ \/ /\ blobs' = blobs \ {b}
          /\ store' = [store EXCEPT !.blobs = @ \ {b}, !.moved = @ \cup {b}]
          /\ UNCHANGED faults
       \/ Fault /\ store' = [store EXCEPT !.at = "undo"] /\ UNCHANGED blobs
    /\ UNCHANGED <<records, runs, logs, holdVars, journal, sweeps, torn>>

\* The staging directory is removed; when that fails part of it may be gone.
RemovesStage ==
    /\ store.at = "records" /\ store.left = {} /\ store.rewrite = {} /\ store.blobs = {}
    /\ \/ store' = Free /\ Moves(store.by, "logs") /\ UNCHANGED <<torn, faults>>
       \/ /\ Fault
          /\ \E a \in SUBSET store.staged, b \in SUBSET store.moved :
               /\ store' = [store EXCEPT !.at = "undo", !.staged = a, !.moved = b]
               /\ torn' = (torn \/ a # store.staged \/ b # store.moved)
          /\ UNCHANGED sweeps
    /\ UNCHANGED <<records, blobs, runs, logs, holdVars, journal>>

\* The records go back before the contents do.
UndoesRecord(a) ==
    /\ store.at = "undo" /\ a \in store.staged
    /\ records' = [records EXCEPT ![a] = Of(a)]
    /\ store' = [store EXCEPT !.staged = @ \ {a}]
    /\ UNCHANGED <<blobs, runs, logs, holdVars, journal, sweeps, torn, faults>>

\* What has failed may go on failing: what does not go back stays where it is.
CannotUndo ==
    /\ store.at = "undo"
    /\ torn' = TRUE /\ store' = Free /\ Ends(store.by)
    /\ UNCHANGED <<records, blobs, runs, logs, holdVars, journal, faults>>

Undone ==
    /\ store.at = "undo" /\ store.staged = {}
    /\ blobs' = blobs \cup store.moved
    /\ store' = Free /\ Ends(store.by)
    /\ UNCHANGED <<records, runs, logs, holdVars, journal, torn, faults>>

\* The raw logs have to be those of the preview.
DeletesLogs(s, r) ==
    LET w == sweeps[s] IN
    /\ Is(s, "logs") /\ r \in w.runs \ w.done
    /\ IF (r \in logs) = w.preview.runs[r].logs
       THEN \/ /\ logs' = logs \ {r} /\ UNCHANGED faults
               /\ sweeps' = [sweeps EXCEPT ![s].done = @ \cup {r}]
            \/ Fault /\ Ends(s) /\ UNCHANGED logs
       ELSE Ends(s) /\ UNCHANGED <<logs, faults>>
    /\ UNCHANGED <<artifactVars, runs, holdVars, journal, torn>>

LogsGone(w) == w.done = w.runs

\* deleteRuns(): all of them are looked at before the first is removed.
DeletesRuns(s) ==
    LET rs == sweeps[s].runs IN
    /\ Is(s, "logs") /\ LogsGone(sweeps[s])
    /\ IF Known(rs)
       THEN \/ /\ runs' = runs \ rs
               /\ Moves(s, "audit") /\ UNCHANGED faults
            \/ /\ Fault
               /\ \E left \in SUBSET rs : runs' = (runs \ rs) \cup left
               /\ Ends(s)
       ELSE Ends(s) /\ UNCHANGED <<runs, faults>>
    /\ UNCHANGED <<artifactVars, logs, holdVars, journal, torn>>

\* What cannot be journaled as executed is journaled as failed, if that can.
Audits(s) ==
    /\ Is(s, "audit") /\ Ends(s)
    /\ UNCHANGED <<artifactVars, runs, logs, holdVars, journal, torn, faults>>

\* The server stops: a line of the journal may be cut short.
Restart ==
    /\ Fault
    /\ store' = Free /\ sweeps' = [s \in Sweeps |-> IF Is(s, "idle") THEN Rest ELSE Over]
    /\ releasing' = [h \in Holds |-> 0]
    /\ torn' = (torn \/ store.at = "undo")
    /\ \/ UNCHANGED journal
       \/ journal' = "corrupt"
    /\ UNCHANGED <<records, blobs, runs, logs, holds>>

Next ==
    \/ \E a \in Artifacts :
         \/ Create(a) \/ \E d \in Decisions : Review(a, d)
         \/ Adopt(a) \/ MovesRecord(a) \/ UndoesRecord(a)
    \/ Created \/ Adopted \/ RewritesRecord \/ RemovesStage \/ CannotUndo \/ Undone
    \/ \E b \in blobs : MovesBlob(b)
    \/ \E h \in Holds :
         \/ \E t \in Targets : CreateHold(h, t)
         \/ AsksRelease(h) \/ Releases(h)
    \/ \E s \in Sweeps :
         \/ Ask(s) \/ Confirms(s) \/ Builds(s) \/ LooksAgain(s) \/ Applies(s)
         \/ \E r \in Runs : DeletesLogs(s, r)
         \/ DeletesRuns(s) \/ Audits(s)
    \/ Restart

Spec == Init /\ [][Next]_vars

-----------------------------------------------------------------------------

\* What is not marked as deleted can be read: an artifact keeps its content
\* while another with the same content is deleted, reviewed or created, unless a
\* deletion broke off in the middle.
ContentOfRecords ==
    \A a \in Artifacts : Available(a) /\ store.at # "undo" /\ ~torn => Blob[a] \in blobs

\* The store still has to put the record of a used artifact back: it writes it
\* again without content, or undoes the deletion.
OnItsWay(a) ==
    \/ store.at = "records" /\ a \in store.rewrite
    \/ store.at = "undo" /\ a \in store.staged /\ Of(a).life = "used"

Remembered(a) == records[a].life = "used" \/ OnItsWay(a)

\* Moved away and not yet written again: only a stop of the server ends that so.
StopsHalfway(a) == store.at = "records" /\ a \in store.rewrite /\ store' = Free

\* The record of an artifact that went into an application stays, with or
\* without its content, whatever is deleted, reviewed or adopted meanwhile: a
\* deletion that has moved it away writes it again or puts it back before the
\* store is free. The one exception the code leaves is a stop of the server
\* between the rename and the writing (artifact-store.ts:373, 378).
UsedIsRemembered ==
    [][\A a \in Artifacts :
         Remembered(a) /\ ~torn' => Remembered(a)' \/ StopsHalfway(a)]_vars

\* What was under a legal hold when a deletion read the holds, and still is, is
\* not deleted by it: no run, no log, no record and no content.
HeldIsKept ==
    [][\A s \in Sweeps : "holds" \in DOMAIN sweeps[s] =>
         LET on == On(sweeps[s].holds \cap Active) IN
         /\ store.at = "records" /\ store.by = s =>
              \A a \in Artifacts : on \cap {a, Owner[a], CaseOf[Owner[a]]} # {} =>
                /\ records'[a] = records[a]
                /\ Available(a) /\ Blob[a] \in blobs => Blob[a] \in blobs'
         /\ sweeps'[s] # sweeps[s] =>
              \A r \in sweeps[s].runs : on \cap {r, CaseOf[r]} # {} =>
                (r \in runs => r \in runs') /\ (r \in logs => r \in logs')]_vars

\* A run goes last: nothing of it that the deletion has found is left by then,
\* so that what is left can still be found and deleted when it breaks off.
RunGoesLast ==
    [][\A s \in Sweeps : Is(s, "logs") /\ runs' # runs /\ sweeps'[s] # sweeps[s] =>
         /\ sweeps[s].runs \cap logs = {}
         /\ \A a \in Chosen(s) : ~Available(a)]_vars

=============================================================================
