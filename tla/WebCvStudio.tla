----------------------------- MODULE WebCvStudio -----------------------------
(***************************************************************************)
(* The CV studio of the web client (src/web/src/app/app.ts) and the        *)
(* routes of src/server/src/app.ts it calls.                               *)
(*                                                                         *)
(* As in WebAgentCenter a call is a request in flight, which the server    *)
(* answers at one moment and the client's handler takes at a later one.    *)
(* Most handlers end in applyCvImport(), which replaces the import on the  *)
(* screen by the answer; the profile page opens an import whether the      *)
(* studio is busy or not, and the poll of an AI run reloads it by itself.  *)
(***************************************************************************)
EXTENDS Integers, FiniteSets, Functions

CONSTANTS
    Imports,        \* ids of imports
    Facts,          \* the facts of an import
    AiRuns,         \* ids of AI runs
    Works,          \* bound: the parts of the studio a user works in
    MaxRevision,    \* bound: revisions of an import
    MaxRequests,    \* bound, for each part: requests in flight beyond which the user starts none
    MaxFaults       \* bound, for each part: answers that are lost

VARIABLES
    work, page,     \* the part of the studio, and the page that is open
    net, flags, faults,
    \* the server
    imports,        \* each import with its facts, theme, versions and adoption
    aiRuns,         \* the AI runs and what they are bound to
    \* the client
    shown,          \* cvImport
    drafts,         \* cvFactDrafts: the facts whose text has been edited
    theme,          \* cvThemeDraft
    versions,       \* cvRecognitionVersions
    claims,         \* cvRevocableAdoptions
    aiRun,          \* cvAiRun
    options,        \* cvAiOptions
    reload,         \* cvAiAppliedReloadKey
    polling,        \* cvAiPollHandle
    ticks           \* what was on the screen when each confirmation was ticked

serverVars == <<imports, aiRuns>>
importVars == <<shown, drafts, theme, versions, claims>>
aiVars == <<aiRun, options, reload, polling>>
vars == <<work, page, net, flags, faults, serverVars, importVars, aiVars, ticks>>

None == "none"
Nothing == [id |-> None]
Is(x) == x # Nothing
Gone == [id |-> "deleted"]
Themes == {"ats", "original"}
NoTheme == "default"
Readings == {"deterministic", "ai"}

-----------------------------------------------------------------------------
(* Requests and flags *)

\* The flags an answer clears.
ClearedBy ==
    [cvBusy |-> {"upload", "render", "download", "restore", "facts", "adopt", "mark", "theme", "open", "activate", "confirm", "revoke", "readopt",
                 "delete", "applied"},
     versionBusy |-> {"versions", "activate", "confirm"},
     claimBusy |-> {"claims", "restore", "mark", "revoke", "readopt"},
     aiBusy |-> {"aiRuns", "aiOptions", "start", "select", "cancel", "retry", "forget", "applied"},
     inventoryBusy |-> {"deleteRow"},
     pollBusy |-> {"poll"}]
Flags == DOMAIN ClearedBy
SetBy(q) == {f \in Flags : q.op \in ClearedBy[f]}
Sets(asked) == UNION {SetBy(q) : q \in asked}

Order(op, arg, meant) == [op |-> op, arg |-> arg, meant |-> meant, is |-> "sent", ans |-> Nothing]
Ask(op, arg) == Order(op, arg, Nothing)
Told(q) == q.is # "sent"
Failed(q) == q.is \in {"lost", "refused"}
Busy(set) == set \cap flags # {}
MayAsk == Cardinality({q \in net : q.op # "poll"}) < MaxRequests[work]

Sends(q) == net' = net \cup {q} /\ flags' = flags \cup SetBy(q)
Finish(q, asked) ==
    /\ net' = (net \ {q}) \cup asked
    /\ flags' = (flags \ SetBy(q)) \cup Sets(asked)

-----------------------------------------------------------------------------

NewImport(i) == [id |-> i, at |-> 1, pending |-> TRUE, theme |-> NoTheme, active |-> "deterministic", adopted |-> 0]
NoTicks == [t \in {"adopt", "theme", "version", "revoke", "snapshot", "disclosure", "delete"} |-> Nothing]

Init ==
    /\ work \in Works /\ page = "cv"
    /\ net = {} /\ flags = {} /\ faults = 0
    /\ imports \in [Imports -> {Nothing} \cup {[NewImport(i) EXCEPT !.pending = work \notin {"facts", "claims"}] : i \in Imports}]
    /\ \A i \in Imports : imports[i].id \in {i, None} /\ (imports[i] = Nothing => work = "theme")
    /\ \E i \in Imports : Is(imports[i])
    /\ aiRuns = [r \in AiRuns |-> Nothing]
    /\ shown = Nothing /\ drafts = {} /\ theme = "ats" /\ versions = Nothing /\ claims = Nothing
    /\ aiRun = Nothing /\ options = Nothing /\ reload = Nothing
    /\ polling = FALSE
    /\ ticks = NoTicks

-----------------------------------------------------------------------------
(* The server: every change of an import is bound to its revision *)

Exists(i) == imports[i].id = i
Current(a) == Exists(a.id) /\ imports[a.id].at = a.at /\ imports[a.id].at < MaxRevision

Changed(i, record) == [imports EXCEPT ![i] = [record EXCEPT !.at = @ + 1]]
Answer(q, ok, value) ==
    net' = (net \ {q}) \cup {[q EXCEPT !.is = IF ok THEN "answered" ELSE "refused", !.ans = IF ok THEN value ELSE Nothing]}

ServeChange(q, ok, record) ==
    /\ imports' = IF ok THEN Changed(q.arg.id, record) ELSE imports
    /\ Answer(q, ok, imports'[q.arg.id])
    /\ UNCHANGED aiRuns

\* A file becomes an import of its own.
ServeUpload(q) ==
    /\ q.op = "upload" /\ UNCHANGED aiRuns
    /\ \/ \E i \in Imports : /\ imports[i] = Nothing /\ imports' = [imports EXCEPT ![i] = NewImport(i)]
                             /\ Answer(q, TRUE, NewImport(i))
       \/ imports' = imports /\ Answer(q, FALSE, Nothing)

ServeFacts(q) ==
    /\ q.op = "facts"
    /\ \E p \in {q.arg.edit, TRUE} : ServeChange(q, Current(q.arg), [imports[q.arg.id] EXCEPT !.pending = p])

ServeAdopt(q) ==
    /\ q.op \in {"adopt", "mark", "readopt"}
    /\ ServeChange(q, Current(q.arg) /\ ~imports[q.arg.id].pending,
                   [imports[q.arg.id] EXCEPT !.adopted = q.arg.at])

ServeTheme(q) ==
    /\ q.op = "theme"
    /\ ServeChange(q, Current(q.arg), [imports[q.arg.id] EXCEPT !.theme = q.arg.theme])

ServeActivate(q) ==
    /\ q.op = "activate"
    /\ ServeChange(q, Current(q.arg), [imports[q.arg.id] EXCEPT !.active = q.arg.version, !.pending = TRUE])

ServeConfirm(q) ==
    /\ q.op = "confirm"
    /\ ServeChange(q, Current(q.arg) /\ imports[q.arg.id].active = q.arg.version,
                   [imports[q.arg.id] EXCEPT !.pending = FALSE])

ServeRevoke(q) ==
    /\ q.op = "revoke"
    /\ ServeChange(q, Current(q.arg) /\ imports[q.arg.id].adopted = q.arg.adoption,
                   [imports[q.arg.id] EXCEPT !.adopted = 0])

\* The profile goes back to a snapshot, and the adoption with it.
ServeRestore(q) ==
    /\ q.op = "restore"
    /\ ServeChange(q, Current(q.arg), [imports[q.arg.id] EXCEPT !.adopted = 0])

\* An approved document is rendered from an adopted import; the import keeps the reference.
ServeRender(q) ==
    /\ q.op = "render"
    /\ ServeChange(q, Current(q.arg) /\ imports[q.arg.id].adopted > 0, imports[q.arg.id])

ServeDownload(q) ==
    /\ q.op = "download" /\ UNCHANGED serverVars
    /\ Answer(q, Exists(q.arg.id) /\ imports[q.arg.id].at = q.arg.at, Nothing)

\* A deletion takes the AI runs of the import with it.
ServeDelete(q) ==
    /\ q.op \in {"delete", "deleteRow"}
    /\ LET ok == Exists(q.arg.id) /\ imports[q.arg.id].at = q.arg.at
       IN  /\ imports' = IF ok THEN [imports EXCEPT ![q.arg.id] = Gone] ELSE imports
           /\ aiRuns' = IF ok THEN [r \in AiRuns |-> IF Is(aiRuns[r]) /\ aiRuns[r].of = q.arg.id THEN Nothing ELSE aiRuns[r]]
                              ELSE aiRuns
           /\ Answer(q, ok, Nothing)

\* A read shows the moment it is served.
ServeImport(q) ==
    /\ q.op \in {"open", "profile", "applied"}
    /\ Answer(q, Exists(q.arg.id), imports[q.arg.id]) /\ UNCHANGED serverVars

ServeVersions(q) ==
    /\ q.op = "versions"
    /\ Answer(q, Exists(q.arg.id), [id |-> q.arg.id, active |-> imports[q.arg.id].active]) /\ UNCHANGED serverVars

ServeClaims(q) ==
    /\ q.op = "claims"
    /\ Answer(q, Exists(q.arg.id), [id |-> q.arg.id, adoption |-> imports[q.arg.id].adopted]) /\ UNCHANGED serverVars

-----------------------------------------------------------------------------
(* The server: AI runs *)

RunOf(i, r) == Is(aiRuns[r]) /\ aiRuns[r].of = i
Started(q, r) == [aiRuns EXCEPT ![r] = [id |-> r, of |-> q.arg.id, at |-> q.arg.at, status |-> "active"]]
Open(i) == {r \in AiRuns : RunOf(i, r) /\ aiRuns[r].status = "active"}

\* One run of an import at a time; a retry is a new run.
ServeStart(q) ==
    /\ q.op \in {"start", "retry"}
    /\ \/ /\ Current(q.arg) /\ Open(q.arg.id) = {}
          /\ q.op = "retry" => RunOf(q.arg.id, q.arg.run) /\ aiRuns[q.arg.run].status = "ended"
          /\ \E r \in AiRuns : ~Is(aiRuns[r]) /\ aiRuns' = Started(q, r) /\ Answer(q, TRUE, Started(q, r)[r])
       \/ Answer(q, FALSE, Nothing) /\ UNCHANGED aiRuns
    /\ UNCHANGED imports

ServeCancel(q) ==
    /\ q.op = "cancel"
    /\ LET ok == RunOf(q.arg.id, q.arg.run) /\ aiRuns[q.arg.run].status = "active"
       IN  /\ aiRuns' = IF ok THEN [aiRuns EXCEPT ![q.arg.run].status = "ended"] ELSE aiRuns
           /\ Answer(q, ok, aiRuns'[q.arg.run])
    /\ UNCHANGED imports

ServeForget(q) ==
    /\ q.op = "forget"
    /\ LET ok == RunOf(q.arg.id, q.arg.run)
       IN  aiRuns' = (IF ok THEN [aiRuns EXCEPT ![q.arg.run] = Nothing] ELSE aiRuns) /\ Answer(q, ok, Nothing)
    /\ UNCHANGED imports

ServeRun(q) ==
    /\ q.op \in {"poll", "select"}
    /\ Answer(q, RunOf(q.arg.id, q.arg.run), aiRuns[q.arg.run]) /\ UNCHANGED serverVars

ServeRuns(q) ==
    /\ q.op = "aiRuns"
    /\ Answer(q, TRUE, [id |-> q.arg.id, runs |-> {aiRuns[r] : r \in {x \in AiRuns : RunOf(q.arg.id, x)}}])
    /\ UNCHANGED serverVars

ServeOptions(q) ==
    /\ q.op = "aiOptions"
    /\ Answer(q, Exists(q.arg.id) /\ imports[q.arg.id].at = q.arg.at, [id |-> q.arg.id, at |-> q.arg.at])
    /\ UNCHANGED serverVars

Serve(q) ==
    /\ ~Told(q)
    /\ \/ ServeUpload(q) \/ ServeRestore(q) \/ ServeRender(q) \/ ServeDownload(q) \/ ServeFacts(q) \/ ServeAdopt(q) \/ ServeTheme(q) \/ ServeActivate(q) \/ ServeConfirm(q)
       \/ ServeRevoke(q) \/ ServeDelete(q) \/ ServeImport(q) \/ ServeVersions(q) \/ ServeClaims(q)
       \/ ServeStart(q) \/ ServeCancel(q) \/ ServeForget(q)
       \/ ServeRun(q) \/ ServeRuns(q) \/ ServeOptions(q)
    /\ UNCHANGED <<work, page, flags, faults, importVars, aiVars, ticks>>

\* A run activates a recognition version of its own, or ends without one.
RunMoves(r) ==
    /\ Is(aiRuns[r]) /\ aiRuns[r].status = "active"
    /\ \/ aiRuns' = [aiRuns EXCEPT ![r].status = "ended"] /\ UNCHANGED imports
       \/ /\ Current([id |-> aiRuns[r].of, at |-> aiRuns[r].at])
          /\ aiRuns' = [aiRuns EXCEPT ![r].status = "applied", ![r].at = @ + 1]
          /\ imports' = Changed(aiRuns[r].of, [imports[aiRuns[r].of] EXCEPT !.active = "ai", !.pending = TRUE])
    /\ UNCHANGED <<work, page, net, flags, faults, importVars, aiVars, ticks>>

\* Another window changes the import.
ElsewhereMoves(i) ==
    /\ work # "ai" /\ Exists(i) /\ Current(imports[i]) /\ imports' = Changed(i, [imports[i] EXCEPT !.pending = ~@])
    /\ UNCHANGED <<work, page, net, flags, faults, aiRuns, importVars, aiVars, ticks>>

Lose(q) ==
    /\ ~Failed(q) /\ faults < MaxFaults[work] /\ faults' = faults + 1
    /\ net' = (net \ {q}) \cup {[q EXCEPT !.is = "lost", !.ans = Nothing]}
    /\ UNCHANGED <<work, page, flags, serverVars, importVars, aiVars, ticks>>

-----------------------------------------------------------------------------
(* The client: the import on the screen *)

Quiet == UNCHANGED <<page, work, faults, serverVars>>
UntickedOf(old, set) == [t \in DOMAIN old |-> IF t \in set THEN Nothing ELSE old[t]]
Untick(set) == ticks' = UntickedOf(ticks, set)

\* What belongs to the import that is left is forgotten.
AiForgotten == aiRun' = Nothing /\ options' = Nothing /\ reload' = Nothing /\ polling' = FALSE
OtherImport(record) == shown.id # record.id
LeftFlags(record) == IF OtherImport(record) THEN {"aiBusy", "versionBusy", "pollBusy"} ELSE {}

\* What is loaded once the import is shown, of what the user works with.
LoadsOf(record) ==
    CASE page # "cv" -> {}
      [] work = "versions" -> {Ask("versions", [id |-> record.id])}
      [] work = "claims" -> {Ask("claims", [id |-> record.id])}
      [] work = "ai" -> {Ask("aiRuns", [id |-> record.id, at |-> record.at])}
      [] OTHER -> {}

\* The confirmations another revision takes back.
TakesBack(record) ==
    {"adopt", "theme", "version", "revoke", "snapshot", "delete"} \cup (IF OtherImport(record) THEN {"disclosure"} ELSE {})

\* applyCvImport(): the answer replaces the import, its drafts and every confirmation;
\* the draft of the theme stays where the import has no theme of its own.
Applies(record, kept) ==
    /\ shown' = record /\ drafts' = kept /\ theme' = IF record.theme = NoTheme THEN theme ELSE record.theme
    /\ IF OtherImport(record) THEN versions' = Nothing /\ claims' = Nothing ELSE UNCHANGED <<versions, claims>>
    /\ Untick(TakesBack(record))
AppliesAlone(record) ==
    Applies(record, {}) /\ IF OtherImport(record) THEN AiForgotten ELSE UNCHANGED aiVars

FinishApplied(q, record, asked) ==
    LET all == LoadsOf(record) \cup asked
    IN  /\ net' = (net \ {q}) \cup all
        /\ flags' = ((flags \ SetBy(q)) \ LeftFlags(record)) \cup Sets(all)

\* An answer that is applied, or an error that only clears the flags.
AppliedOrFailed(q) ==
    /\ Told(q)
    /\ IF Failed(q) THEN Finish(q, {}) /\ UNCHANGED <<importVars, aiVars, ticks>>
       ELSE AppliesAlone(q.ans) /\ FinishApplied(q, q.ans, {})
    /\ Quiet

Studio == page = "cv" /\ Is(shown) /\ MayAsk
Asks(q) == Sends(q) /\ Quiet /\ UNCHANGED <<importVars, aiVars, ticks>>
OnShown == [id |-> shown.id, at |-> shown.at]

OpenImport(i) == page = "cv" /\ MayAsk /\ ~Busy({"cvBusy"}) /\ Asks(Ask("open", [id |-> i]))
Reload == Studio /\ ~Busy({"cvBusy"}) /\ Asks(Ask("open", [id |-> shown.id]))
OpenAnswered(q) == q.op = "open" /\ AppliedOrFailed(q)

\* A file is read and sent; what comes back is shown.
Upload == page = "cv" /\ work = "theme" /\ MayAsk /\ Asks(Ask("upload", Nothing))
UploadAnswered(q) == q.op = "upload" /\ AppliedOrFailed(q)

\* The profile page shows an import whether the studio waits for an answer or not.
LoadProfileImport(i) == page = "profile" /\ MayAsk /\ shown.id # i /\ Asks(Ask("profile", [id |-> i]))
ProfileAnswered(q) ==
    /\ q.op = "profile" /\ Told(q)
    /\ IF Failed(q) THEN Finish(q, {}) /\ UNCHANGED <<importVars, aiVars, ticks>>
       ELSE AppliesAlone(q.ans) /\ FinishApplied(q, q.ans, IF work = "versions" THEN {Ask("versions", [id |-> q.ans.id])} ELSE {})
    /\ Quiet

\* A page that is left stops the poll; the studio is loaded again when it is opened.
Leave ==
    /\ page = "cv" /\ page' = "profile" /\ polling' = FALSE /\ flags' = flags \ {"pollBusy"}
    /\ UNCHANGED <<work, faults, net, serverVars, importVars, aiRun, options, reload, ticks>>
Enter ==
    /\ page = "profile" /\ page' = "cv" /\ MayAsk
    /\ LET asked == IF Is(shown) /\ work \in {"versions", "ai"}
                    THEN {Ask(IF work = "ai" THEN "aiRuns" ELSE "versions", OnShown)} ELSE {}
       IN  net' = net \cup asked /\ flags' = flags \cup Sets(asked)
    /\ UNCHANGED <<work, faults, serverVars, importVars, aiVars, ticks>>

DeleteCurrent ==
    /\ Studio /\ ~Busy({"cvBusy"}) /\ ticks["delete"].id = shown.id
    /\ Asks(Order("delete", OnShown, ticks["delete"]))

\* The import is taken from the screen when it is the deleted one.
Removes ==
    shown' = Nothing /\ drafts' = {} /\ versions' = Nothing /\ UNCHANGED <<theme, claims>> /\ AiForgotten
DeleteAnswered(q) ==
    /\ q.op = "delete" /\ Told(q)
    /\ IF Failed(q) THEN Finish(q, {}) /\ UNCHANGED <<importVars, aiVars, ticks>>
       ELSE /\ Removes /\ Untick({"delete", "version", "disclosure"})
            /\ net' = net \ {q} /\ flags' = (flags \ SetBy(q)) \ {"aiBusy", "versionBusy", "pollBusy"}
    /\ Quiet

DeleteRow(i) ==
    /\ page = "cv" /\ work = "facts" /\ MayAsk /\ ~Busy({"cvBusy", "inventoryBusy"}) /\ Exists(i)
    /\ Asks(Ask("deleteRow", [id |-> i, at |-> imports[i].at]))
RowAnswered(q) ==
    /\ q.op = "deleteRow" /\ Told(q)
    /\ IF Failed(q) \/ shown.id # q.arg.id THEN Finish(q, {}) /\ UNCHANGED <<importVars, aiVars, ticks>>
       ELSE /\ Removes /\ Untick({"version", "disclosure"})
            /\ net' = net \ {q} /\ flags' = (flags \ SetBy(q)) \ {"aiBusy", "versionBusy", "pollBusy"}
    /\ Quiet

-----------------------------------------------------------------------------
(* The client: facts, adoption and theme *)

\* The fields stay open while an answer is awaited; an edit takes the confirmation back.
EditFact(f) ==
    /\ work = "facts" /\ Is(shown) /\ f \notin drafts /\ drafts' = drafts \cup {f} /\ Untick({"adopt"})
    /\ Quiet /\ UNCHANGED <<net, flags, shown, theme, versions, claims, aiVars>>

ResetFact(f) ==
    /\ f \in drafts /\ drafts' = drafts \ {f}
    /\ Quiet /\ UNCHANGED <<net, flags, shown, theme, versions, claims, aiVars, ticks>>

\* mutateCvFacts(): the other drafts of this moment are put back when the answer is applied.
Mutates(f, edit) ==
    /\ Studio /\ ~Busy({"cvBusy"})
    /\ Asks(Ask("facts", [id |-> shown.id, at |-> shown.at, fact |-> f, edit |-> edit, kept |-> drafts \ {f}]))
SaveFact(f) == f \in drafts /\ Mutates(f, TRUE)
DecideFact(f) == work = "facts" /\ f \notin drafts /\ Mutates(f, FALSE)
AddFact == work = "facts" /\ Mutates(None, TRUE)

\* Mutant: the answer is applied whatever is shown.
FactsAppliedAnyway(q) ==
    /\ q.op = "facts" /\ Told(q)
    /\ IF Failed(q) THEN Finish(q, {}) /\ UNCHANGED <<importVars, aiVars, ticks>>
       ELSE AppliesAlone(q.ans) /\ FinishApplied(q, q.ans, {})
    /\ Quiet

FactsAnswered(q) ==
    /\ q.op = "facts" /\ Told(q)
    /\ IF Failed(q) \/ shown.id # q.arg.id THEN Finish(q, {}) /\ UNCHANGED <<importVars, aiVars, ticks>>
       ELSE /\ Applies(q.ans, q.arg.kept) /\ UNCHANGED aiVars
            /\ FinishApplied(q, q.ans, {})
    /\ Quiet

Adopt ==
    /\ Studio /\ ~Busy({"cvBusy"}) /\ Is(ticks["adopt"]) /\ ~shown.pending
    /\ Asks(Order("adopt", OnShown, ticks["adopt"]))
AdoptAnswered(q) == q.op = "adopt" /\ AppliedOrFailed(q)

\* moveCvThemeSection(), selectCvThemeVariant(), prefillAtsFromOriginal(), the form.
EditTheme ==
    /\ work = "theme" /\ Is(shown) /\ theme' \in Themes /\ Untick({"theme"})
    /\ Quiet /\ UNCHANGED <<net, flags, shown, drafts, versions, claims, aiVars>>

ThemeOnScreen == [id |-> shown.id, at |-> shown.at, theme |-> theme]
SaveTheme ==
    /\ Studio /\ ~Busy({"cvBusy"}) /\ Is(ticks["theme"])
    /\ Asks(Order("theme", ThemeOnScreen, ticks["theme"]))

\* The theme is taken away under the same confirmation.
ClearTheme ==
    /\ Studio /\ ~Busy({"cvBusy"}) /\ Is(ticks["theme"])
    /\ Asks(Order("theme", [ThemeOnScreen EXCEPT !.theme = NoTheme], [ticks["theme"] EXCEPT !.theme = NoTheme]))
ThemeAnswered(q) == q.op = "theme" /\ AppliedOrFailed(q)

\* renderApprovedCvHtml() and downloadApprovedCvHtml()
Render == Studio /\ work = "claims" /\ ~Busy({"cvBusy"}) /\ shown.adopted > 0 /\ Asks(Ask("render", OnShown))
RenderAnswered(q) == q.op = "render" /\ AppliedOrFailed(q)
Download == Studio /\ work = "claims" /\ ~Busy({"cvBusy"}) /\ shown.adopted > 0 /\ Asks(Ask("download", OnShown))
DownloadAnswered(q) == q.op = "download" /\ Told(q) /\ Finish(q, {}) /\ Quiet /\ UNCHANGED <<importVars, aiVars, ticks>>

-----------------------------------------------------------------------------
(* The client: recognition versions *)

LoadVersions == Studio /\ work = "versions" /\ ~Busy({"cvBusy", "versionBusy"}) /\ Asks(Ask("versions", [id |-> shown.id]))

\* cvRecognitionVersionListMatches()
ListMatches(list) == list.id = shown.id

\* The confirmation is taken back when another version has become active.
VersionsAnswered(q) ==
    /\ q.op = "versions" /\ Told(q) /\ Finish(q, {})
    /\ IF Failed(q) \/ ~Is(shown) \/ ~ListMatches(q.ans) THEN versions' = Nothing /\ UNCHANGED ticks
       ELSE /\ versions' = q.ans
            /\ IF Is(versions) /\ versions.active = q.ans.active THEN UNCHANGED ticks ELSE Untick({"version"})
    /\ Quiet /\ UNCHANGED <<shown, drafts, theme, claims, aiVars>>

ActivateVersion(v) ==
    /\ Studio /\ work = "versions" /\ ~Busy({"cvBusy", "versionBusy"}) /\ Is(versions) /\ versions.active # v
    /\ Sends(Ask("activate", [id |-> shown.id, at |-> shown.at, version |-> v])) /\ Untick({"version"})
    /\ Quiet /\ UNCHANGED <<importVars, aiVars>>
ActivateAnswered(q) == q.op = "activate" /\ AppliedOrFailed(q)

VersionOnScreen == [id |-> shown.id, at |-> shown.at, version |-> versions.active]
ConfirmVersion ==
    /\ Studio /\ ~Busy({"cvBusy", "versionBusy"}) /\ Is(versions) /\ shown.pending /\ Is(ticks["version"])
    /\ Asks(Order("confirm", VersionOnScreen, ticks["version"]))
ConfirmAnswered(q) ==
    /\ q.op = "confirm" /\ Told(q)
    /\ IF Failed(q) THEN Finish(q, {}) /\ Untick({"version"}) /\ UNCHANGED <<importVars, aiVars>>
       ELSE AppliesAlone(q.ans) /\ FinishApplied(q, q.ans, {})
    /\ Quiet

-----------------------------------------------------------------------------
(* The client: what the profile has taken over *)

ClaimsAnswered(q) ==
    /\ q.op = "claims" /\ Told(q) /\ Finish(q, {})
    /\ claims' = IF Failed(q) THEN Nothing ELSE IF shown.id # q.arg.id THEN claims ELSE q.ans
    /\ Quiet /\ UNCHANGED <<shown, drafts, theme, versions, aiVars, ticks>>

MarkAdopted == Studio /\ work = "claims" /\ ~Busy({"cvBusy", "claimBusy"}) /\ Asks(Ask("mark", OnShown))
MarkAnswered(q) == q.op \in {"mark", "readopt"} /\ AppliedOrFailed(q)

\* Revokes what was taken over and takes over again what is confirmed now.
Revoke ==
    /\ Studio /\ ~Busy({"cvBusy", "claimBusy"}) /\ Is(claims) /\ claims.adoption > 0 /\ Is(ticks["revoke"])
    /\ Asks(Ask("revoke", [id |-> shown.id, at |-> shown.at, adoption |-> claims.adoption]))
RevokeAnswered(q) ==
    /\ q.op = "revoke" /\ Told(q)
    /\ IF Failed(q) THEN Finish(q, {}) /\ UNCHANGED <<importVars, aiVars, ticks>>
       ELSE AppliesAlone(q.ans) /\ FinishApplied(q, q.ans, {Ask("readopt", [id |-> q.ans.id, at |-> q.ans.at])})
    /\ Quiet

\* The whole profile goes back to a stored state.
RestoreSnapshot ==
    /\ Studio /\ ~Busy({"cvBusy", "claimBusy"}) /\ Is(claims) /\ Is(ticks["snapshot"])
    /\ Asks(Ask("restore", OnShown))
RestoreAnswered(q) == q.op = "restore" /\ AppliedOrFailed(q)

-----------------------------------------------------------------------------
(* The client: AI runs *)

Active(run) == Is(run) /\ run.status = "active"

\* setCvAiRun(): an active run is polled while the studio is open.
ShowsRun(run) == aiRun' = run /\ polling' = (Active(run) /\ (polling \/ page = "cv"))
FinishRun(q, run, asked) ==
    /\ net' = (net \ {q}) \cup asked
    /\ flags' = ((flags \ SetBy(q)) \ (IF Active(run) THEN {} ELSE {"pollBusy"})) \cup Sets(asked)
AiClient == Quiet /\ UNCHANGED importVars

\* cvAiAppliedRunNeedsImportReload()
NeedsReload(a, run) == Is(run) /\ run.status = "applied" /\ run.at > a.at

\* reloadCvImportAfterAiApplied(): once for what the run has made of the import; when that
\* has been read before, the flag of the caller stays set.
Reloads(q, a, run) ==
    LET mark == [id |-> run.id, at |-> run.at]
        asked == IF reload = mark THEN {} ELSE {Ask("applied", [id |-> a.id, run |-> run])}
    IN  /\ ShowsRun(run) /\ UNCHANGED ticks
        /\ reload' = mark
        /\ net' = (net \ {q}) \cup asked
        /\ flags' = (flags \ {"pollBusy"}) \cup Sets(asked)
        /\ UNCHANGED options /\ AiClient

AppliedAnswered(q) ==
    /\ q.op = "applied" /\ Told(q)
    /\ IF Failed(q) \/ q.ans.at # q.arg.run.at
       THEN Finish(q, {}) /\ reload' = Nothing /\ UNCHANGED <<importVars, aiRun, options, polling, ticks>>
       ELSE /\ Applies(q.ans, {}) /\ FinishApplied(q, q.ans, {})
            /\ aiRun' = q.arg.run /\ polling' = FALSE
            /\ IF OtherImport(q.ans) THEN options' = Nothing /\ reload' = Nothing
                                     ELSE UNCHANGED <<options, reload>>
    /\ Quiet

LoadAi == Studio /\ work = "ai" /\ ~Busy({"aiBusy"}) /\ Asks(Ask("aiRuns", OnShown))

\* The run that is shown, or an active one, or any.
Selected(runs) ==
    LET same == {r \in runs : r.id = aiRun.id}
        active == {r \in runs : Active(r)}
    IN  IF same # {} THEN same ELSE IF active # {} THEN active ELSE IF runs # {} THEN runs ELSE {Nothing}

AiStops == polling' = FALSE /\ UNCHANGED <<aiRun, options, reload, ticks>>
RunsAnswered(q) ==
    /\ q.op = "aiRuns" /\ Told(q) /\ AiClient
    /\ \/ /\ Failed(q) /\ options' = Nothing /\ polling' = FALSE /\ FinishRun(q, Nothing, {})
          /\ UNCHANGED <<aiRun, reload, ticks>>
       \/ ~Failed(q) /\ OnShown # q.arg /\ AiStops /\ FinishRun(q, Nothing, {})
       \/ /\ ~Failed(q) /\ OnShown = q.arg
          /\ \E run \in Selected(q.ans.runs) :
                IF NeedsReload(q.arg, run) THEN Reloads(q, q.arg, run)
                ELSE /\ Finish(q, {Ask("aiOptions", [id |-> q.arg.id, at |-> q.arg.at, run |-> run])})
                     /\ UNCHANGED <<aiVars, ticks>>

\* The options are those of the revision on the screen; what was ticked stays ticked.
OptionsAnswered(q) ==
    /\ q.op = "aiOptions" /\ Told(q) /\ AiClient
    /\ \/ /\ Failed(q) /\ options' = Nothing /\ polling' = FALSE /\ FinishRun(q, Nothing, {})
          /\ UNCHANGED <<aiRun, reload, ticks>>
       \/ /\ ~Failed(q) /\ OnShown # [id |-> q.ans.id, at |-> q.ans.at]
          /\ Finish(q, {}) /\ UNCHANGED <<aiVars, ticks>>
       \/ /\ ~Failed(q) /\ OnShown = [id |-> q.ans.id, at |-> q.ans.at]
          /\ options' = q.ans /\ ShowsRun(q.arg.run) /\ UNCHANGED ticks /\ FinishRun(q, q.arg.run, {})
          /\ UNCHANGED reload

\* Another installation takes the consent back.
SelectInstallation == Is(options) /\ Untick({"disclosure"}) /\ AiClient /\ UNCHANGED <<net, flags, aiVars>>

\* cvAiStartUnavailableReason()
MayStart == Is(options) /\ ~Active(aiRun) /\ Is(ticks["disclosure"])
Run == [id |-> shown.id, run |-> aiRun.id]
StartAi ==
    /\ Studio /\ ~Busy({"aiBusy"}) /\ MayStart
    /\ Asks(Ask("start", [id |-> shown.id, at |-> shown.at]))
RetryAi ==
    /\ Studio /\ ~Busy({"aiBusy"}) /\ MayStart /\ Is(aiRun) /\ aiRun.status = "ended"
    /\ Asks(Ask("retry", [id |-> shown.id, at |-> shown.at, run |-> aiRun.id]))
CancelAi == Studio /\ ~Busy({"aiBusy"}) /\ Active(aiRun) /\ Asks(Ask("cancel", Run))
ForgetAi == Studio /\ ~Busy({"aiBusy"}) /\ Is(aiRun) /\ Asks(Ask("forget", Run))
SelectAi(r) == Studio /\ work = "ai" /\ ~Busy({"aiBusy"}) /\ Asks(Ask("select", [id |-> shown.id, at |-> shown.at, run |-> r]))
Poll == polling /\ Is(shown) /\ Is(aiRun) /\ ~Busy({"pollBusy"}) /\ Cardinality(net) < MaxRequests[work] /\ Asks(Ask("poll", [id |-> shown.id, run |-> aiRun.id]))

\* What a failed order leaves: the flag is cleared, the run stays.
AiFailed(q) == Failed(q) /\ Finish(q, {}) /\ UNCHANGED <<aiVars, ticks>>
ShownAnswer(q, run, untick) ==
    /\ ~Failed(q) /\ ShowsRun(run) /\ ticks' = UntickedOf(ticks, untick) /\ FinishRun(q, run, {})
    /\ UNCHANGED <<options, reload>>

StartAnswered(q) ==
    q.op \in {"start", "retry"} /\ Told(q) /\ AiClient /\ (AiFailed(q) \/ ShownAnswer(q, q.ans, {"disclosure"}))
CancelAnswered(q) == q.op = "cancel" /\ Told(q) /\ AiClient /\ (AiFailed(q) \/ ShownAnswer(q, q.ans, {}))
ForgetAnswered(q) ==
    /\ q.op = "forget" /\ Told(q) /\ AiClient
    /\ \/ AiFailed(q)
       \/ aiRun.id = q.arg.run /\ ShownAnswer(q, Nothing, {})
       \/ ~Failed(q) /\ aiRun.id # q.arg.run /\ Finish(q, {}) /\ UNCHANGED <<aiVars, ticks>>
SelectAnswered(q) ==
    /\ q.op = "select" /\ Told(q)
    /\ \/ AiFailed(q) /\ AiClient
       \/ ~Failed(q) /\ NeedsReload(q.arg, q.ans) /\ Reloads(q, q.arg, q.ans)
       \/ ~NeedsReload(q.arg, q.ans) /\ ShownAnswer(q, q.ans, {}) /\ AiClient

\* An error stops the poll and ends whatever the studio was waiting for.
PollAnswered(q) ==
    /\ q.op = "poll" /\ Told(q)
    /\ \/ /\ Failed(q) /\ AiStops /\ net' = net \ {q} /\ flags' = flags \ {"pollBusy", "aiBusy"} /\ AiClient
       \/ ~Failed(q) /\ q.ans.status = "applied" /\ Reloads(q, q.arg, q.ans)
       \/ q.ans # Nothing /\ q.ans.status # "applied" /\ ShownAnswer(q, q.ans, {}) /\ AiClient

-----------------------------------------------------------------------------

\* What is confirmed is what is on the screen.
Tick ==
    /\ page = "cv" /\ Is(shown)
    /\ \/ work = "facts" /\ ticks' \in {[ticks EXCEPT !["adopt"] = OnShown], [ticks EXCEPT !["delete"] = OnShown]}
       \/ work = "theme" /\ ticks' = [ticks EXCEPT !["theme"] = ThemeOnScreen]
       \/ work = "versions" /\ Is(versions) /\ ~Busy({"versionBusy", "cvBusy"}) /\ ticks' = [ticks EXCEPT !["version"] = VersionOnScreen]
       \/ work = "claims" /\ Is(claims) /\ ~Busy({"cvBusy", "claimBusy"})
          /\ ticks' \in {[ticks EXCEPT !["revoke"] = OnShown], [ticks EXCEPT !["snapshot"] = OnShown]}
       \/ work = "ai" /\ ~Busy({"aiBusy"}) /\ ~Active(aiRun) /\ ticks' = [ticks EXCEPT !["disclosure"] = [id |-> shown.id]]
    /\ Quiet /\ UNCHANGED <<net, flags, importVars, aiVars>>

Handlers(q) ==
    \/ UploadAnswered(q) \/ RenderAnswered(q) \/ DownloadAnswered(q) \/ RestoreAnswered(q) \/ OpenAnswered(q) \/ ProfileAnswered(q) \/ DeleteAnswered(q) \/ RowAnswered(q)
    \/ FactsAnswered(q) \/ AdoptAnswered(q) \/ ThemeAnswered(q)
    \/ VersionsAnswered(q) \/ ActivateAnswered(q) \/ ConfirmAnswered(q)
    \/ ClaimsAnswered(q) \/ MarkAnswered(q) \/ RevokeAnswered(q)
    \/ RunsAnswered(q) \/ OptionsAnswered(q) \/ StartAnswered(q) \/ CancelAnswered(q) \/ ForgetAnswered(q)
    \/ SelectAnswered(q) \/ PollAnswered(q) \/ AppliedAnswered(q)

FactEdits(f) == EditFact(f) \/ ResetFact(f) \/ SaveFact(f) \/ DecideFact(f)

Next ==
    \/ \E q \in net : Serve(q) \/ Lose(q) \/ Handlers(q)
    \/ \E r \in AiRuns : RunMoves(r) \/ SelectAi(r)
    \/ \E i \in Imports : ElsewhereMoves(i) \/ OpenImport(i) \/ LoadProfileImport(i) \/ DeleteRow(i)
    \/ Leave \/ Enter \/ Reload \/ DeleteCurrent \/ Tick
    \/ (\E f \in Facts : FactEdits(f)) \/ AddFact \/ Adopt \/ EditTheme \/ SaveTheme \/ ClearTheme
    \/ LoadVersions \/ (\E v \in Readings : ActivateVersion(v)) \/ ConfirmVersion
    \/ Upload \/ Render \/ Download \/ MarkAdopted \/ Revoke \/ RestoreSnapshot
    \/ LoadAi \/ SelectInstallation \/ StartAi \/ RetryAi \/ CancelAi \/ ForgetAi
    \/ Poll

Spec == Init /\ [][Next]_vars

-----------------------------------------------------------------------------
(* Properties *)

\* What is adopted, saved as a theme, confirmed or deleted is what was on the screen when
\* the user ticked it, whichever answers - of another import, of another revision, of
\* another list of versions - have arrived since.
TickedIsSent == \A q \in net : Is(q.meant) => q.arg = q.meant

\* The versions and adoptions on the screen are those of the import on the screen,
\* although they are loaded by calls of their own.
BoundToShown ==
    /\ Is(versions) => versions.id = shown.id
    /\ Is(shown) /\ Is(claims) => claims.id = shown.id
    /\ Is(options) => options.id = shown.id

\* "A late answer must never overwrite a different, newly selected import." (app.ts)
SavedStaysInPlace ==
    [][\A q \in net : q.op = "facts" /\ q \notin net' => shown'.id = shown.id]_vars

\* Nothing stays disabled for ever: a flag is set only while an answer is awaited that
\* clears it (aiBusy is not among them, see README).
WaitsForAnswer == \A f \in flags \ {"aiBusy"} : \E q \in net : q.op \in ClearedBy[f]

=============================================================================
