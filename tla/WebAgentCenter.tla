--------------------------- MODULE WebAgentCenter ---------------------------
(***************************************************************************)
(* The agent center of the web client (src/web/src/app/app.ts) and the     *)
(* routes of src/server/src/app.ts it calls.                               *)
(*                                                                         *)
(* Every call of ApiService is a request in flight.  The server answers it *)
(* at one moment, the client's next or error handler runs at a later one,  *)
(* answers overtake each other, and an answer may be lost after the server *)
(* has acted.  Meanwhile the user goes on, the poll of 2.5 s fires, and    *)
(* runs and orchestrations move on by themselves.                          *)
(***************************************************************************)
EXTENDS Integers, FiniteSets, Functions

CONSTANTS
    Runs,           \* ids of agent runs
    Flows,          \* ids of orchestrations
    Installations,  \* installations of the providers
    Prompts,        \* prompts of at least three characters
    Areas,          \* bound: the areas of the agent center a user works in
    MaxRevision,    \* bound: revisions of anything the server keeps
    MaxChecks,      \* bound: preflights of a draft and edits of it
    MaxRequests,    \* bound: requests in flight beyond which the user and the poll start none
    MaxFaults       \* bound, for each area: answers that are lost

VARIABLES
    area,           \* the area of the page the user works in
    section,        \* the page that is open
    net,            \* the requests in flight
    flags,          \* the busy and in-flight flags that are set
    faults,
    \* the server
    runs,           \* agent runs: revision, state, recovery lease
    flows,          \* agent orchestrations
    profile,        \* the agent security profile
    cleared,        \* history: the requests a preflight has found ready
    \* the client: runs
    known,          \* agentRuns
    shown,          \* selectedAgentRun
    cursor,         \* agentEventsAfter, the last event of the timeline
    stream,         \* agentEventSubscription
    \* the client: recovery, orchestrations, profile, draft of a run
    recovery,       \* agentRecoveryRuns
    leases,         \* agentRecoveryLeases
    dialog,         \* agentRecoveryDialog
    flow,           \* selectedAgentOrchestration
    choice,         \* agentOrchestrationConflictStrategies of its conflict
    view,           \* agentConfigProfile
    draft,          \* agentConfigProfileDraft
    picked,         \* the installation that is selected
    prompt,         \* agentRunForm.prompt
    check,          \* agentPreflight with its revision, timer and fingerprint
    ticks           \* what was on the screen when each confirmation was ticked

serverVars == <<runs, flows, profile, cleared>>
timelineVars == <<shown, cursor, stream>>
recoveryVars == <<recovery, leases, dialog>>
flowVars == <<flow, choice>>
profileVars == <<view, draft>>
formVars == <<picked, prompt, check>>
pageVars == <<area, section>>
vars == <<pageVars, net, flags, faults, serverVars, known, timelineVars, recoveryVars, flowVars, profileVars, formVars, ticks>>

None == "none"
Nothing == [id |-> None]
Is(x) == x # Nothing

-----------------------------------------------------------------------------
(* Requests and flags *)

Reads == {"runs", "run", "events", "ops", "flows", "flow", "providers", "loadProfile", "preflight"}

\* The requests whose answer clears a flag, whatever the answer is.
ClearedBy ==
    [agentBusy |-> {"providers", "cancelRun", "acquire", "resolve", "createRun"},
     flowBusy |-> {"createFlow", "continue", "cancelFlow", "conflict"},
     profileBusy |-> {"loadProfile", "saveProfile", "fixProfile"},
     setupBusy |-> {"approveVersion"},
     runsPoll |-> {"runs"},
     opsPoll |-> {"ops"},
     flowsPoll |-> {"flows"}]
Flags == DOMAIN ClearedBy

\* A request, and what the user has confirmed for it.
Order(op, arg, meant) == [op |-> op, arg |-> arg, meant |-> meant, is |-> "sent", ans |-> Nothing]
Ask(op, arg) == Order(op, arg, Nothing)
Told(q) == q.is # "sent"
Failed(q) == q.is \in {"lost", "refused"}
MayAsk == Cardinality(net) < MaxRequests

\* What a handler starts; a poll in flight is not started again.
Polls(set) == {f \in {"runsPoll", "opsPoll", "flowsPoll"} : \E q \in set : q.op \in ClearedBy[f]}
RefreshRuns(now) ==
    (IF "opsPoll" \in now \/ area # "recovery" THEN {} ELSE {Ask("ops", Nothing)})
        \cup (IF "runsPoll" \in now THEN {} ELSE {Ask("runs", Nothing)})
RefreshFlows(now) == IF "flowsPoll" \in now THEN {} ELSE {Ask("flows", Nothing)}

Start(asked, set) == net' = net \cup asked /\ flags' = flags \cup Polls(asked) \cup set

Left(q) == flags \ {f \in Flags : q.op \in ClearedBy[f]}

\* A handler: the request is over, its flag is cleared, others are started.
Finish(q, asked, set) ==
    /\ net' = (net \ {q}) \cup asked
    /\ flags' = Left(q) \cup Polls(asked) \cup set

-----------------------------------------------------------------------------
(* The start: the page is open, nothing has been answered yet *)

NoProfile == [at |-> 0]
NoCheck == [of |-> Nothing, ready |-> FALSE, revision |-> 0, timer |-> FALSE]
NoTicks == [t \in {"answer", "cancel", "conflict", "recovery", "profile", "optIn", "fix"} |-> Nothing]

NewRun(r, state) == [id |-> r, at |-> 1, state |-> state, lease |-> Nothing, given |-> 0]
NewFlow(f) == [id |-> f, at |-> 1, open |-> {"answer"}]

\* Bound: how many runs there are at the start.
StartRuns == [runs |-> {2}, recovery |-> {1}, flows |-> {0}, profile |-> {0}, draft |-> {0, 1}]

Init ==
    /\ area \in Areas /\ section = "agents"
    /\ net = {} /\ flags = {} /\ faults = 0
    /\ runs \in [Runs -> {Nothing} \cup
           {NewRun(r, s) : r \in Runs, s \in {"active", "orphaned"}}]
    /\ \A r \in Runs : /\ runs[r].id \in {r, None}
                       /\ runs[r].id = r => (runs[r].state = "orphaned") = (area = "recovery")
    /\ Cardinality({r \in Runs : runs[r].id = r}) \in StartRuns[area]
    /\ flows \in [Flows -> {Nothing} \cup {NewFlow(f) : f \in Flows}]
    /\ \A f \in Flows : flows[f].id \in {f, None} /\ (area # "flows" => flows[f] = Nothing)
    /\ profile \in {[at |-> 1, rule |-> i, codex |-> FALSE] : i \in Installations}
    /\ cleared = {}
    /\ known = [r \in Runs |-> Nothing] /\ shown = Nothing /\ cursor = 0 /\ stream = Nothing
    /\ recovery = [r \in Runs |-> Nothing] /\ leases = [r \in Runs |-> Nothing] /\ dialog = Nothing
    /\ flow = Nothing /\ choice = None
    /\ view = NoProfile /\ draft = NoProfile
    /\ picked \in Installations /\ (area \in {"profile", "draft"} \/ picked = profile.rule)
    /\ prompt = None /\ check = NoCheck
    /\ ticks = NoTicks

Untick(set) == ticks' = [t \in DOMAIN ticks |-> IF t \in set THEN Nothing ELSE ticks[t]]
FlowTicks == {"answer", "cancel", "conflict"}
ProfileTicks == {"profile", "optIn"}

-----------------------------------------------------------------------------
(* The server *)

Exists(r) == runs[r].id = r

\* A run that ends writes its last event.
Ended(r) == [runs EXCEPT ![r].at = @ + 1, ![r].state = "ended", ![r].lease = Nothing]

\* A run writes an event; the last one ends it.
RunMoves(r) ==
    /\ area = "runs" /\ Exists(r) /\ runs[r].state = "active" /\ runs[r].at < MaxRevision
    /\ runs' = IF runs[r].at + 1 = MaxRevision THEN Ended(r) ELSE [runs EXCEPT ![r].at = @ + 1]
    /\ UNCHANGED <<pageVars, net, flags, faults, flows, profile, cleared, known, timelineVars, recoveryVars, flowVars, profileVars, formVars, ticks>>

\* A lease is given once at a time, for a while.
Leased(r) == [runs EXCEPT ![r].lease = [id |-> r, nr |-> runs[r].given + 1], ![r].given = @ + 1]
Expired(r) == [runs EXCEPT ![r].lease = Nothing]

\* A lease expires; another browser takes one, or ends the run with the one it has.
LeaseMoves(r) ==
    /\ area = "recovery" /\ Exists(r) /\ runs[r].state = "orphaned"
    /\ \/ Is(runs[r].lease) /\ runs' = Expired(r)
       \/ ~Is(runs[r].lease) /\ runs[r].given < MaxRevision /\ runs' = Leased(r)
       \/ Is(runs[r].lease) /\ runs[r].lease # leases[r] /\ runs' = Ended(r)
    /\ UNCHANGED <<pageVars, net, flags, faults, flows, profile, cleared, known, timelineVars, recoveryVars, flowVars, profileVars, formVars, ticks>>

FlowMoves(f) ==
    /\ area = "flows" /\ Is(flows[f]) /\ flows[f].at < MaxRevision
    /\ \E open \in {{}, {"answer"}, {"conflict"}} : flows' = [flows EXCEPT ![f] = [id |-> f, at |-> @.at + 1, open |-> open]]
    /\ UNCHANGED <<pageVars, net, flags, faults, runs, profile, cleared, known, timelineVars, recoveryVars, flowVars, profileVars, formVars, ticks>>

\* Another window saves the profile.
ProfileMoves ==
    /\ area \in {"profile", "draft"} /\ profile.at < MaxRevision
    /\ \E i \in Installations \ {profile.rule} : profile' = [profile EXCEPT !.at = @ + 1, !.rule = i]
    /\ UNCHANGED <<pageVars, net, flags, faults, runs, flows, cleared, known, timelineVars, recoveryVars, flowVars, profileVars, formVars, ticks>>

ServerMoves == ProfileMoves \/ (\E r \in Runs : RunMoves(r) \/ LeaseMoves(r)) \/ (\E f \in Flows : FlowMoves(f))

\* What an order changes, and what it is answered.
ServeCancel(a) ==
    LET ok == runs[a.id].at = a.at /\ runs[a.id].state = "active" /\ runs[a.id].at < MaxRevision
    IN  [ok |-> ok, runs |-> IF ok THEN Ended(a.id) ELSE runs]

ServeAcquire(a) ==
    LET ok == /\ runs[a.id].at = a.at /\ runs[a.id].state = "orphaned"
              /\ ~Is(runs[a.id].lease) /\ runs[a.id].given < MaxRevision
    IN  [ok |-> ok, runs |-> IF ok THEN Leased(a.id) ELSE runs]

ServeResolve(a) ==
    LET ok == runs[a.id].at = a.at /\ runs[a.id].state = "orphaned" /\ runs[a.id].lease = a.lease
    IN  [ok |-> ok, runs |-> IF ok THEN Ended(a.id) ELSE runs]

Opens(f) == flows[f].at < MaxRevision
ServeContinue(a) ==
    LET ok == flows[a.id].at = a.at /\ "answer" \in flows[a.id].open /\ Opens(a.id)
    IN  [ok |-> ok, flows |-> IF ok THEN [flows EXCEPT ![a.id].at = @ + 1, ![a.id].open = @ \ {"answer"}] ELSE flows]

ServeCancelFlow(a) ==
    LET ok == flows[a.id].at = a.at /\ Opens(a.id)
    IN  [ok |-> ok, flows |-> IF ok THEN [flows EXCEPT ![a.id].at = @ + 1, ![a.id].open = {}] ELSE flows]

ServeConflict(a) ==
    LET ok == flows[a.id].at = a.at /\ "conflict" \in flows[a.id].open /\ Opens(a.id)
    IN  [ok |-> ok, flows |-> IF ok THEN [flows EXCEPT ![a.id].at = @ + 1, ![a.id].open = @ \ {"conflict"}] ELSE flows]

ServeSave(a) ==
    LET ok == profile.at = a.at /\ profile.at < MaxRevision
    IN  [ok |-> ok, profile |-> IF ok THEN [at |-> profile.at + 1, rule |-> a.rule, codex |-> a.codex] ELSE profile]

\* The preflight finds a request ready when the profile admits its installation.
ServePreflight(a) == [ready |-> a.picked = profile.rule, of |-> a]

\* A new run is started after the same questions.
Fresh == {r \in Runs : ~Exists(r)}
FreshFlows == {f \in Flows : ~Is(flows[f])}
ServeCreate(a, r) ==
    LET ok == a.picked = profile.rule
    IN  [ok |-> ok, runs |-> IF ok THEN [runs EXCEPT ![r] = NewRun(r, "active")] ELSE runs]

Answer(q, ok, value) ==
    net' = (net \ {q}) \cup {[q EXCEPT !.is = IF ok THEN "answered" ELSE "refused", !.ans = IF ok THEN value ELSE Nothing]}
OverRuns(q, s, value) == runs' = s.runs /\ Answer(q, s.ok, value) /\ UNCHANGED <<flows, profile, cleared>>
OverFlows(q, s) == flows' = s.flows /\ Answer(q, s.ok, s.flows[q.arg.id]) /\ UNCHANGED <<runs, profile, cleared>>

\* What is read, and the answer shows that moment.
ReadEvents(a) == [id |-> a.id, last |-> runs[a.id].at]
ReadRun(a) == runs[a.id]
ReadRuns == runs
ReadRecovery == runs
ReadFlows == flows
ReadFlow(a) == flows[a.id]
ReadProfile == profile
ReadProviders == Nothing

ServeRead(q) ==
    /\ q.op \in Reads
    /\ Answer(q, TRUE, CASE q.op = "runs" -> ReadRuns
                   [] q.op = "ops" -> ReadRecovery
                   [] q.op = "run" -> ReadRun(q.arg)
                   [] q.op = "events" -> ReadEvents(q.arg)
                   [] q.op = "flows" -> ReadFlows
                   [] q.op = "flow" -> ReadFlow(q.arg)
                   [] q.op = "loadProfile" -> ReadProfile
                   [] q.op = "providers" -> ReadProviders
                   [] q.op = "preflight" -> ServePreflight(q.arg.of))
    /\ cleared' = IF q.op = "preflight" /\ ServePreflight(q.arg.of).ready THEN cleared \cup {q.arg.of} ELSE cleared
    /\ UNCHANGED <<runs, flows, profile>>

ServeOrder(q) ==
    \/ q.op = "cancelRun" /\ LET s == ServeCancel(q.arg) IN OverRuns(q, s, s.runs[q.arg.id])
    \/ q.op = "acquire" /\ LET s == ServeAcquire(q.arg) IN OverRuns(q, s, s.runs[q.arg.id].lease)
    \/ q.op = "resolve" /\ LET s == ServeResolve(q.arg) IN OverRuns(q, s, s.runs[q.arg.id])
    \/ q.op = "createRun" /\ \E r \in Fresh : LET s == ServeCreate(q.arg, r) IN OverRuns(q, s, s.runs[r])
    \/ q.op = "continue" /\ OverFlows(q, ServeContinue(q.arg))
    \/ q.op = "cancelFlow" /\ OverFlows(q, ServeCancelFlow(q.arg))
    \/ q.op = "conflict" /\ OverFlows(q, ServeConflict(q.arg))
    \/ /\ q.op \in {"saveProfile", "fixProfile"}
       /\ LET s == ServeSave(q.arg) IN profile' = s.profile /\ Answer(q, s.ok, s.profile)
       /\ UNCHANGED <<runs, flows, cleared>>
    \/ /\ q.op = "createFlow"
       /\ \/ FreshFlows = {} /\ Answer(q, FALSE, Nothing) /\ UNCHANGED flows
          \/ \E f \in FreshFlows : flows' = [flows EXCEPT ![f] = NewFlow(f)] /\ Answer(q, TRUE, NewFlow(f))
       /\ UNCHANGED <<runs, profile, cleared>>
    \/ q.op = "approveVersion" /\ Answer(q, TRUE, Nothing) /\ UNCHANGED serverVars

Serve(q) ==
    /\ ~Told(q) /\ (ServeRead(q) \/ ServeOrder(q))
    /\ UNCHANGED <<pageVars, flags, faults, known, timelineVars, recoveryVars, flowVars, profileVars, formVars, ticks>>

\* The connection fails, before the server has acted or after.
Lose(q) ==
    /\ ~Failed(q) /\ faults < MaxFaults[area] /\ faults' = faults + 1
    /\ net' = (net \ {q}) \cup {[q EXCEPT !.is = "lost", !.ans = Nothing]}
    /\ UNCHANGED <<pageVars, flags, serverVars, known, timelineVars, recoveryVars, flowVars, profileVars, formVars, ticks>>

-----------------------------------------------------------------------------
(* Pages, and the poll *)

\* The handlers of a page change nothing on the server.
Client == UNCHANGED <<area, faults, serverVars>>

Poll ==
    /\ MayAsk /\ section = "agents"
    /\ LET asked == IF area = "flows" THEN RefreshFlows(flags) ELSE RefreshRuns(flags)
       IN  area \in {"runs", "recovery", "flows"} /\ asked # {} /\ Start(asked, {})
    /\ Client /\ UNCHANGED <<section, known, timelineVars, recoveryVars, flowVars, profileVars, formVars, ticks>>

ClosesDialog == dialog' = Nothing /\ ticks' = [ticks EXCEPT !["recovery"] = Nothing]
KeepsDialog == UNCHANGED <<dialog, ticks>>

\* select(): another page stops the stream and the poll, and closes the dialog.
LeavePage ==
    /\ area \in {"runs", "recovery"} /\ section = "agents" /\ MayAsk /\ section' = "other"
    /\ stream' = Nothing /\ ClosesDialog
    /\ Client /\ UNCHANGED <<net, flags, known, shown, cursor, recovery, leases, flowVars, profileVars, formVars>>

OpenPage ==
    /\ section = "other" /\ section' = "agents" /\ Start(RefreshRuns(flags), {})
    /\ Client /\ UNCHANGED <<known, timelineVars, recoveryVars, flowVars, profileVars, formVars, ticks>>

-----------------------------------------------------------------------------
(* Runs and their timeline *)

\* Bound: the timeline is followed where it is the area of interest.
Follows == area = "runs"

\* The timeline belongs to one run: another run starts it anew.
Shows(copy) ==
    /\ shown' = copy
    /\ cursor' = IF shown.id = copy.id THEN cursor ELSE 0
    /\ stream' = [id |-> copy.id]

RefreshShown(id) == IF section = "agents" THEN {Ask("run", [id |-> id])} ELSE {}

SelectRun(r) ==
    /\ area = "runs" /\ section = "agents" /\ MayAsk /\ Is(known[r])
    /\ Shows(known[r]) /\ Start(RefreshShown(r), {})
    /\ Client /\ UNCHANGED <<section, known, recoveryVars, flowVars, profileVars, formVars, ticks>>

\* The list: the copy of the shown run is replaced; the first run is shown when there is none.
RunsAnswered(q) ==
    /\ q.op = "runs" /\ Told(q)
    /\ IF Failed(q) THEN Finish(q, {}, {}) /\ UNCHANGED <<known, timelineVars>>
       ELSE /\ known' = q.ans
            /\ \/ ~Follows /\ Finish(q, {}, {}) /\ UNCHANGED timelineVars
               \/ /\ Follows /\ Is(shown) /\ shown' = (IF Is(q.ans[shown.id]) THEN q.ans[shown.id] ELSE shown)
                  /\ UNCHANGED <<cursor, stream>> /\ Finish(q, RefreshShown(shown.id), {})
               \/ \E r \in Runs : Follows /\ ~Is(shown) /\ Is(q.ans[r]) /\ Shows(q.ans[r]) /\ Finish(q, RefreshShown(r), {})
               \/ Follows /\ ~Is(shown) /\ (\A r \in Runs : ~Is(q.ans[r])) /\ Finish(q, {}, {}) /\ UNCHANGED timelineVars
    /\ Client /\ UNCHANGED <<section, recoveryVars, flowVars, profileVars, formVars, ticks>>

RunAnswered(q) ==
    /\ q.op = "run" /\ Told(q)
    /\ IF Failed(q) \/ shown.id # q.arg.id THEN Finish(q, {}, {}) /\ UNCHANGED <<known, shown>>
       ELSE /\ shown' = q.ans
            /\ known' = [r \in Runs |-> IF known[r].id = q.arg.id THEN q.ans ELSE known[r]]
            /\ Finish(q, {Ask("events", [id |-> q.arg.id, after |-> cursor])}, {})
    /\ Client /\ UNCHANGED <<section, cursor, stream, recoveryVars, flowVars, profileVars, formVars, ticks>>

\* mergeAgentEvents(): an event is kept by its sequence, the timeline goes up to the last.
Merged(last) == IF last > cursor THEN last ELSE cursor

EventsAnswered(q) ==
    /\ q.op = "events" /\ Told(q)
    /\ cursor' = IF Failed(q) \/ shown.id # q.arg.id THEN cursor ELSE Merged(q.ans.last)
    /\ Finish(q, {}, {})
    /\ Client /\ UNCHANGED <<section, known, shown, stream, recoveryVars, flowVars, profileVars, formVars, ticks>>

\* The stream brings the events the timeline does not have yet; the last one ends it.
\* What it brings of a run that is not shown is dropped.
StreamEvent ==
    /\ Is(stream) /\ shown.id = stream.id
    /\ LET last == runs[stream.id].state = "ended" /\ cursor + 1 >= runs[stream.id].at
       IN  /\ last \/ cursor < runs[stream.id].at
           /\ cursor' = Merged(IF cursor < runs[stream.id].at THEN cursor + 1 ELSE cursor)
           /\ stream' = IF last THEN Nothing ELSE stream
           /\ IF last THEN Start(RefreshRuns(flags), {}) ELSE UNCHANGED <<net, flags>>
    /\ Client /\ UNCHANGED <<section, known, shown, recoveryVars, flowVars, profileVars, formVars, ticks>>

StreamFails ==
    /\ Is(stream) /\ faults < MaxFaults[area] /\ faults' = faults + 1 /\ stream' = Nothing
    /\ UNCHANGED <<pageVars, net, flags, serverVars, known, shown, cursor, recoveryVars, flowVars, profileVars, formVars, ticks>>

CancelRun ==
    /\ area = "runs" /\ section = "agents" /\ MayAsk /\ "agentBusy" \notin flags
    /\ Is(shown) /\ shown.state = "active"
    /\ Start({Ask("cancelRun", [id |-> shown.id, at |-> shown.at])}, {"agentBusy"})
    /\ Client /\ UNCHANGED <<section, known, timelineVars, recoveryVars, flowVars, profileVars, formVars, ticks>>

\* The cancelled run is shown, whatever run has been selected meanwhile.
CancelAnswered(q) ==
    /\ q.op = "cancelRun" /\ Told(q)
    /\ IF Failed(q) THEN Finish(q, {}, {}) /\ UNCHANGED shown
       ELSE shown' = q.ans /\ Finish(q, RefreshRuns(Left(q)), {})
    /\ Client /\ UNCHANGED <<section, known, cursor, stream, recoveryVars, flowVars, profileVars, formVars, ticks>>

-----------------------------------------------------------------------------
(* Recovery of orphaned runs *)

\* agentRecoveryActionUnavailableReason(): the lease of this browser is the server's.
MayDecide(r, diagnosis) ==
    /\ Is(diagnosis[r]) /\ known[r].id = r /\ known[r].state = "orphaned"
    /\ Is(leases[r]) /\ runs[r].lease = leases[r] /\ diagnosis[r].lease = leases[r]

MayAcquire(r) ==
    /\ Is(recovery[r]) /\ known[r].id = r /\ known[r].state = "orphaned" /\ ~Is(recovery[r].lease)

Acquire(r) ==
    /\ MayAsk /\ "agentBusy" \notin flags /\ MayAcquire(r)
    /\ Start({Ask("acquire", [id |-> r, at |-> known[r].at])}, {"agentBusy"})
    /\ Client /\ UNCHANGED <<section, known, timelineVars, recoveryVars, flowVars, profileVars, formVars, ticks>>

\* The lease is kept unless it has expired on the way; the diagnosis is read again.
AcquireAnswered(q) ==
    /\ q.op = "acquire" /\ Told(q)
    /\ IF Failed(q) \/ q.ans # runs[q.arg.id].lease THEN UNCHANGED leases
       ELSE leases' = [leases EXCEPT ![q.arg.id] = q.ans]
    /\ Finish(q, RefreshRuns(Left(q) \cup {"runsPoll"}), {})
    /\ Client /\ UNCHANGED <<section, known, timelineVars, recovery, dialog, flowVars, profileVars, formVars, ticks>>

Orphans(all) == [r \in Runs |-> IF Is(all[r]) /\ all[r].state = "orphaned" THEN [id |-> r, lease |-> all[r].lease] ELSE Nothing]

\* A lease that has expired or is not the server's is forgotten; a lease the answer
\* does not know of yet is kept; a dialog that cannot be confirmed any more is closed.
OpsAnswered(q) ==
    /\ q.op = "ops" /\ Told(q)
    /\ IF Failed(q) THEN UNCHANGED recovery /\ UNCHANGED leases /\ KeepsDialog
       ELSE LET now == Orphans(q.ans)
                keeps(r) == /\ Is(now[r]) /\ (Is(now[r].lease) => now[r].lease = leases[r])
                            /\ runs[r].lease = leases[r]
            IN  /\ recovery' = now
                /\ leases' = [r \in Runs |-> IF keeps(r) THEN leases[r] ELSE Nothing]
                /\ IF Is(dialog) /\ ~(MayDecide(dialog.id, now) /\ keeps(dialog.id)) THEN ClosesDialog ELSE KeepsDialog
    /\ Finish(q, {}, {})
    /\ Client /\ UNCHANGED <<section, known, timelineVars, flowVars, profileVars, formVars>>

OpenDialog(r) ==
    /\ area = "recovery" /\ section = "agents" /\ "agentBusy" \notin flags /\ MayDecide(r, recovery)
    /\ \E d \in {"cleanup", "resume"} : dialog' = [id |-> r, decision |-> d, at |-> known[r].at, lease |-> leases[r]]
    /\ ticks' = [ticks EXCEPT !["recovery"] = Nothing]
    /\ Client /\ UNCHANGED <<section, net, flags, known, timelineVars, recovery, leases, flowVars, profileVars, formVars>>

CloseDialog ==
    /\ Is(dialog) /\ ClosesDialog
    /\ Client /\ UNCHANGED <<section, net, flags, known, timelineVars, recovery, leases, flowVars, profileVars, formVars>>

TickDialog ==
    /\ Is(dialog) /\ ticks' = [ticks EXCEPT !["recovery"] = dialog]
    /\ Client /\ UNCHANGED <<section, net, flags, known, timelineVars, recoveryVars, flowVars, profileVars, formVars>>

\* The questions of the dialog are asked again before the order is sent.
Confirm ==
    /\ Is(dialog) /\ Is(ticks["recovery"]) /\ "agentBusy" \notin flags
    /\ IF MayDecide(dialog.id, recovery) /\ known[dialog.id].at = dialog.at
       THEN /\ MayAsk
            /\ Start({Order("resolve", dialog, ticks["recovery"])}, {"agentBusy"})
            /\ KeepsDialog
       ELSE ClosesDialog /\ Start(RefreshRuns(flags \cup {"runsPoll"}), {})
    /\ Client /\ UNCHANGED <<section, known, timelineVars, recovery, leases, flowVars, profileVars, formVars>>

ResolveAnswered(q) ==
    /\ q.op = "resolve" /\ Told(q)
    /\ IF Failed(q) THEN UNCHANGED <<known, leases, shown>>
       ELSE /\ leases' = [leases EXCEPT ![q.arg.id] = Nothing]
            /\ known' = [known EXCEPT ![q.arg.id] = q.ans]
            /\ shown' = IF shown.id = q.arg.id THEN q.ans ELSE shown
    /\ ClosesDialog /\ Finish(q, RefreshRuns(Left(q)), {})
    /\ Client /\ UNCHANGED <<section, cursor, stream, recovery, flowVars, profileVars, formVars>>

-----------------------------------------------------------------------------
(* Orchestrations *)

\* selectAgentOrchestration(): whatever was confirmed is taken back.
ShowsFlow(copy) == flow' = copy /\ choice' = None /\ Untick(FlowTicks)

FlowClient == Client /\ UNCHANGED <<section, known, timelineVars, recoveryVars, profileVars, formVars>>

SelectFlow(f) ==
    /\ area = "flows" /\ MayAsk /\ Is(flows[f]) /\ Start({Ask("flow", [id |-> f])}, {})
    /\ FlowClient /\ UNCHANGED <<flowVars, ticks>>

FlowAnswered(q) ==
    /\ q.op = "flow" /\ Told(q)
    /\ IF Failed(q) THEN UNCHANGED <<flowVars, ticks>> ELSE ShowsFlow(q.ans)
    /\ Finish(q, {}, {}) /\ FlowClient

\* Mutant: the confirmations stay.
RefreshedInPlace(old, new) == flow' = new /\ UNCHANGED <<choice, ticks>>

\* The list: another revision of the selected orchestration takes the confirmations back.
Refreshed(old, new) == IF new.at # old.at THEN ShowsFlow(new) ELSE flow' = new /\ UNCHANGED <<choice, ticks>>

FlowsAnswered(q) ==
    /\ q.op = "flows" /\ Told(q)
    /\ LET there == {f \in Flows : Is(q.ans[f])}
       IN  IF Failed(q) THEN UNCHANGED <<flowVars, ticks>>
           ELSE IF Is(flow) THEN IF flow.id \in there THEN Refreshed(flow, q.ans[flow.id]) ELSE UNCHANGED <<flowVars, ticks>>
           ELSE IF there = {} THEN UNCHANGED <<flowVars, ticks>>
           ELSE \E f \in there : ShowsFlow(q.ans[f])
    /\ Finish(q, {}, {}) /\ FlowClient

CreateFlow ==
    /\ area = "flows" /\ MayAsk /\ "flowBusy" \notin flags
    /\ Start({Ask("createFlow", Nothing)}, {"flowBusy"})
    /\ FlowClient /\ UNCHANGED <<flowVars, ticks>>

OnFlow(t) ==
    IF t = "conflict" THEN [id |-> flow.id, at |-> flow.at, choice |-> choice] ELSE [id |-> flow.id, at |-> flow.at]
MayTick(t) == Is(flow) /\ (t = "conflict" => choice # None)

\* A confirmation names the revision it is ticked for; a conflict's names the choice, too.
TickFlow(t) ==
    /\ MayTick(t) /\ ticks' = [ticks EXCEPT ![t] = OnFlow(t)]
    /\ FlowClient /\ UNCHANGED <<net, flags, flowVars>>

\* Another choice takes the confirmation of a conflict back.
Choose ==
    /\ Is(flow) /\ "conflict" \in flow.open
    /\ choice' \in {"both", "one"} /\ ticks' = [ticks EXCEPT !["conflict"] = Nothing]
    /\ FlowClient /\ UNCHANGED <<net, flags, flow>>

SendsFlow(op, t) ==
    /\ MayAsk /\ "flowBusy" \notin flags /\ Is(ticks[t])
    /\ Start({Order(op, OnFlow(t), ticks[t])}, {"flowBusy"})
    /\ FlowClient /\ UNCHANGED <<flowVars, ticks>>

ContinueFlow == Is(flow) /\ "answer" \in flow.open /\ SendsFlow("continue", "answer")
CancelFlow == Is(flow) /\ flow.open # {} /\ SendsFlow("cancelFlow", "cancel")
ResolveConflict == Is(flow) /\ "conflict" \in flow.open /\ SendsFlow("conflict", "conflict")

FlowOrderAnswered(q) ==
    /\ q.op \in {"createFlow", "continue", "cancelFlow"} /\ Told(q)
    /\ IF Failed(q) THEN UNCHANGED <<flowVars, ticks>> ELSE ShowsFlow(q.ans)
    /\ Finish(q, {}, {}) /\ FlowClient

\* A conflict that another has resolved takes every confirmation back.
ConflictAnswered(q) ==
    /\ q.op = "conflict" /\ Told(q)
    /\ IF ~Failed(q) THEN ShowsFlow(q.ans)
       ELSE Untick(IF q.is = "refused" THEN FlowTicks ELSE {"conflict"}) /\ UNCHANGED flowVars
    /\ Finish(q, {}, {}) /\ FlowClient

-----------------------------------------------------------------------------
(* The security profile *)

ProfileClient == Client /\ UNCHANGED <<section, known, timelineVars, recoveryVars, flowVars>>

\* applyAgentConfigProfile(): the draft is the server's, nothing is confirmed, and
\* the forms pick an installation the profile admits.
Applies(p) == view' = p /\ draft' = p /\ picked' = p.rule /\ Untick(ProfileTicks)

LoadProfile ==
    /\ area \in {"profile", "draft"} /\ MayAsk
    /\ Start({Ask("loadProfile", Nothing)}, {"profileBusy"})
    /\ ProfileClient /\ UNCHANGED <<profileVars, formVars, ticks>>

LoadAnswered(q) ==
    /\ q.op = "loadProfile" /\ Told(q)
    /\ IF Failed(q) THEN Untick(ProfileTicks) /\ UNCHANGED <<view, draft, picked>> ELSE Applies(q.ans)
    /\ Finish(q, {}, {})
    /\ ProfileClient /\ UNCHANGED <<prompt, check>>

EditProfile ==
    /\ area = "profile" /\ view # NoProfile
    /\ \/ \E i \in Installations \ {draft.rule} : draft' = [draft EXCEPT !.rule = i] /\ Untick({"profile"})
       \/ draft' = [draft EXCEPT !.codex = ~@] /\ Untick(ProfileTicks)
    /\ ProfileClient /\ UNCHANGED <<net, flags, view, formVars>>

OnScreen == [at |-> view.at, rule |-> draft.rule, codex |-> draft.codex]
TickProfile ==
    /\ area = "profile" /\ view # NoProfile
    /\ ticks' \in {[ticks EXCEPT !["profile"] = OnScreen], [ticks EXCEPT !["optIn"] = [at |-> view.at]],
                    [ticks EXCEPT !["fix"] = [rule |-> picked]]}
    /\ ProfileClient /\ UNCHANGED <<net, flags, profileVars, formVars>>

\* agentConfigProfileSaveUnavailableReason()
MaySave(p, confirmed, optIn) == confirmed # Nothing /\ (p.codex /\ ~view.codex => optIn # Nothing)

SaveProfile ==
    /\ view # NoProfile /\ MayAsk /\ "profileBusy" \notin flags /\ MaySave(draft, ticks["profile"], ticks["optIn"])
    /\ Start({Order("saveProfile", OnScreen, ticks["profile"])}, {"profileBusy"})
    /\ ProfileClient /\ UNCHANGED <<profileVars, formVars, ticks>>

\* alignAgentProfileRuntimeTo(): the rule of the saved profile is set to what is picked.
AlignProfile ==
    /\ view # NoProfile /\ MayAsk /\ "profileBusy" \notin flags /\ Is(ticks["fix"]) /\ picked # view.rule
    /\ draft' = [view EXCEPT !.rule = picked]
    /\ ticks' = [ticks EXCEPT !["fix"] = Nothing, !["profile"] = draft']
    /\ Start({Order("fixProfile", draft', ticks["fix"])}, {"profileBusy"})
    /\ ProfileClient /\ UNCHANGED <<view, formVars>>

SaveAnswered(q) ==
    /\ q.op \in {"saveProfile", "fixProfile"} /\ Told(q)
    /\ IF Failed(q) THEN Untick(ProfileTicks) /\ Finish(q, {}, {}) /\ UNCHANGED <<profileVars, picked, check>>
       ELSE /\ Applies(q.ans) /\ check' = [check EXCEPT !.of = Nothing, !.ready = FALSE]
            /\ Finish(q, {Ask("providers", Nothing)}, {"agentBusy"})
    /\ ProfileClient /\ UNCHANGED prompt

\* approveProviderInstallation(), revokeProviderInstallation(), the credentials of a provider.
ApproveVersion ==
    /\ area = "profile" /\ MayAsk /\ "setupBusy" \notin flags
    /\ Start({Ask("approveVersion", Nothing)}, {"setupBusy"})
    /\ ProfileClient /\ UNCHANGED <<profileVars, formVars, ticks>>

ApproveAnswered(q) ==
    /\ q.op = "approveVersion" /\ Told(q)
    /\ IF Failed(q) THEN Finish(q, {}, {}) ELSE Finish(q, {Ask("providers", Nothing)}, {"agentBusy"})
    /\ ProfileClient /\ UNCHANGED <<profileVars, formVars, ticks>>

-----------------------------------------------------------------------------
(* The draft of a run and its preflight *)

Request(i, p) == IF p = None THEN Nothing ELSE [picked |-> i, prompt |-> p]
Current == Request(picked, prompt)

DraftClient == Client /\ UNCHANGED <<section, timelineVars, recoveryVars, flowVars, profileVars, ticks>>

\* scheduleAgentPreflight(): the last preflight is void, the next one waits for the timer.
Schedules(p) == check' = [of |-> Nothing, ready |-> FALSE, revision |-> check.revision + 1, timer |-> p # None]

EditDraft ==
    /\ area = "draft" /\ check.revision < MaxChecks
    /\ \/ \E p \in Prompts \cup {None} : prompt' = p /\ UNCHANGED picked
       \/ \E i \in Installations : picked' = i /\ UNCHANGED prompt
    /\ Schedules(prompt')
    /\ DraftClient /\ UNCHANGED <<net, flags, known>>

\* In the forms of the orchestrations an installation is picked without a preflight.
Pick(i) ==
    /\ area = "profile" /\ i # picked /\ picked' = i
    /\ DraftClient /\ UNCHANGED <<net, flags, known, prompt, check>>

\* refreshAgentPreflight(): asks for what the form says now; the last answer stays until then.
Preflights(i) ==
    IF prompt = None
    THEN check' = [check EXCEPT !.of = Nothing, !.ready = FALSE, !.timer = FALSE]
    ELSE check' = [check EXCEPT !.revision = @ + 1, !.timer = FALSE]
PreflightOf(i) == IF prompt = None THEN {} ELSE {Ask("preflight", [of |-> Request(i, prompt), revision |-> check'.revision])}

TimerFires ==
    /\ check.timer /\ Preflights(picked) /\ Start(PreflightOf(picked), {})
    /\ DraftClient /\ UNCHANGED <<known, picked, prompt>>

\* An answer counts when it is the last asked for and the form still says the same.
Counts(q) == q.arg.revision = check.revision /\ (Failed(q) \/ q.arg.of = Current)
PreflightAnswered(q) ==
    /\ q.op = "preflight" /\ Told(q)
    /\ IF ~Counts(q) THEN UNCHANGED check
       ELSE check' = [check EXCEPT !.of = IF Failed(q) THEN Nothing ELSE q.arg.of, !.ready = ~Failed(q) /\ q.ans.ready]
    /\ Finish(q, {}, {})
    /\ DraftClient /\ UNCHANGED <<known, picked, prompt>>

LoadProviders ==
    /\ area \in {"profile", "draft"} /\ MayAsk /\ "agentBusy" \notin flags /\ check.revision < MaxChecks
    /\ Start({Ask("providers", Nothing)}, {"agentBusy"})
    /\ DraftClient /\ UNCHANGED <<known, formVars>>

\* ensureAgentRuntimeSelection(): an installation the loaded profile admits is picked.
Admitted == IF view = NoProfile THEN picked ELSE view.rule
ProvidersAnswered(q) ==
    /\ q.op = "providers" /\ Told(q)
    /\ IF Failed(q) THEN Finish(q, {}, {}) /\ UNCHANGED <<picked, check>>
       ELSE picked' = Admitted /\ Preflights(Admitted) /\ Finish(q, PreflightOf(Admitted), {})
    /\ DraftClient /\ UNCHANGED <<known, prompt>>

\* agentPreflightMatchesCurrentDraft()
Matches == check.of # Nothing /\ check.of = Current
CreateRun ==
    /\ area = "draft" /\ MayAsk /\ "agentBusy" \notin flags
    /\ Current # Nothing /\ Matches /\ check.ready /\ view # NoProfile /\ view.rule = picked
    /\ Start({Ask("createRun", Current)}, {"agentBusy"})
    /\ DraftClient /\ UNCHANGED <<known, formVars>>

CreateAnswered(q) ==
    /\ q.op = "createRun" /\ Told(q)
    /\ IF Failed(q) THEN Finish(q, {}, {}) /\ UNCHANGED <<known, timelineVars, prompt, check>>
       ELSE /\ known' = [known EXCEPT ![q.ans.id] = q.ans] /\ prompt' = None /\ Schedules(None)
            /\ Shows(q.ans) /\ Finish(q, RefreshShown(q.ans.id), {})
    /\ Client /\ UNCHANGED <<section, recoveryVars, flowVars, profileVars, ticks, picked>>

-----------------------------------------------------------------------------

Handlers(q) ==
    \/ RunsAnswered(q) \/ RunAnswered(q) \/ EventsAnswered(q) \/ CancelAnswered(q)
    \/ OpsAnswered(q) \/ AcquireAnswered(q) \/ ResolveAnswered(q)
    \/ FlowsAnswered(q) \/ FlowAnswered(q) \/ FlowOrderAnswered(q) \/ ConflictAnswered(q)
    \/ LoadAnswered(q) \/ SaveAnswered(q) \/ ApproveAnswered(q)
    \/ ProvidersAnswered(q) \/ PreflightAnswered(q) \/ CreateAnswered(q)

RunActions(r) == SelectRun(r) \/ Acquire(r) \/ OpenDialog(r)

Next ==
    \/ ServerMoves
    \/ \E q \in net : Serve(q) \/ Lose(q) \/ Handlers(q)
    \/ Poll \/ LeavePage \/ OpenPage \/ StreamEvent \/ StreamFails \/ TimerFires
    \/ \E r \in Runs : RunActions(r)
    \/ CancelRun \/ CloseDialog \/ TickDialog \/ Confirm
    \/ \E f \in Flows : SelectFlow(f)
    \/ CreateFlow \/ (\E t \in FlowTicks : TickFlow(t)) \/ Choose \/ ContinueFlow \/ CancelFlow \/ ResolveConflict
    \/ LoadProfile \/ EditProfile \/ TickProfile \/ SaveProfile \/ AlignProfile \/ ApproveVersion
    \/ EditDraft \/ (\E i \in Installations : Pick(i)) \/ LoadProviders \/ CreateRun

Spec == Init /\ [][Next]_vars

-----------------------------------------------------------------------------
(* Properties *)

\* Every order that needs a confirmation carries exactly what was on the screen when
\* the user confirmed it: the run, revision, lease and decision of a recovery, the
\* revision of an orchestration, the choice in a conflict, the draft of the profile
\* and the state it replaces - whatever polls and answers came in between.
ConfirmedIsSent == \A q \in net : q.meant # Nothing /\ q.op # "fixProfile" => q.arg = q.meant

\* A run is only asked for as a preflight of the server has found it ready: the form,
\* the profile and the providers may change while a preflight is under way.
CheckedBeforeSent == \A q \in net : q.op = "createRun" => q.arg \in cleared

\* Nothing stays disabled and no poll stops for ever: a flag is set only while a
\* request is in flight whose answer, good or bad, clears it.
BusyMeansWaiting == \A f \in flags : \E q \in net : q.op \in ClearedBy[f]

=============================================================================
