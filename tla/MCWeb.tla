-------------------------------- MODULE MCWeb --------------------------------
(***************************************************************************)
(* The web client with two requests in flight, for TLC, one of: the CV     *)
(* studio with two imports, in one of its parts; the agent center with two *)
(* runs, an orchestration and two installations, in one of its areas.      *)
(***************************************************************************)
EXTENDS Integers, TLC

CONSTANTS
    Imports, Facts, AiRuns, Works,              \* CV studio
    Runs, Flows, Installations, Prompts,        \* agent center
    MaxChanges, MaxChecks

RequestsOf == [w \in Works |-> IF w = "ai" THEN 1 ELSE 2]
FaultsOf == [w \in Works |-> IF w \in {"versions", "claims"} THEN 1 ELSE 0]

Two == 2
AllAreas == {"runs", "recovery", "flows", "profile", "draft"}
CenterFaultsOf == [a \in AllAreas |-> IF a = "profile" THEN 0 ELSE 1]

VARIABLES screen, lost,
    task, page, sent, waits, imports, aiRuns, open, edits, theme, versions, claims,
    aiRun, options, reload, polling, ticks,
    area, section, under, flags, runs, flows, profile, cleared, known, selected, cursor, stream,
    recovery, leases, question, flow, choice, view, form, picked, prompt, check, confirmations

Studio == INSTANCE WebCvStudio
    WITH MaxRevision <- MaxChanges, MaxRequests <- RequestsOf, MaxFaults <- FaultsOf,
         work <- task, net <- sent, flags <- waits, faults <- lost, shown <- open, drafts <- edits
Center == INSTANCE WebAgentCenter
    WITH Areas <- AllAreas, MaxRevision <- MaxChanges, MaxRequests <- Two, MaxFaults <- CenterFaultsOf,
         net <- under, faults <- lost, shown <- selected, dialog <- question, draft <- form,
         ticks <- confirmations

\* No import and no orchestration is called like one that is not there.
ASSUME ImportsAssumption == {Studio!Nothing.id, Studio!Gone.id} \cap Imports = {}
ASSUME FlowsAssumption == Center!Nothing.id \notin Flows

studioVars == <<task, page, sent, waits, imports, aiRuns, open, edits, theme, versions, claims,
    aiRun, options, reload, polling, ticks>>
centerVars == <<area, section, under, flags, runs, flows, profile, cleared, known, selected, cursor, stream,
    recovery, leases, question, flow, choice, view, form, picked, prompt, check, confirmations>>
webVars == <<screen, lost, studioVars, centerVars>>

\* The page that is not worked on is at one of its beginnings.
WebInit ==
    /\ screen \in {"studio", "center"}
    /\ Studio!Init /\ (screen # "studio" => task = "theme" /\ \A i \in Imports : Studio!Is(imports[i]))
    /\ Center!Init /\ (screen # "center" => area = "profile" /\ picked = profile.rule)

WebNext ==
    \/ screen = "studio" /\ Studio!Next /\ UNCHANGED <<screen, centerVars>>
    \/ screen = "center" /\ Center!Next /\ UNCHANGED <<screen, studioVars>>

WebSpec == WebInit /\ [][WebNext]_webVars

\* No property is a liveness one, and what is interchangeable on one page does not
\* occur on the other.
Alike == Permutations(Imports) \cup Permutations(Runs) \cup Permutations(Installations)

-----------------------------------------------------------------------------
\* What is sent is what the user has confirmed or checked, what is on the screen
\* belongs together, and nothing stays disabled for ever (app.ts of the client).
ScreenIsTrue ==
    /\ Studio!TickedIsSent /\ Studio!BoundToShown /\ Studio!WaitsForAnswer
    /\ Center!ConfirmedIsSent /\ Center!CheckedBeforeSent /\ Center!BusyMeansWaiting

\* The answer to a change of a fact puts no other import on the screen (app.ts).
SavedStaysInPlace == Studio!SavedStaysInPlace

=============================================================================
