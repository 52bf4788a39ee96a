------------------------------ MODULE Settings ------------------------------
(***************************************************************************)
(* The configuration: identities, the runtime of the job sources and the   *)
(* permission to use external portals.  The server keeps it in one file    *)
(* with a revision (services/config-store.ts) behind routes of app.ts; the *)
(* web client (src/web/src/app/app.ts) edits a copy of the whole.          *)
(*                                                                         *)
(* A save sends the copy back, and is refused when the revision has moved  *)
(* on; identities are created and deleted without looking at it.  Other    *)
(* windows work on the same file.                                          *)
(***************************************************************************)
EXTENDS Integers, FiniteSets

CONSTANTS
    Identities,     \* ids of identities
    MaxRevision,    \* bound: revisions of the configuration
    MaxRequests,    \* bound: requests in flight beyond which the user starts none
    MaxFaults       \* bound: answers that are lost

VARIABLES
    config,         \* the file of the server
    net, faults,
    copy,           \* config of the client
    runtime,        \* mcpRuntime of the client
    dialog, tick,   \* portalPermissionIntent and portalPermissionConfirmed
    busy,           \* busy and mcpRuntimeBusy
    confirmed,      \* history: the portal access that was confirmed last
    deleted         \* history: identities that were deleted

vars == <<config, net, faults, copy, runtime, dialog, tick, busy, confirmed, deleted>>
clientVars == <<copy, runtime, dialog, tick>>

None == "none"
Targets == {"windows", "wsl"}
NoCopy == [rev |-> -1, target |-> None, ids |-> {}, active |-> None]

-----------------------------------------------------------------------------
(* Requests *)

Flag(op) == IF op = "select" THEN "runtime" ELSE "page"
Clears(op) == {Flag(op)} \ (IF op \in {"runtime"} THEN {"page"} ELSE {})
Ask(op, arg) == [op |-> op, arg |-> arg, is |-> "sent", got |-> NoCopy]
Starts(op, arg) ==
    /\ Cardinality(net) < MaxRequests
    /\ net' = net \cup {Ask(op, arg)} /\ busy' = busy \cup Clears(op)
    /\ UNCHANGED <<config, faults, confirmed, deleted>>
Told(q) == q.is \in {"answered", "refused", "lost"}
Failed(q) == q.is \in {"refused", "lost"}
Answer(q, got) == net' = (net \ {q}) \cup {[q EXCEPT !.is = "answered", !.got = got]}
Refuse(q) == net' = (net \ {q}) \cup {[q EXCEPT !.is = "refused"]} /\ UNCHANGED config

\* publicConfigView(): the value of the portal variable stays with the server.
View(c) == [rev |-> c.rev, target |-> c.target, ids |-> c.ids, active |-> c.active]

-----------------------------------------------------------------------------

Init ==
    /\ \E ids \in SUBSET Identities, a \in Identities, t \in Targets \cup {"demo"} :
         a \in ids /\ config = [rev |-> 0, portal |-> FALSE, target |-> t, ids |-> ids, active |-> a]
    /\ net = {} /\ faults = 0 /\ copy = NoCopy /\ runtime = None /\ dialog = None /\ tick = FALSE /\ busy = {}
    /\ confirmed = FALSE /\ deleted = {}

-----------------------------------------------------------------------------
(* The server: one change at a time, the file is replaced by a rename *)

\* Mutant: any revision will do.
AnyRevision(rev) == TRUE

\* compareAndSave()
Current(rev) == rev = config.rev

Saves(change) == config.rev < MaxRevision /\ config' = [change EXCEPT !.rev = config.rev + 1]

ServeConfig(q) == q.op = "config" /\ q.is = "sent" /\ Answer(q, View(config)) /\ UNCHANGED <<config, confirmed, deleted>>

\* withServerOwnedIntegrationSettings(): runtime and portal variable stay as they are, a copy
\* with another runtime is refused; the schema wants the active identity among the identities.
ServeSave(q) ==
    /\ q.op = "save" /\ q.is = "sent" /\ UNCHANGED <<confirmed, deleted>>
    /\ IF Current(q.arg.rev) /\ q.arg.target = config.target /\ q.arg.active \in q.arg.ids
       THEN Saves([config EXCEPT !.ids = q.arg.ids, !.active = q.arg.active]) /\ Answer(q, View(config'))
       ELSE Refuse(q)

\* Enabling wants a runtime that can be validated, inside the same change.
ServePortal(q) ==
    /\ q.op = "portal" /\ q.is = "sent" /\ UNCHANGED deleted
    /\ \/ /\ Current(q.arg.rev) /\ (q.arg.on => config.target \in Targets)
          /\ Saves([config EXCEPT !.portal = q.arg.on]) /\ Answer(q, View(config')) /\ confirmed' = q.arg.on
       \/ /\ ~Current(q.arg.rev) \/ q.arg.on
          /\ Refuse(q) /\ UNCHANGED confirmed

\* buildJobSearchMcpRuntimeSettings(): a new runtime with the portal variable as it is.
ServeSelect(q) ==
    /\ q.op = "select" /\ q.is = "sent" /\ UNCHANGED <<confirmed, deleted>>
    /\ \/ Current(q.arg.rev) /\ Saves([config EXCEPT !.target = q.arg.target]) /\ Answer(q, View(config'))
       \/ Refuse(q)

\* createIncognitoIdentity()
WithNew(i) == [config EXCEPT !.ids = @ \cup {i}, !.active = i]
Fresh(i) == i \notin config.ids \cup deleted
ServeIncognito(q) ==
    /\ q.op = "incognito" /\ q.is = "sent" /\ UNCHANGED <<confirmed, deleted>>
    /\ \E i \in Identities : Fresh(i) /\ Saves(WithNew(i)) /\ Answer(q, NoCopy)

Deletes(i) ==
    /\ config.ids # {i} /\ i \in config.ids /\ deleted' = deleted \cup {i}
    /\ \E first \in config.ids \ {i} :
         /\ (config.active # i => first = config.active)
         /\ Saves([config EXCEPT !.ids = @ \ {i}, !.active = first])
ServeDeleteIdentity(q) ==
    /\ q.op = "delete" /\ q.is = "sent" /\ UNCHANGED confirmed
    /\ IF q.arg \in config.ids /\ config.ids # {q.arg} THEN Deletes(q.arg) /\ Answer(q, NoCopy)
       ELSE Refuse(q) /\ UNCHANGED deleted

\* inspectTrustedHostMcpRuntime() looks at the files of the runtime.
ServeRuntime(q) ==
    /\ q.op = "runtime" /\ q.is = "sent" /\ UNCHANGED <<config, confirmed, deleted>>
    /\ \E state \in IF config.target = "demo" THEN {"demo"} ELSE {"ready", "invalid"} :
         Answer(q, [NoCopy EXCEPT !.target = state])

Serve(q) ==
    /\ \/ ServeConfig(q) \/ ServeSave(q) \/ ServePortal(q) \/ ServeSelect(q)
       \/ ServeIncognito(q) \/ ServeDeleteIdentity(q) \/ ServeRuntime(q)
    /\ UNCHANGED <<faults, clientVars, busy>>

\* The answer does not arrive, the change has been made.
IsLost(q) ==
    /\ faults < MaxFaults /\ faults' = faults + 1 /\ q.is = "answered"
    /\ net' = (net \ {q}) \cup {[q EXCEPT !.is = "lost"]}
    /\ UNCHANGED <<config, clientVars, busy, confirmed, deleted>>

\* Another window, which has just loaded the configuration.
OtherWindow ==
    /\ \/ \E on \in BOOLEAN : (on => config.target \in Targets) /\ Saves([config EXCEPT !.portal = on]) /\ confirmed' = on /\ UNCHANGED deleted
       \/ \E i \in Identities : Deletes(i) /\ UNCHANGED confirmed
    /\ UNCHANGED <<net, faults, clientVars, busy>>

-----------------------------------------------------------------------------
(* The client *)

Loaded == copy # NoCopy

\* The page at its start.
Load ==
    /\ ~Loaded /\ net = {} /\ net' = {Ask("config", None), Ask("runtime", None)}
    /\ busy' = busy /\ UNCHANGED <<config, faults, confirmed, deleted, clientVars>>
RefreshSources == Loaded /\ (\A q \in net : q.op # "runtime") /\ Starts("runtime", None) /\ UNCHANGED clientVars

\* What the user has edited in the copy goes with it: here the active identity.
ChooseIdentity(i) ==
    /\ Loaded /\ i \in copy.ids /\ copy' = [copy EXCEPT !.active = i]
    /\ UNCHANGED <<config, net, faults, runtime, dialog, tick, busy, confirmed, deleted>>
SaveConfig == Loaded /\ "page" \notin busy /\ Starts("save", copy) /\ UNCHANGED clientVars

SelectMcpRuntime(t) ==
    /\ Loaded /\ "runtime" \notin busy /\ copy.target # t
    /\ Starts("select", [rev |-> copy.rev, target |-> t]) /\ UNCHANGED clientVars

PortalAvailable(intent) == intent = "disable" \/ runtime = "ready"
OpenPortalPermissionDialog(intent) ==
    /\ dialog = None /\ Loaded /\ PortalAvailable(intent) /\ dialog' = intent /\ tick' = FALSE
    /\ UNCHANGED <<config, net, faults, copy, runtime, busy, confirmed, deleted>>
Tick == dialog # None /\ tick' = ~tick /\ UNCHANGED <<config, net, faults, copy, runtime, dialog, busy, confirmed, deleted>>
ClosePortalPermissionDialog ==
    /\ dialog # None /\ dialog' = None /\ tick' = FALSE
    /\ UNCHANGED <<config, net, faults, copy, runtime, busy, confirmed, deleted>>
ConfirmPortalPermission ==
    /\ dialog # None /\ tick /\ "page" \notin busy /\ PortalAvailable(dialog)
    /\ Starts("portal", [rev |-> copy.rev, on |-> dialog = "enable"]) /\ UNCHANGED clientVars

CreateIncognito == Loaded /\ (\E i \in Identities : Fresh(i)) /\ "page" \notin busy /\ Starts("incognito", None) /\ UNCHANGED clientVars
DeleteIdentity(i) ==
    /\ Loaded /\ "page" \notin busy /\ i \in copy.ids /\ copy.ids # {i}
    /\ Starts("delete", i) /\ UNCHANGED clientVars

Finish(q, asked) ==
    /\ net' = (net \ {q}) \cup asked
    /\ busy' = (busy \ Clears(q.op)) \cup UNION {Clears(x.op) : x \in asked}
    /\ UNCHANGED <<config, faults, confirmed, deleted>>

ConfigAnswered(q) ==
    /\ q.op = "config" /\ Finish(q, {}) /\ UNCHANGED <<runtime, dialog, tick>>
    /\ copy' = IF Failed(q) THEN copy ELSE q.got
\* saveConfig(), selectMcpRuntime(): the answer replaces the copy.
SaveAnswered(q) ==
    /\ q.op \in {"save", "select"} /\ UNCHANGED <<runtime, dialog, tick>>
    /\ copy' = IF Failed(q) THEN copy ELSE q.got
    /\ Finish(q, IF Failed(q) THEN {} ELSE {Ask("runtime", None)})
PortalAnswered(q) ==
    /\ q.op = "portal" /\ dialog' = None /\ tick' = FALSE /\ UNCHANGED runtime
    /\ copy' = IF Failed(q) THEN copy ELSE q.got
    /\ Finish(q, IF Failed(q) THEN {} ELSE {Ask("runtime", None)})
IdentityAnswered(q) ==
    /\ q.op \in {"incognito", "delete"} /\ Finish(q, IF Failed(q) THEN {} ELSE {Ask("config", None)})
    /\ UNCHANGED clientVars
RuntimeAnswered(q) ==
    /\ q.op = "runtime" /\ Finish(q, {}) /\ UNCHANGED <<copy, dialog, tick>>
    /\ runtime' = IF Failed(q) THEN None ELSE q.got.target

Handles(q) ==
    Told(q) /\ (ConfigAnswered(q) \/ SaveAnswered(q) \/ PortalAnswered(q) \/ IdentityAnswered(q) \/ RuntimeAnswered(q))

Next ==
    \/ \E q \in net : Serve(q) \/ IsLost(q) \/ Handles(q)
    \/ OtherWindow
    \/ Load \/ RefreshSources \/ SaveConfig \/ CreateIncognito
    \/ Tick \/ ClosePortalPermissionDialog \/ ConfirmPortalPermission
    \/ \E i \in Identities : ChooseIdentity(i) \/ DeleteIdentity(i)
    \/ \E t \in Targets : SelectMcpRuntime(t)
    \/ \E intent \in {"enable", "disable"} : OpenPortalPermissionDialog(intent)

Spec == Init /\ [][Next]_vars

-----------------------------------------------------------------------------
(* Properties *)

\* Portal access is what was confirmed last, a deleted identity stays deleted and the active
\* identity exists, whatever copies of older revisions are saved by this window or another.
SettingsStand ==
    /\ config.portal = confirmed
    /\ config.ids \cap deleted = {}
    /\ config.active \in config.ids

=============================================================================
