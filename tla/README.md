# TLA+ models of job-match-and-apply

This directory models the repository where calls, timers, processes, windows and
crashes interleave: the control center that runs agents, with its store,
providers and approvals; the workflows of several agents; the records the server
keeps for a user; and the pages of the web client that edit them. Pure data
(parsers, matching, prompts, schemas, layout) is left to the unit tests.

Paths are relative to the root of the repository. `agents/` stands for
`src/server/src/agents/`, `services/` for `src/server/src/services/`, `app.ts`
for `src/server/src/app.ts`; a bare line number belongs to the file named before.

## 1. The system

The server is one Node.js process. Code runs without interruption up to its next
`await`; between two awaits every other call may run. Two facts decide most of
what is hard here: what a call has read before an `await` may be stale after it,
and the process may end between any two writes. In the web client the same holds
for requests: an answer is handled when it arrives, and by then the user may look
at something else.

```
web client (src/web/src/app/app.ts) ── ApiService ──┐
                                                    v
HTTP API (app.ts) ──> AgentControlCenter ──> adapters ──> ProcessSupervisor ──> provider
   │                     │      └──> AgentRunStore (run.json, events.jsonl)
   │                     └── queue, slots, provider registry (memory)
   ├──> ApplicationOrchestrationService ──> OrchestrationRunner ──> executeNode ──┐
   │        └──> orchestration store           AsyncSemaphore <───────────────────┤
   │                                            control center (one run per node) ┘
   ├──> ApprovalQueue ──> approval journal <── MCP facade (tools of a run) ──> application case
   ├──> claims of idempotency keys, profile and approved versions, retention and holds
   └──> workspace.json, config.json, CV imports and AI runs, mail vault, style profile
```

### Components, their state and what makes them correct

| Component | State it keeps | Operations | Hard behaviour | Correct if |
|---|---|---|---|---|
| Run scheduler (`agents/agent-control-center.ts`) | queue, parallel slots, admissions, priorities | `enqueue`, `schedule`, `execute`, `cancel` | every call awaits the store between reading and writing | limits hold, no run starts twice or after its cancellation, every run gets its turn |
| Run lifecycle and run store (same file, `agents/run-store.ts`, `state-machine.ts`) | `run.json`, `events.jsonl`, provider registry | `execute`, `emit`, `cancel`, `sendInput`, recovery | provider, cancel and answer race; a crash between two writes | the log leads, one verdict, what is over stays over |
| Run admission (`app.ts`, `agents/idempotency-store.ts`) | map of keys, claims on disk | `POST /api/agent-runs`, emergency stop | requests under one key overlap, the completion of a claim fails | one run for one key |
| Process supervisor (`agents/process-supervisor.ts`) | process, requested termination, timers, output | `start`, `cancel`, timers, output | a process that ignores signals, forks or exits early | no survivors, one reason, bounded output |
| Adapters (`codex-app-server`, `acp`, `openrouter-http`, `generic-jsonl`) | a session per run, its requests and timers | `start`, `cancel`, tool calls | late, missing and out-of-order answers | every run settles, once, and as it went |
| Orchestration runner (`agents/orchestration-runner.ts`, `security-orchestration.ts`) | status and attempts of each node, budget | `run`, `executeNode`, `complete`, `fail` | nodes of a level fail and retry together, abort | dependencies first, failure propagates, budget kept |
| Orchestration service (`agents/application-orchestration-service.ts`) | record, raw input, controllers, stops | `create`, `continue`, `cancel`, budgets, restart | several calls share one record | record and runs agree, an end is final, never stuck |
| Place semaphore (`AsyncSemaphore`, same file) | counter, array of grants | `acquire`, release, abort | release and grant are different jobs | a bound that is used, first come first served |
| Approvals (`agents/security-approval.ts`, `approval-lifecycle-journal.ts`) | requests, tokens, append-only file | request, decide, edit, revoke, consume | a write that fails behind its line, a torn line, a restart | used once, final, never after a restart |
| Domain commands (`agents/security-mcp-facade.ts`, `domain-command-execution-store.ts`) | proposals, executions per key | propose, confirm, execute | crash between effect and receipt, leases | no effect without its two approvals |
| Retention and artifacts (`agents/retention.ts`, `artifact-store.ts`) | records, shared contents, holds, journal | create, review, delete, hold | a deletion of many files breaks off | nothing held is deleted, what was used is remembered, no record without content |
| Profile and versions (`agents/config-profile-store.ts`, `version-approvals.ts`) | two files and a copy | read, replace, approve | two windows, a stop between two writes | an answered change stands |
| CV imports and structuring (`services/cv-imports.ts`, `cv-ai-structuring.ts`) | encrypted records, profile, ledger | review, adopt, revoke, AI run, delete | an AI run outlives the import it read | decisions stay, nothing is adopted that was not confirmed |
| Applications, documents (`app.ts`, `services/workspace-store.ts`, `artifact-revisions.ts`) | cases, revisions, adoption | create, approve, export, adopt | whole records saved from what was read | only an approved document leaves, what was used stays |
| Jobs, mails, settings, style | files | search, synchronise, edit | long calls overlap with edits | nothing of the user is undone |
| Web client (`src/web/src/app/app.ts`) | what is on the screen, ticks, drafts | every page | overtaking and lost answers | what is sent is what was ticked, the screen belongs together |

`PROJECT.json` lists all components, with what each entry leaves out, and the
hazards of the code line by line with the properties that watch them.

## 2. The modules

State variables carry the names of the fields they stand for where that is
possible; `PROJECT.json` maps the definitions to their lines. A helper, or the
second half of a request, whose lines lie within those of another definition of
its module has no entry of its own.

| Module | Models | State ↔ code |
|---|---|---|
| `AgentRunState` | `state-machine.ts` | the table of transitions; no variables |
| `AgentScheduler` | queue and slots of the control center | `run` = stored snapshots; `queue`, `inFlight`, `admitted` = fields; `enqueue`, `cancel`, `execute`, `schedule`, `refresh` = local state of each pending call |
| `AgentRunLifecycle` | one run over its life and restarts | `snap` = `run.json`, `log` = `events.jsonl`, `writing` = between the two writes, `emits` = the promise chain, `active` = the registry |
| `AsyncSemaphore` | the class of that name | `active`, `waiters` = fields; `pc` = where each caller stands |
| `DagExecution` | abstract: what running a workflow promises | `status`, `result` |
| `OrchestrationRunner` | runner, coordinator, budget and retry | `status`, `attempts`, `used`, `exceeded`; `pc`, `toStart`, `batch` = the pending `executeNode()` of a level |
| `ApplicationOrchestration` | the service | `rec` = stored record; `inputs`, `stops`, `controller` = maps of the class; `worker`, `exec` = pending calls and the runs of the nodes |
| `ProcessSupervisor` | one supervised process and what it forks | `requested`, `cleanup`, `kept`, `lost`, the table probe |
| `CodexSession`, `AcpSession`, `OpenRouterCall`, `JsonlSession` | one run of each adapter | `run` = the session object: phase, outstanding requests, timers, verdict |
| `CodexLogin` | the login that Codex runs share | `source`, `homes` = `auth.json` of the user and the copies; `overtaken` = history: the runs whose second look at the source is out of date |
| `ApprovalLifecycle` | queue over journal | `memory`, `revoked`, `consumed` = fields; `durable` = the file as `reduceEvents()` reads it; `torn` |
| `DomainCommands` | write tools of the facade | `records`, `line` = execution store and its chains; `facade` = tools of a run; `case`; `spent` = history of used approvals |
| `RunAdmission` | `POST /api/agent-runs`, claims, emergency stop | `recent` = the map of keys, `claims`, `runs`; `requests` = where each handler stands |
| `Retention` | artifacts, holds, cascade of a deletion | `records`, `blobs`, `logs`, `runs`, `journal`; `sweeps` = each pending deletion |
| `AgentConfig` | both files of the agents | `primary`, `lastGood`, `waiting`, `job` |
| `CvImports`, `CvStructuring` | an import; the AI runs over it | `store`, `profile`, `ledger`, `snapshots`; `import`, `record`, `agent`, `queue` |
| `Applications` | cases, documents, adoption | `cases`, `documents`, `artifacts`; `line` = the chain of writes of `workspace.json` |
| `JobSearch`, `MailVault`, `Settings`, `StyleProfile` | a store together with its page | the file, the requests in flight, what the page holds |
| `WebAgentCenter`, `WebCvStudio`, `WebCases` | pages with a reduced server | `net` = requests, `flags` = busy flags, one variable per signal of the page, `ticks` = what was on the screen when a box was ticked |
| `*_proofs` | theorems about the modules of that name, or of the systems that are checked together (section 5) | |
| `MC*` | instances for TLC | |

Granularity. A server action is one effect on a store with the synchronous code
behind it, up to the next `await`; local state carries what the call read.
`AsyncSemaphore` has the grant and its continuation as two steps, because they
are two jobs. The supervisor's actions are callbacks of the event loop. A call of
the approval queue is synchronous and so one action, which ends at whichever of
its writes throws. In a client module a click, a poll, the server's answer and
the client's handler of that answer are steps of their own.

Composition. `AgentRunLifecycle` replaces the scheduler by "a waiting run may be
handed a slot at any time", `AgentScheduler` replaces the lifecycle by start,
process and settlement; each thereby allows at least what the other does. In
`ApplicationOrchestration` an agent run is a child that ends in some way after a
finite time, which is what `UncancelledRunEnds` and `RunsEnd` say for runs that
are not stuck. `OrchestrationRunner` implements `DagExecution`. The instances
`MCPages`, `MCOrchestrations`, `MCDocuments`, `MCWeb`, `MCTools`, `MCProviders`
and `MCStores` put several systems that share no state into one
state space: a variable chosen at the start says which of them moves, and the
others stay at one of their beginnings. `MCStores` has five systems, of which the
constant `Parts` names those that may be chosen: the files of the agents and the
job list in `Stores.cfg`; imports, AI runs and retention in `Records.cfg`. `MCTools` and `MCOrchestrations` EXTEND
their parts, which share no names but those of their bounds; the others take
some of theirs with INSTANCE. Their properties are those of the parts, or
conjunctions of them.

Comments that begin with "Mutant:" mark operators that no specification uses:
plausible mistakes, kept beside the definition they distort, which show that each
property is sensitive to that code.

## 3. The runs

| Run | Systems | What it shows | Bounds, and why they suffice |
|---|---|---|---|
| `scheduler` | `AgentScheduler` in three installations | `ScopeLimits`, `OnePlace`, `CancelledNeverStarts`, `BoundsKept`, `CompetitorsEnd` | three runs of two providers for two slots: a candidate blocked by its provider in front of one that is not; one slot, one run cancelled at every point; two enqueue calls for the last place |
| `sched_stale_index` (violation) | the same, with cancellation | `ScopeLimits` fails, see findings | the three competing runs, two of them cancellable |
| `lifecycle` | `AgentRunLifecycle` | `LogLeads`, `OneVerdict`, `TerminalIsFinal`, `Reproducible`, `UncancelledRunEnds` | two cancels, an answer, a crash, two restarts, a failing rename, adapters that report and that do not: any two writers of a run against a crash between two writes, and the recovery of a recovered run |
| `pages` | `AsyncSemaphore`, `MailVault`, `Settings`, `WebCases` | `PlacesUsed`, `FirstComeFirstServed`, `PagesAreTrue` | five executions for two places: two holders, a grant and two waiters of different signals; two calls on the vault; two identities; two cases |
| `orchestrations` | `OrchestrationRunner` / `ApplicationOrchestration` | `FailurePropagates`, `WaitsOnlyForGates`, `BudgetsKept`, `Implements`, `RecordAndRunsAgree`, `FinalUnlessStaleCall`, `NeverStuck` | six nodes: a parallel level, a join, a closed gate, both failure strategies, every kind of side effect, a total of five iterations; the service with the author and two reviewers, gates nowhere, in front or at the end, a cancel, a continuation, a restart |
| `records` | `CvImports` / `CvStructuring` / `Retention` | `RecordsTellTheTruth`, `DecisionsStay` | two clients of one import with two versions and one transaction of the profile; one AI run with a user, a remover, its refresh and the sweep, one fault; two runs whose artifacts share a content, and two deletions of them, or one and a hold |
| `documents` | `Applications` / `StyleProfile` | `DocumentsAreTrue`, `ReplacesOnlySeen` | one case, two documents, one artifact, two requests, one failing write or restart; three revisions of the style and one edit by hand |
| `web` | `WebCvStudio` / `WebAgentCenter` | `ScreenIsTrue`, `SavedStaysInPlace` | two imports, two runs, two installations, two requests in flight in either order, one lost answer: the answer for the one while the other is on the screen |
| `tools` | `ApprovalLifecycle` / `DomainCommands` / `RunAdmission` | `UsedIsJournaled`, `DecisionsAreFinal`, `UseIsAuthorised`, `CommandsAreApproved`, `KeyMeansOneRun` | three approvals (one may replace another while the third is open) that expire before, at or after any call; three kinds of commands, two calls, two keys; two requests under one key with two bodies |
| `emergency_stop` (violation) | `RunAdmission` | `StoppedIsQuiet` fails, see findings | no failing write |
| `providers` | `ProcessSupervisor` / the adapters / `CodexLogin` | `NoSurvivors`, `OutputAccounted`, `VerdictKept`, `AdaptersKeepTheirWord`, `LoginStaysOwn`, `RunsEnd` | the process and two it forks (a child and a grandchild, or two children), chunks that fit, cross and exceed a limit; one session of each adapter; two homes, two accounts, three refreshes, by a run or by the user's own Codex |
| `stores` | `AgentConfig` / `JobSearch` | `AnsweredStands`, `ChangesFollowSeen`, `MarksStay` | two windows, three versions, two faults; two jobs, two searches, a plan, two requests; a list that holds both jobs, or is full with one |

`CHECK_DEADLOCK FALSE` is in every configuration because each of these systems
comes to rest: when its runs are over, or when its bound is reached. Symmetry is
declared only where no property of the run is a liveness property, over values
that the whole instance treats alike. Every number that ends an enumeration is a
CONSTANT marked "bound" where it is declared, and occurs only in guards.

**What the runs were built for.** `OneVerdict` (two `run_completed` never
disagree, over restarts), `NoSurvivors`, `UsedIsJournaled`, `KeyMeansOneRun`,
`FinalUnlessStaleCall`, `Implements`, the "screen" properties (what is sent is
what was on the screen when the box was ticked) and the properties of records
that several calls rewrite: each takes several steps of several actors to
violate.

**Fairness.** Only steps that the event loop is bound to take are fair: promise
continuations, store operations, timers, events of the operating system. Weak
fairness suffices because such a step stays enabled until it is taken. The steps
of one call are one condition, since at most one of them is possible at a time. Nobody is
bound to call the system: there is no fairness for enqueue, cancel, answers,
crashes, restarts or what a provider says. `CompetitorsEnd` assumes that provider
processes exit, which the wall time of the supervisor sees to (`RunsEnd`), and says that again and again no run is unfinished. It is
stated where nobody cancels: a refused update in `refreshQueuePositions()` after
a cancel can lose the slot (agent-control-center.ts:562). `UncancelledRunEnds` is
restricted to runs nobody cancels for the reason given under "Further
divergences". `RunsEnd` has no fairness for any exit of a process; on Windows a
process table that cannot be read may leave the run open, so it is stated for
POSIX. The fairness conditions are in `MCAgentScheduler`, `MCAgentRunLifecycle`
and `MCProviders`. Where no step can repeat for ever, the invariants `NeverStuck`
and, within `RecordsTellTheTruth`, `EndsCanBeSaved` say instead that the system
has ended or waits for its user whenever nothing more can happen by itself.

**Assumption of the semaphore.** `release()` lowers the counter before the waiter
it grants raises it. With `GrantRunsFirst = TRUE` the continuation of a grant runs
before any other job, as it does when a resolved promise is awaited directly and
nobody calls `acquire()` in the same job. With `FALSE` the bound fails; the class
itself does not enforce it.

## 4. Findings

* `sched_stale_index`: `schedule()` (agent-control-center.ts:550-558) checks the
  candidate at an index, awaits the store, and splices whatever is at that index.
  A cancel in between makes it start an unchecked run beyond a provider's limit,
  against agent-control-center.load.acceptance.test.ts:47. `ScopeLimitsHold`
  proves the limits of every provider, workspace and owner where nobody cancels and the
  order of the queue is steady, `ScopeLimitsUnlessStale` that nothing but the stale
  index can break them.
* `emergency_stop`: the route of the stop (app.ts:2027-2036) sets a flag, revokes
  and cancels. A request for a run looks at the flag once, before its awaits
  (2045); continuing an orchestration does not look. A run starts after the stop
  has answered, against docs/incident-privacy-runbook.md:9.

### Further divergences

Places where code and expectation part, seen while modelling. The models contain
this behaviour; where a property would not hold because of it, the property says
so, and no run of its own shows it.

*Agents.*
* `append()` writes its line (run-store.ts:411) before the snapshot may refuse the
  event (415). If `cancel()` comes between the exit of a process and its
  `run_completed`, the line stays, the next event of the run conflicts, `execute()`
  rejects, and the rejection of a floating promise (agent-control-center.ts:564)
  ends the server, against src/todos/archiv/agent-control-center-roadmap.json:509.
* The OpenRouter adapter settles without `run_completed`: the terminal snapshot is
  over a log that says running (635), which recovery believes. A crash between the
  terminal snapshot and `run_completed` (645) has the same effect. Hence
  `Reproducible` is stated for runs whose adapter reports an end and whose
  snapshot could always be written, and its half about recovery for runs without
  a crash.
* `sendInput()` reads its in-flight flag before an await and sets it after (381,
  391). `cancel()` between the first update of `execute()` and the registration of
  the provider finds nobody to tell (621); the run starts while it is being
  cancelled.
* The runner rejects if a `fail_fast` node breaks before a later node of its level
  was started (orchestration-runner.ts:103). `cancel()` of an orchestration marks a
  record that has succeeded since it was looked at (500), `continue()` revives one
  that was cancelled since (560), and two of them execute the same nodes (533):
  `FinalUnlessStaleCall` is stated for everybody else.
* Claims: if the completion of a claim fails after `enqueue()` while another request
  has looked, there are two runs (`lapsed`). If the server stops before the run
  exists, the key answers 409 for a day.
* Emergency stop: `revokeAll()` that throws (app.ts:2032) leaves the runs alive.
* Codex: `cancel()` answers a tool call whose approval is being carried out, so it
  may be executed afterwards and is answered twice. The
  comment at codex-app-server-adapter.ts:159-161, that an older token never replaces a
  newer one, is not kept when the source is written between a run's second look and its
  rename. `LoginStaysOwn` excepts exactly the runs that were overtaken there. ACP: `cancel()` while a line is being
  written leaves an unhandled rejection. JSON lines: the key file put into a
  sandboxed workspace (`.oc-env/provider.env`) is not removed.
* Commands: an append that fails after the effect leaves the record `confirmed`; a
  whole case is saved without comparison; one failure rejects what is queued.
* Profile and versions: two changes at the same millisecond cannot be told apart
  (`clash`), so "parallel approvals resolve to exactly one winner"
  (version-approvals.ts:146) holds only if the clock has moved.
* Retention: two releases of a hold, or a crash within an append, leave a journal
  that cannot be read (retention.ts:69), which refuses every deletion; a rollback
  that fails halfway leaves records without content, or loses some (`torn`). A server that
  stops after the record of a used artifact was moved away (artifact-store.ts:373) and
  before it is written again (378) loses it for good, against artifact-store.ts:44: nobody
  reads the staging directory again (`StopsHalfway`, which `DecisionsStay` excepts).

*Records and pages.*
* Mails: nothing makes two calls wait for each other, so a synchronisation that has
  read the vault before `deleteAccount()` writes the account back, and a cursor may
  pass mails that were lost (`alone`). Mails without Message-ID are stored again.
* Jobs: a run of due plans lists once and writes whole plans back; a deleted plan
  returns. Two of them run the same plan. A full list is cut after 5000 entries
  (job-inventory.ts:66-68), those the user has sorted or marked included, and a fold brings
  a deleted job back as a new one; `MarksStay` says when either may happen.
* Applications: a record is saved as it was computed, so the later of two
  overlapping changes wins, a deleted case returns, and a rejected review can be
  overwritten by the mark that the document was used. The generic transition admits
  approved to exported without that mark. A document that was deleted and is saved
  again by a slower handler may stand beside the one a new adoption has made in
  between (`restored`, which `AdoptedOnce` excepts).
* CV imports: two imports of one file share their source, so revoking or restoring
  through one leaves the other `adopted`. `setTheme()` drops a proposal and keeps
  the status. CV structuring: a refresh queued behind `apply()` may stage facts of
  an apply that failed; `completeRecognitionVersion()` does not look at
  `deletingImports`; a deletion whose cancel failed leaves an agent run nobody knows
  (`untracked`).
* Web client: answers of an import or run are applied after another was opened in
  some handlers; reloads drop edits; a tick may survive a reload of its options;
  saves drop what was typed until the answer. The properties are stated for the
  confirmations that are bound to what was shown.

## 5. The proofs

TLAPS checks these for every value of the constants that satisfies the named
`ASSUME` of the module: any number of runs, nodes, callers, windows, processes,
requests, and any bound. Each `*_proofs` module states its inductive invariants,
proves that every action preserves them, and ends with the theorems. TLC checked
each strengthening before it was proved. Induction is always over the steps of
the specification. Where a theorem is about `MCSpec`, the constants of the
instance are as free as those of its parts.

**`AgentScheduler_proofs`.** `OnePlaceHolds` rests on `PlaceInv`: a run is in no
place before `enqueue` has pushed it, and the run the loop holds is neither queued
nor executing. `ParallelLimitHolds` rests on `SlotInv`: whoever executes holds a
slot, and from the check to the reservation one slot is free, because only the
loop takes slots. For a single scope
`ShareInv` says the same of the runs that count against it, and holds for any scopes as
long as the loop takes no run that counts against a scope it has not checked (`TakesAlike`):
that is `ScopeLimitsUnlessStale`. `ScopeLimitsHold` proves `TakesAlike` where the order of
the array is `Steady`: nothing waiting is cancelled, one priority, no aging. Then
`OrderInv`: the array stays in the order of the tickets, sorting is the identity, and the
candidate stays at its index during the await. Without that the property is false, as
`sched_stale_index` shows.
`QueueBoundedHolds` rests on `AdmissionInv`: a waiting place is reserved from the
check to the push. `CancelledNeverStartsHolds` needs the most: `CancelInv` says
who may hold which copy of a run. A run is set to `cancelling` by its `cancel()`
alone, a copy that the renumbering is about to write back is over only if the run
is, and the provider works only for a run in an engaged state. Then a run that
`cancel()` took out of the queue is refused at the update of `execute()`.

**`AgentRunLifecycle_proofs`.** `LogLeadsHolds` rests on `JournalInv`. The property
alone is not inductive, since an append is two steps: `WritingLeads` says that
between them the log is one ahead and the event is still the first of its chain,
and `Untouched` that nothing knows the run before it is created. `OneVerdictHolds`
and `TerminalIsFinalHolds` rest on `LifecycleInv`, in three layers. `StartedInv`: once
`execute()` has started the run, whoever wants to cancel a waiting run holds a copy
that is too old, and its update is refused. `ChainInv`: only the first emit of the
chain has read the run, and the provider has at most one emit in it. `PendingInv`:
what may still be appended agrees with what is there, since an event of the
provider is read only while the run is not over, and every other verdict is the
one the snapshot already has. `VerdictInv` closes the circle: the snapshot has the
verdict of every event it contains, and nothing that sets the state comes after a
verdict, so that a restart, which takes the last event that sets the state, finds
the verdict again. `ReproducibleHolds` (from the events alone the snapshot can be
had again) needs `ReplayInv`. `CreatedInv`: `run_created` is the first event unless
there was a crash, for whoever is served has waited for it. `LostInv`: a log without
it holds nothing but verdicts that agree. `ProcessInv`, `ReportInv` and `CancelInv`
say what the provider, `execute()` and `cancel()` have reported: a `run_completed`
one of them was told of is in the log. `OverInv`: a run that is over has its verdict
in the log, or somebody is about to report it.

**`Orchestrations_proofs`.** For the runner, `CoreInv` ties the place of
`executeNode()`, the status the coordinator keeps and the level `Promise.all()`
waits for. `FailurePropagatesHolds` and `DependenciesFirstHolds` use that the
dependents of a node are the least closed set (`DependentsLeast`,
`DependentsClosed`). `ImplementsDag`: every step is a step of `DagExecution` or a
stutter. `WaitsOnlyForGatesHolds` uses that a plan has no cycle
(`AcyclicAssumption`, which `validateOrchestrationPlan()` enforces): of the nodes
that are left, one depends on none of the others; what is skipped is closed under
dependence, and nothing runs when a report is made; so that node can only wait for
its gate.
For the service, `RecordAndRunsAgreeHolds` and `FinalUnlessStaleCallHolds` rest on
`ServiceInv`. `WorkersInv`: one worker acts at a time, and it is the registered one.
`NodesInv`: a child that runs belongs to an execution that polls it or is about to,
of a worker in a level. `RecInv`: a level that came upon a budget remembers it in a
node that did not succeed. Two overlapping `continue()` break all of this
(application-orchestration-service.ts:533): both theorems carry the proviso
`OneContinuation`, which the run meets by having one call of it (`OneCall`).

**`Approvals_proofs`.** The file of approvals is treated by itself: each record
leaves what is closed as it is, and a call is a chain of records (`Final` is
transitive). `QueueInv` adds that the queue shows an approval only if this process
gave its token out, which is why a restart leaves nothing usable:
`DecisionsAreFinalHolds`, `UsedIsJournaledHolds`, `UseIsAuthorisedHolds`.
`DocumentsAreTrueHolds` and `UsedIsFinalHolds` say of every handler of `Applications`
what it has in its hands: a case it may release only with an approved document, a
document made of what it always was made of, and that only who is inside the
artifact store writes a document of an artifact that has none.
`ApplicationsAssumption` is what the constants stand for. `ReplacesOnlySeenHolds`
rests on `StyleInv`: one save of the style profile works at a time, its base is what
the user ticked, and until the rename the file is that text unless an edit by hand
has overtaken it (`raced`).

**`Idempotency_proofs`.** `KeyMeansOneRunHolds` rests on `AdmissionInv`. From `Claims`
to `CompletesClaim` or `AbandonsClaim` the claim on disk names the request that works
under it, so no other comes as far. A request that may still find the claim free has
seen that the store has no run of the key. What waits for another's promise waits for
a request of the same body. Keys whose completion could not be written (`lapsed`) are
excepted, as in the property. `AdmissionAssumption`: "none", which marks a run
without a key, is no key. `CommandsAreApprovedHolds` rests on `CommandsInv`: a key gets
its command from an approved confirmation and never another; whoever has had the
lease carries that command; and a call that is about to write its receipt has made
its change.

**`Providers_proofs`.** `OutputAccountedHolds` and `VerdictKeptHolds` from `VerdictInv`
(gaps in the output, the close event and the result decide what may still be
requested). `NoSurvivorsHolds` from `CleanupInv`: how far the cleanup is says which
processes are dead, for any number of processes that fork and exit.
`AdaptersKeepTheirWordHolds` has an invariant for each session. Codex allots the
answers (`CallOK`): whoever may still answer a tool call has its place among the one,
or after `cancel()` two, answers, and one person carries out a call, of the decision
the session took. ACP tells once, and not before the handshake is over. OpenRouter:
what was spent and what remains are within the allowance, and a call is made only
while something remains (`AllowanceAssumption`). JSON lines: the verdict comes after
the last bytes. `LoginStaysOwnHolds`: past its first look a run has the account of
the source, and and behind its second
look, unless the source was written since (`overtaken`), a newer token than the source.

**`Pages_proofs`.** `WaitersWaitHolds` (the array holds exactly the pending
`acquire()`, each once) holds in any order of jobs; `PlacesUsedHolds` from `BoundInv`
(at most one grant is outstanding, places taken and granted are bounded and all
used while somebody waits) and `FirstComeFirstServedHolds` hold under
`GrantRunsFirst`. `PagesAreTrueHolds` puts three pages together. Settings: what was
read at a revision has the identities of that revision, so a save at the current
one brings no deleted identity back. Mails (`AloneInv`): while one call at a time
holds what it read, that is the vault; the cursor of a synchronisation covers what is
stored or in its hands, and an account comes once and goes once. Cases: an id is given
once, a case keeps its job, and every list, answer and text fits the cases.
`PagesAssumption`: there is a place, and the name of no case is none.
`ScreenIsTrueHolds` and `SavedStaysInPlaceHolds` are about the two large pages, in
whatever order answers come, are lost, or are overtaken by what the server does on its
own. Studio (`StudioInv`): an answer has the import it was asked for, or says that there
is none; whatever was ticked, is loaded or is listed belongs to the import on the
screen, in the revision and the version shown; a flag that disables a button has a
request that will clear it. Agent center (`CenterInv`): what was confirmed for an
orchestration, a recovery or a profile is what the screen shows or is withdrawn by the
handler that changes the screen (`FlowConfirmed`, `RecoveryConfirmed`,
`ProfileConfirmed`); what a preflight calls ready is a request the server has cleared (`CheckTrue`).
`ImportsAssumption` and `FlowsAssumption`: no import and no orchestration has the name of
one that is not there.

**`Stores_proofs`.** `AnsweredStandsHolds` rests on `AnswerInv`: after the first of the
two writes the change is in force or damaged, and one fault at a time leaves a
readable copy that is not older than the last answer. `ChangesFollowSeenHolds` rests
on `SeenInv`: two known versions with the same time are the same one as long as the
clock has moved between changes. `MarksStayHolds` needs no more than the shape of
requests and of the list (`ListInv`); the work is in the steps: of an entry that
exists a fold changes only when it was seen, unless the cut of a full list takes it
(`FoldKeeps`, `CutOff`), and what it adds is new and unmarked; everything else is an order
of the user.
`RecordsTellTheTruthHolds` and `DecisionsStayHolds` rest on `RecordsInv`, one
invariant for each of the three systems.
`CvInv` (imports) says what every handler has in its hands at each `await`: the
record it read was whole (`Whole`: the record and its active version agree, every
version has its facts), and what it is about to save is whole again and keeps every
version and every decision of what it read (`Succeeds`); since `save()` compares the
revision, that is then true of what is stored. What counts as confirmed in a stored
record, the profile and its snapshots, and every profile on its way to the script hold
only claims that were confirmed.
`AiInv` (AI runs) follows the copies: `Fits` says which status a copy may have at each
place of a call, and `Stands` who is on the queue of an import. A run that is starting
and a deletion that clears exclude each other; `AllGone`: once the deletion has
looked, no run of the import is stored and none can come back; `RecordOk`: an applied
run has its facts in the import.
`FilesInv` (retention) says what a deletion has looked at: which holds it read, what it
has chosen because of them, and who is inside the store of artifacts. A deletion in
there moves only what it has chosen, can put back every record as it was, and moves a
content only when no record that stays available has the same one. The record of a used
artifact is in its place or among those it has still to write or put back (`Remembered`).
`RecordsAssumption` is what the constants stand for: callers, runs, the sweep and
nobody are different, there is room for a version, a decision of a person approves
or rejects.

Only model-checked:
* every liveness property (`CompetitorsEnd`, `UncancelledRunEnds`, `RunsEnd`) and
  `NeverStuck`: fairness and `ENABLED` are beyond the prover;
* `BoundsKept` of `scheduler`, which is `ParallelLimit` and `QueueBounded` (both proved)
  in two installations of one instance.

## 6. What the models leave out

Each module's header and its entry in `PROJECT.json` name what it abstracts. What a
reader would miss first:

* Scheduler and lifecycle: statistics, `requestArtifactChanges()`, redaction, the
  contents of events, the listing of runs. `resolveRecovery()` is modelled as the
  client sees it; the run that replaces a resumed orphan is not.
* Runner and service: usage other than iterations is "fits / exceeds";
  the attempts a node had before a continuation
  (application-orchestration-service.ts:700), which is 0 in the workflows there are;
  `fanInWithoutMajority()`, `retryNode()` and, on the server, `resolveConflict()`; the
  contents of results; stores that fail. The plan is one
  `validateOrchestrationPlan()` accepts.
* Supervisor: `writeInput`, the rotation of the raw log, heartbeats, a signal that
  cannot be sent. Descendants stay in the process group. A natural exit leaves
  descendants alone, as the code does.
* Adapters: parsing, resume and steer, the choice between app server and CLI.
* Approvals: the binding of a token to its parameters is "a matching token"; the
  clock does not run backwards; `RunCapabilityAuthority`, which is in memory only.
* Commands: read tools, the audit tool, the MCP server around the facade. What a person
  deletes after a command has made it is remembered in `deleted`, and no receipt speaks of
  it any more.
* Profile: validation, and the cache of discoveries, which may be 30 s old.
* CV imports: extraction and layout; the script that writes the profile is one
  step that fails or succeeds, although one that is killed may still write.
* Applications: trackings, reminders, evidence, files of the work directory, and the limit
  of 500 cases (workspace-store.ts:84), beyond which the one that was saved longest ago goes.
* Jobs, mails: matching, decisions and notes on jobs, encryption, IMAP.
* Web client: presentation, filters, artifact views, answers to questions of a
  finalizer, the theme preview. Two identical requests in flight are one.
* Not modelled at all: policies and redaction, sandbox probes, backup and
  migrations, telemetry, realtime tickets (pure decisions, sequential files, or
  counters).

## 7. Plan

Every safety property of a passing run is a theorem, but for `NeverStuck` and for
`BoundsKept`, whose parts are theorems. What is worth modelling next is what section 6 leaves
out: the recovery of an orphan by `resolveRecovery()` on the server, `retryNode()` and `resolveConflict()`
of the orchestrations, and the realtime tickets. What is worth proving next are the
refinement of abstract specifications by the lifecycle and by the command stores, as
`OrchestrationRunner` refines `DagExecution`.
