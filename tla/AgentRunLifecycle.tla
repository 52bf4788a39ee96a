------------------------- MODULE AgentRunLifecycle -------------------------
(***************************************************************************)
(* One agent run from its creation to its end, and across restarts of the  *)
(* server: the snapshot and the append-only event log of                   *)
(* src/server/src/agents/run-store.ts, and the calls of                    *)
(* agent-control-center.ts that write them -- enqueue, execute, cancel,    *)
(* sendInput, emit -- beside the provider process an adapter supervises.   *)
(*                                                                         *)
(* The store runs one operation at a time.  An append is two writes, the   *)
(* line of the log and then the snapshot; between them only a crash can    *)
(* happen, so while `writing' holds no other call takes a step.  The       *)
(* emits of a run form a chain: the first one is read, dropped or appended *)
(* before the next one begins.                                             *)
(*                                                                         *)
(* Queueing and slots are in module AgentScheduler: here a waiting run may *)
(* be handed a slot at any moment.                                         *)
(***************************************************************************)
EXTENDS AgentRunState, Integers, Sequences

CONSTANTS
    Cancellers,         \* calls of cancel()
    Inputs,             \* calls of sendInput()
    Outcomes,           \* how the provider process may end by itself
    Reporting,          \* whether adapters emit run_completed before they settle
    AsksInput,          \* the provider asks the user a question
    MaxCrashes,         \* bound on crashes of the server
    MaxRestarts,        \* bound on its restarts
    MaxFailures         \* bound on snapshot writes whose rename fails five times

ASSUME LifecycleAssumption ==
    /\ Cancellers \cap Inputs = {}
    /\ {"enqueue", "execute", "provider"} \cap (Cancellers \cup Inputs) = {}
    /\ Outcomes \subseteq {"succeeded", "failed", "timed_out"}
    /\ Reporting \subseteq BOOLEAN /\ AsksInput \in BOOLEAN
    /\ MaxCrashes \in Nat /\ MaxRestarts \in Nat /\ MaxFailures \in Nat

VARIABLES
    snap,       \* run.json
    log,        \* events.jsonl
    writing,    \* the last line of the log is not in the snapshot yet
    emits,      \* the chain of emit() calls of the run
    reply,      \* how the last emit of each caller settled
    enqueue,    \* program counter of enqueue()
    execute,    \* local state of execute()
    provider,   \* the provider process and its adapter
    active,     \* the provider is registered for cancel() and sendInput()
    cancel,     \* local state of each cancel()
    input,      \* program counter of each sendInput()
    inFlight,   \* a sendInput() is on its way to the provider
    server      \* whether the server is up, and what was spent of the bounds

disk == <<snap, log>>
calls == <<enqueue, execute, provider, active, cancel, input, inFlight>>
vars == <<snap, log, writing, emits, reply, enqueue, execute, provider, active,
          cancel, input, inFlight, server>>

-----------------------------------------------------------------------------
(* State *)

Absent == [state |-> "absent", seq |-> 0]
Snapshots == [state : AgentStates \cup {"absent"}, seq : Nat]

Entries == [event : Events, seq : Nat]

Callers == {"enqueue", "execute", "provider"} \cup Cancellers \cup Inputs

\* seq is 0 until the emit has read the run.
Emits == [by : Callers, event : Events, seq : Nat]

ExecutePCs ==
    {"none", "starting", "discover", "capabilities", "negotiated", "launch",
     "running", "outcome", "warned", "catch", "abort", "error", "completed",
     "finally", "throws", "done"}

ProviderPCs ==
    {"none", "spawned", "up", "asking", "exited", "reported", "settled", "broken"}

TypeOK ==
    /\ snap \in Snapshots
    /\ log \in Seq(Entries)
    /\ writing \in BOOLEAN
    /\ emits \in Seq(Emits)
    /\ reply \in [Callers -> {"none", "ok", "failed"}]
    /\ enqueue \in {"new", "announce", "queued", "gone"}
    /\ execute \in [pc : ExecutePCs, copy : Snapshots]
    /\ provider \in [pc : ProviderPCs, outcome : Terminal,
                     told : BOOLEAN, asked : BOOLEAN, reports : BOOLEAN]
    /\ active \in BOOLEAN
    /\ cancel \in [Cancellers ->
                    [pc : {"idle", "cancelled", "cancelling", "completing", "done"},
                     copy : Snapshots]]
    /\ input \in [Inputs -> {"idle", "events", "sent", "receipt", "done"}]
    /\ inFlight \in BOOLEAN
    /\ server \in [up : BOOLEAN, crashes : Nat, restarts : Nat, failures : Nat]

\* The outcome means nothing before the process has exited.
NoProvider == [pc |-> "none", outcome |-> "failed", told |-> FALSE, asked |-> FALSE,
               reports |-> FALSE]

\* What a new process of the server finds in its memory.
Fresh(enq) ==
    /\ writing' = FALSE
    /\ emits' = <<>>
    /\ reply' = [c \in Callers |-> "none"]
    /\ enqueue' = enq
    /\ execute' = [pc |-> "none", copy |-> Absent]
    /\ provider' = NoProvider
    /\ active' = FALSE
    /\ cancel' = [c \in Cancellers |-> [pc |-> "idle", copy |-> Absent]]
    /\ input' = [i \in Inputs |-> "idle"]
    /\ inFlight' = FALSE

Init ==
    /\ snap = Absent
    /\ log = <<>>
    /\ writing = FALSE
    /\ emits = <<>>
    /\ reply = [c \in Callers |-> "none"]
    /\ enqueue = "new"
    /\ execute = [pc |-> "none", copy |-> Absent]
    /\ provider = NoProvider
    /\ active = FALSE
    /\ cancel = [c \in Cancellers |-> [pc |-> "idle", copy |-> Absent]]
    /\ input = [i \in Inputs |-> "idle"]
    /\ inFlight = FALSE
    /\ server = [up |-> TRUE, crashes |-> 0, restarts |-> 0, failures |-> 0]

-----------------------------------------------------------------------------
(* Helpers *)

\* Every call but the append itself waits for the two writes of an append.
Running == server.up /\ ~writing

Event(kind) == [kind |-> kind]
Completed(state) == [kind |-> "run_completed", state |-> state]

\* emit(): the call joins the chain.
Emit(c, event) ==
    /\ emits' = Append(emits, [by |-> c, event |-> event, seq |-> 0])
    /\ reply' = [reply EXCEPT ![c] = "none"]

Settle(result) ==
    /\ emits' = Tail(emits)
    /\ reply' = [reply EXCEPT ![Head(emits).by] = result]

Emitting(c) == \E k \in DOMAIN emits : emits[k].by = c

\* Mutant: the stored state is not compared.
UpdateAcceptedBySeq(copy, to) == snap.seq = copy.seq

\* store.update of a copy: refused when an event was appended since it was read.
UpdateAccepted(copy, to) == snap.seq = copy.seq /\ CanTransition(snap.state, to)
Update(copy, to) == snap' = [state |-> to, seq |-> copy.seq]

CanFail == server.failures < MaxFailures
Fails == server' = [server EXCEPT !.failures = @ + 1]

\* A rejection nobody handles ends the server process.
Dies == server' = [server EXCEPT !.up = FALSE]

\* replayAgentRunFromEvents goes through the log and sets the state at these events,
\* whatever it was ...
Sets(event) ==
    event.kind \in {"process_started", "approval_requested", "user_input_requested",
                    "run_completed"}
StateSet(event) ==
    CASE event.kind = "process_started"      -> "running"
      [] event.kind = "approval_requested"   -> "waiting_for_approval"
      [] event.kind = "user_input_requested" -> "waiting_for_input"
      [] OTHER -> event.state

\* ... and an answer ends the waiting it finds.
Resumes(event, s) ==
    \/ event.kind = "approval_resolved"   /\ s = "waiting_for_approval"
    \/ event.kind = "user_input_received" /\ s = "waiting_for_input"

\* So the last event that sets the state decides, and the answers after it.
IsLastSetting(entries, k) ==
    /\ Sets(entries[k].event)
    /\ \A j \in DOMAIN entries : Sets(entries[j].event) => j <= k

Replay(entries) ==
    IF \A k \in DOMAIN entries : ~Sets(entries[k].event) THEN "queued"
    ELSE LET last == CHOOSE k \in DOMAIN entries : IsLastSetting(entries, k)
             s == StateSet(entries[last].event)
         IN IF \E k \in last + 1 .. Len(entries) : Resumes(entries[k].event, s)
            THEN "running" ELSE s
CanReplay(entries) == entries # <<>> /\ entries[1].event.kind = "run_created"

-----------------------------------------------------------------------------
(* AgentRunStore.append, and emit() around it *)

\* The first emit of the chain reads the run; a provider that is late is ignored.
EmitRead ==
    /\ Running
    /\ emits # <<>>
    /\ Head(emits).seq = 0
    /\ IF Head(emits).by = "provider" /\ snap.state \in Terminal
       THEN Settle("ok")
       ELSE /\ emits' = [emits EXCEPT ![1].seq = snap.seq + 1]
            /\ UNCHANGED reply
    /\ UNCHANGED <<disk, writing, calls, server>>

\* Mutant: the log is not searched for the sequence.
FitsSnapshot(seq) == seq = snap.seq + 1

\* The sequence is neither taken nor leaves a gap.
Fits(seq) == seq = snap.seq + 1 /\ \A k \in DOMAIN log : log[k].seq # seq

\* The line is appended, or the event is refused.
EmitAppend ==
    LET e == Head(emits)
    IN /\ Running
       /\ emits # <<>>
       /\ e.seq # 0
       /\ IF Fits(e.seq)
          THEN /\ log' = Append(log, [event |-> e.event, seq |-> e.seq])
               /\ writing' = TRUE
               /\ UNCHANGED <<emits, reply>>
          ELSE /\ Settle("failed")
               /\ UNCHANGED <<log, writing>>
       /\ UNCHANGED <<snap, calls, server>>

\* applyEventToSnapshot and the snapshot's write.  An event whose state the
\* snapshot may not take is an error, but its line stays in the log.
WriteSnapshot ==
    LET e == log[Len(log)]
        to == StateAfterEvent(snap.state, e.event)
    IN /\ server.up
       /\ writing
       /\ writing' = FALSE
       /\ IF CanTransition(snap.state, to)
          THEN snap' = [state |-> to, seq |-> e.seq] /\ Settle("ok")
          ELSE Settle("failed") /\ UNCHANGED snap
       /\ UNCHANGED <<log, calls, server>>

\* The rename fails for the fifth time.
WriteSnapshotFails ==
    /\ server.up
    /\ writing
    /\ CanFail
    /\ Fails
    /\ writing' = FALSE
    /\ Settle("failed")
    /\ UNCHANGED <<disk, calls>>

-----------------------------------------------------------------------------
(* enqueue() *)

\* store.create, then run_created is emitted.
CreateRun ==
    /\ Running
    /\ enqueue = "new"
    /\ snap' = [state |-> "queued", seq |-> 0]
    /\ Emit("enqueue", Event("run_created"))
    /\ enqueue' = "announce"
    /\ UNCHANGED <<log, writing, execute, provider, active, cancel, input, inFlight, server>>

\* The run joins the queue; an emit that failed leaves it behind.
AnnounceRun ==
    /\ Running
    /\ enqueue = "announce"
    /\ reply["enqueue"] # "none"
    /\ enqueue' = IF reply["enqueue"] = "ok" THEN "queued" ELSE "gone"
    /\ UNCHANGED <<disk, writing, emits, reply, execute, provider, active, cancel,
                   input, inFlight, server>>

-----------------------------------------------------------------------------
(* execute() *)

ExecuteAt(pc) == execute' = [execute EXCEPT !.pc = pc]
ExecuteWith(pc) == execute' = [pc |-> pc, copy |-> snap]

\* transitionRunWithAudit of the run just read: a transition that is not allowed
\* is reported by an event before it is thrown.
Transition(to, pc) ==
    IF CanTransition(snap.state, to)
    THEN ExecuteWith(pc) /\ UNCHANGED <<emits, reply>>
    ELSE ExecuteAt("warned") /\ Emit("execute", Event("warning"))

\* The slot is given to the run; the run is read.
ExecuteRead ==
    /\ Running
    /\ enqueue = "queued"
    /\ execute.pc = "none"
    /\ enqueue' = "gone"
    /\ Transition("starting", "starting")
    /\ UNCHANGED <<disk, writing, provider, active, cancel, input, inFlight, server>>

ExecuteWarned ==
    /\ Running
    /\ execute.pc = "warned"
    /\ reply["execute"] # "none"
    /\ ExecuteAt("catch")
    /\ UNCHANGED <<disk, writing, emits, reply, enqueue, provider, active, cancel,
                   input, inFlight, server>>

\* An update of execute() is refused or cannot be written.
ExecuteUpdate(copy, to, accepted, refused) ==
    /\ \/ /\ UpdateAccepted(copy, to)
          /\ Update(copy, to)
          /\ accepted
          /\ UNCHANGED server
       \/ /\ ~UpdateAccepted(copy, to)
          /\ refused
          /\ UNCHANGED <<snap, server>>
       \/ /\ CanFail /\ Fails
          /\ refused
          /\ UNCHANGED snap
    /\ UNCHANGED <<log, writing, enqueue, provider, active, cancel, input, inFlight>>

ExecuteStart ==
    /\ Running
    /\ execute.pc = "starting"
    /\ ExecuteUpdate(execute.copy, "starting", ExecuteAt("discover"), ExecuteAt("catch"))
    /\ UNCHANGED <<emits, reply>>

\* discover() and capabilities() find an installation, or none; the run is read.
ExecuteDiscovers ==
    /\ Running
    /\ execute.pc = "discover"
    /\ ExecuteWith("capabilities") \/ ExecuteAt("catch")
    /\ UNCHANGED <<disk, writing, emits, reply, enqueue, provider, active, cancel,
                   input, inFlight, server>>

\* The capabilities are stored and announced; the state is the one just read.
ExecuteNegotiates ==
    /\ Running
    /\ execute.pc = "capabilities"
    /\ ExecuteUpdate(execute.copy, execute.copy.state,
                     ExecuteAt("negotiated") /\ Emit("execute", Event("capabilities_negotiated")),
                     ExecuteAt("catch") /\ UNCHANGED <<emits, reply>>)

\* From now on cancel() and sendInput() find the provider.
ExecuteActivates ==
    /\ Running
    /\ execute.pc = "negotiated"
    /\ reply["execute"] # "none"
    /\ IF reply["execute"] = "ok"
       THEN active' = TRUE /\ ExecuteAt("launch")
       ELSE ExecuteAt("catch") /\ UNCHANGED active
    /\ UNCHANGED <<disk, writing, emits, reply, enqueue, provider, cancel, input,
                   inFlight, server>>

\* The completion of the provider settles; the run is read again.
ExecuteSettles ==
    /\ Running
    /\ execute.pc = "running"
    /\ \/ /\ provider.pc = "broken"
          /\ ExecuteAt("catch")
          /\ UNCHANGED <<emits, reply>>
       \/ /\ provider.pc = "settled"
          /\ IF snap.state \in Terminal
             THEN ExecuteAt("finally") /\ UNCHANGED <<emits, reply>>
             ELSE Transition(provider.outcome, "outcome")
    /\ UNCHANGED <<disk, writing, enqueue, provider, active, cancel, input, inFlight, server>>

ExecuteEnds ==
    /\ Running
    /\ execute.pc = "outcome"
    /\ ExecuteUpdate(execute.copy, provider.outcome, ExecuteAt("finally"), ExecuteAt("catch"))
    /\ UNCHANGED <<emits, reply>>

\* The catch block: what it makes of the run it reads.
Aborted(s) == IF s = "cancelling" THEN "cancelled" ELSE "failed"

\* Mutant: the run is left as it is.
CatchOnlyReleases ==
    /\ Running
    /\ execute.pc = "catch"
    /\ ExecuteAt("finally")
    /\ UNCHANGED <<disk, writing, emits, reply, enqueue, provider, active, cancel,
                   input, inFlight, server>>

\* The catch block reads the run and leaves one that is over as it is.
ExecuteCatches ==
    /\ Running
    /\ execute.pc = "catch"
    /\ IF snap.state \in Terminal
       THEN ExecuteAt("finally")
       ELSE ExecuteWith(IF CanTransition(snap.state, Aborted(snap.state))
                        THEN "abort" ELSE "throws")
    /\ UNCHANGED <<disk, writing, emits, reply, enqueue, provider, active, cancel,
                   input, inFlight, server>>

ExecuteAborts ==
    /\ Running
    /\ execute.pc = "abort"
    /\ ExecuteUpdate(execute.copy, Aborted(execute.copy.state),
                     ExecuteAt("error") /\ Emit("execute", Event("error")),
                     ExecuteAt("throws") /\ UNCHANGED <<emits, reply>>)

\* Mutant: error is taken for the end.
ExecuteReportsErrorOnly ==
    /\ Running
    /\ execute.pc = "error"
    /\ reply["execute"] # "none"
    /\ ExecuteAt(IF reply["execute"] = "ok" THEN "finally" ELSE "throws")
    /\ UNCHANGED <<disk, writing, emits, reply, enqueue, provider, active, cancel,
                   input, inFlight, server>>

\* error is followed by run_completed; either may be refused.
ExecuteReports ==
    /\ Running
    /\ execute.pc = "error"
    /\ reply["execute"] # "none"
    /\ IF reply["execute"] = "ok"
       THEN /\ ExecuteAt("completed")
            /\ Emit("execute", Completed(Aborted(execute.copy.state)))
       ELSE ExecuteAt("throws") /\ UNCHANGED <<emits, reply>>
    /\ UNCHANGED <<disk, writing, enqueue, provider, active, cancel, input, inFlight, server>>

ExecuteCompletes ==
    /\ Running
    /\ execute.pc = "completed"
    /\ reply["execute"] # "none"
    /\ ExecuteAt(IF reply["execute"] = "ok" THEN "finally" ELSE "throws")
    /\ UNCHANGED <<disk, writing, emits, reply, enqueue, provider, active, cancel,
                   input, inFlight, server>>

\* The finally block; nobody handles what the catch block has thrown.
ExecuteFinally ==
    /\ server.up
    /\ execute.pc \in {"finally", "throws"}
    /\ active' = FALSE
    /\ ExecuteAt("done")
    /\ IF execute.pc = "throws" THEN Dies ELSE UNCHANGED server
    /\ UNCHANGED <<disk, writing, emits, reply, enqueue, provider, cancel, input, inFlight>>

-----------------------------------------------------------------------------
(* The provider: its process, and the adapter that queues its events *)

ProviderAt(pc) == provider' = [provider EXCEPT !.pc = pc]
Alive == provider.pc \in {"spawned", "up", "asking"}

ProviderStarts ==
    /\ Running
    /\ execute.pc = "launch"
    /\ \/ /\ \E reports \in Reporting :
               provider' = [provider EXCEPT !.pc = "spawned", !.reports = reports]
          /\ ExecuteAt("running")
       \/ ExecuteAt("catch") /\ UNCHANGED provider
    /\ UNCHANGED <<disk, writing, emits, reply, enqueue, active, cancel, input,
                   inFlight, server>>

\* onStart of the process is the first event.
ProviderBegins ==
    /\ Running
    /\ provider.pc = "spawned"
    /\ ProviderAt("up")
    /\ Emit("provider", Event("process_started"))
    /\ UNCHANGED <<disk, writing, enqueue, execute, active, cancel, input, inFlight, server>>

ProviderAsks ==
    /\ Running
    /\ AsksInput
    /\ provider.pc = "up" /\ ~provider.asked /\ ~provider.told
    /\ ~Emitting("provider")
    /\ provider' = [provider EXCEPT !.pc = "asking", !.asked = TRUE]
    /\ Emit("provider", Event("user_input_requested"))
    /\ UNCHANGED <<disk, writing, enqueue, execute, active, cancel, input, inFlight, server>>

\* The process ends: because it was told to, or by itself, also while it waits for an answer.
ProviderExits ==
    /\ Running
    /\ provider.pc \in {"up", "asking"}
    /\ \E outcome \in IF provider.told THEN {"cancelled"} ELSE Outcomes :
            provider' = [provider EXCEPT !.pc = "exited", !.outcome = outcome]
    /\ UNCHANGED <<disk, writing, emits, reply, enqueue, execute, active, cancel,
                   input, inFlight, server>>

\* The adapter reports the end once its earlier events are through; if one of them
\* was refused the queue is broken, and with it the completion.
ProviderReports ==
    /\ Running
    /\ provider.pc = "exited"
    /\ ~Emitting("provider")
    /\ IF provider.reports /\ reply["provider"] # "failed"
       THEN ProviderAt("reported") /\ Emit("provider", Completed(provider.outcome))
       ELSE /\ ProviderAt(IF provider.reports THEN "broken" ELSE "settled")
            /\ UNCHANGED <<emits, reply>>
    /\ UNCHANGED <<disk, writing, enqueue, execute, active, cancel, input, inFlight, server>>

ProviderSettles ==
    /\ Running
    /\ provider.pc = "reported"
    /\ reply["provider"] # "none"
    /\ ProviderAt(IF reply["provider"] = "ok" THEN "settled" ELSE "broken")
    /\ UNCHANGED <<disk, writing, emits, reply, enqueue, execute, active, cancel,
                   input, inFlight, server>>

\* A refused event of a live process is a rejection in the adapter's event queue
\* that nobody has awaited yet; the HTTP adapter swallows it.
ProviderEventRefused ==
    /\ server.up
    /\ Alive
    /\ reply["provider"] = "failed"
    /\ reply' = [reply EXCEPT !["provider"] = "none"]
    /\ IF provider.reports THEN Dies ELSE UNCHANGED server
    /\ UNCHANGED <<disk, writing, emits, calls>>

-----------------------------------------------------------------------------
(* cancel() *)

\* provider.cancel reaches a process that is registered and alive.
Told == IF active /\ Alive THEN [provider EXCEPT !.told = TRUE] ELSE provider

\* The run is read.  A waiting run leaves the queue at once.
CancelRead(c) ==
    /\ Running
    /\ cancel[c].pc = "idle"
    /\ snap # Absent
    /\ \/ /\ snap.state \in Terminal
          /\ cancel' = [cancel EXCEPT ![c].pc = "done"]
          /\ UNCHANGED <<enqueue, provider>>
       \/ /\ snap.state \in {"queued", "orphaned"}
          /\ cancel' = [cancel EXCEPT ![c] = [pc |-> "cancelled", copy |-> snap]]
          /\ enqueue' = IF enqueue = "queued" THEN "gone" ELSE enqueue
          /\ UNCHANGED provider
       \/ /\ snap.state \in {"starting", "running"} \cup Waiting
          /\ cancel' = [cancel EXCEPT ![c] = [pc |-> "cancelling", copy |-> snap]]
          /\ UNCHANGED <<enqueue, provider>>
       \/ /\ snap.state = "cancelling"
          /\ cancel' = [cancel EXCEPT ![c].pc = "done"]
          /\ provider' = Told
          /\ UNCHANGED enqueue
    /\ UNCHANGED <<disk, writing, emits, reply, execute, active, input, inFlight, server>>

\* A run that does not execute is cancelled, and this is reported.
CancelWaiting(c) ==
    /\ Running
    /\ cancel[c].pc = "cancelled"
    /\ \/ /\ UpdateAccepted(cancel[c].copy, "cancelled")
          /\ Update(cancel[c].copy, "cancelled")
          /\ Emit(c, Completed("cancelled"))
          /\ cancel' = [cancel EXCEPT ![c].pc = "completing"]
          /\ UNCHANGED server
       \/ /\ \/ ~UpdateAccepted(cancel[c].copy, "cancelled") /\ UNCHANGED server
             \/ CanFail /\ Fails
          /\ cancel' = [cancel EXCEPT ![c].pc = "done"]
          /\ UNCHANGED <<snap, emits, reply>>
    /\ UNCHANGED <<log, writing, enqueue, execute, provider, active, input, inFlight>>

CancelCompletes(c) ==
    /\ Running
    /\ cancel[c].pc = "completing"
    /\ reply[c] # "none"
    /\ cancel' = [cancel EXCEPT ![c].pc = "done"]
    /\ UNCHANGED <<disk, writing, emits, reply, enqueue, execute, provider, active,
                   input, inFlight, server>>

\* A run that executes becomes cancelling, and the provider is told.
CancelActive(c) ==
    /\ Running
    /\ cancel[c].pc = "cancelling"
    /\ cancel' = [cancel EXCEPT ![c].pc = "done"]
    /\ \/ /\ UpdateAccepted(cancel[c].copy, "cancelling")
          /\ Update(cancel[c].copy, "cancelling")
          /\ provider' = Told
          /\ UNCHANGED server
       \/ /\ \/ ~UpdateAccepted(cancel[c].copy, "cancelling") /\ UNCHANGED server
             \/ CanFail /\ Fails
          /\ UNCHANGED <<snap, provider>>
    /\ UNCHANGED <<log, writing, emits, reply, enqueue, execute, active, input, inFlight>>

-----------------------------------------------------------------------------
(* sendInput() *)

\* The checks: the run waits, no other input is on its way, it has a provider.
InputRead(i) ==
    /\ Running
    /\ input[i] = "idle"
    /\ snap.state = "waiting_for_input"
    /\ ~inFlight
    /\ active
    /\ input' = [input EXCEPT ![i] = "events"]
    /\ UNCHANGED <<disk, writing, emits, reply, enqueue, execute, provider, active,
                   cancel, inFlight, server>>

\* pendingUserInputRequest: the last interaction of the log is a question.
QuestionPending ==
    \E k \in DOMAIN log :
        /\ log[k].event.kind = "user_input_requested"
        /\ \A j \in k + 1 .. Len(log) :
            log[j].event.kind \notin {"user_input_received", "approval_requested"}

\* The question is found in the log and the answer given to a live process.
InputSends(i) ==
    /\ Running
    /\ input[i] = "events"
    /\ IF QuestionPending /\ Alive
       THEN /\ input' = [input EXCEPT ![i] = "sent"]
            /\ inFlight' = TRUE
            /\ provider' = [provider EXCEPT !.pc = IF @ = "asking" THEN "up" ELSE @]
       ELSE /\ input' = [input EXCEPT ![i] = "done"]
            /\ UNCHANGED <<provider, inFlight>>
    /\ UNCHANGED <<disk, writing, emits, reply, enqueue, execute, active, cancel, server>>

InputEmits(i) ==
    /\ Running
    /\ input[i] = "sent"
    /\ input' = [input EXCEPT ![i] = "receipt"]
    /\ Emit(i, Event("user_input_received"))
    /\ UNCHANGED <<disk, writing, enqueue, execute, provider, active, cancel, inFlight, server>>

InputReturns(i) ==
    /\ Running
    /\ input[i] = "receipt"
    /\ reply[i] # "none"
    /\ input' = [input EXCEPT ![i] = "done"]
    /\ inFlight' = FALSE
    /\ UNCHANGED <<disk, writing, emits, reply, enqueue, execute, provider, active,
                   cancel, server>>

-----------------------------------------------------------------------------
(* Crash, and recover() at the next start *)

Crash ==
    /\ server.up
    /\ server.crashes < MaxCrashes
    /\ server' = [server EXCEPT !.up = FALSE, !.crashes = @ + 1]
    /\ UNCHANGED <<disk, writing, emits, reply, calls>>

\* Mutant: a run that is over is orphaned like any other.
RecoveredAsOrphan ==
    IF CanReplay(log) THEN [state |-> "orphaned", seq |-> log[Len(log)].seq] ELSE snap

\* The log decides; a run that is not over has lost its process.  Without a log the
\* snapshot decides, and a log that does not begin with run_created is an error.
Recovered ==
    CASE CanReplay(log) ->
            [state |-> IF Replay(log) \in Terminal THEN Replay(log) ELSE "orphaned",
             seq   |-> log[Len(log)].seq]
      [] log = <<>> /\ snap # Absent /\ snap.seq = 0 ->
            [state |-> "orphaned", seq |-> 0]
      [] OTHER -> snap

Restart ==
    /\ ~server.up
    /\ server.restarts < MaxRestarts
    /\ server' = [server EXCEPT !.up = TRUE, !.restarts = @ + 1]
    /\ snap' = Recovered
    /\ UNCHANGED log
    /\ Fresh("gone")

-----------------------------------------------------------------------------
Store == EmitRead \/ EmitAppend \/ WriteSnapshot \/ WriteSnapshotFails

Execute ==
    \/ ExecuteRead \/ ExecuteWarned \/ ExecuteStart \/ ExecuteDiscovers
    \/ ExecuteNegotiates \/ ExecuteActivates \/ ExecuteSettles \/ ExecuteEnds
    \/ ExecuteCatches \/ ExecuteAborts \/ ExecuteReports \/ ExecuteCompletes
    \/ ExecuteFinally

Provider ==
    \/ ProviderStarts \/ ProviderBegins \/ ProviderAsks \/ ProviderExits
    \/ ProviderReports \/ ProviderSettles \/ ProviderEventRefused

Cancel(c) == CancelRead(c) \/ CancelWaiting(c) \/ CancelCompletes(c) \/ CancelActive(c)

Input(i) == InputRead(i) \/ InputSends(i) \/ InputEmits(i) \/ InputReturns(i)

Next ==
    \/ Store
    \/ CreateRun \/ AnnounceRun
    \/ Execute
    \/ Provider
    \/ \E c \in Cancellers : Cancel(c)
    \/ \E i \in Inputs : Input(i)
    \/ Crash
    \/ Restart

Spec == Init /\ [][Next]_vars

\* What goes on without anybody asking, answering or cancelling.
ProviderGoesOn ==
    ProviderStarts \/ ProviderBegins \/ ProviderExits \/ ProviderReports \/ ProviderSettles
        \/ ProviderEventRefused
CancelGoesOn(c) == CancelWaiting(c) \/ CancelCompletes(c) \/ CancelActive(c)
InputGoesOn(i) == InputSends(i) \/ InputEmits(i) \/ InputReturns(i)

-----------------------------------------------------------------------------
(* Properties *)

\* The log has no gap and the snapshot is never ahead of it, and behind it by at
\* most one event, although either of the two writes of an append may be missing
\* after an error or a crash: otherwise recover() would give the run up.
LogLeads ==
    /\ \A k \in DOMAIN log : log[k].seq = k
    /\ snap.seq <= Len(log)
    /\ Len(log) <= snap.seq + 1

\* A run has one verdict: however execute(), cancel(), the provider and restarts
\* interleave, two run_completed events never disagree.
OneVerdict ==
    \A j, k \in DOMAIN log :
        /\ log[j].event.kind = "run_completed"
        /\ log[k].event.kind = "run_completed"
        => log[j].event = log[k].event

\* Nothing is under way.
AtRest ==
    /\ server.up
    /\ emits = <<>> /\ ~writing
    /\ execute.pc \in {"none", "done"}
    /\ \A c \in Cancellers : cancel[c].pc \in {"idle", "done"}
    /\ \A i \in Inputs : input[i] \in {"idle", "done"}

\* At rest the log alone gives the verdict of a run that is over, whoever ended it and
\* wherever the server stopped before, and unless it crashed recover() can read it.  A
\* snapshot that could not be written takes the verdict with it, and an adapter that
\* reports no run_completed leaves none.
Reproducible ==
    AtRest /\ snap.state \in Terminal /\ server.failures = 0
        /\ (provider.pc = "none" \/ provider.reports)
      => /\ server.crashes = 0 => CanReplay(log)
         /\ Replay(log) = snap.state

\* While the server is up a run that is over does not change.
TerminalIsFinal ==
    [][server.up /\ server'.up /\ snap.state \in Terminal => snap'.state = snap.state]_vars

=============================================================================
