--------------------------- MODULE AgentScheduler ---------------------------
(***************************************************************************)
(* The run queue of src/server/src/agents/agent-control-center.ts: the     *)
(* admission of runs, the priority queue with aging, the one scheduling    *)
(* loop that hands out the parallel slots, the renumbering of the queue,   *)
(* and cancellation.                                                       *)
(*                                                                         *)
(* JavaScript runs to the next await without interruption.  An action is   *)
(* one effect on the run store together with the synchronous code that     *)
(* follows when it resolves; between two actions every other call may run. *)
(* Every call keeps what it has read in local state: its program counter   *)
(* and a copy of the run, which may be stale when it is written back.      *)
(*                                                                         *)
(* What a run does while it holds a slot is reduced to its start, its      *)
(* provider process and its settlement; module AgentRunLifecycle has the   *)
(* details of that part.                                                   *)
(***************************************************************************)
EXTENDS AgentRunState, Integers, Sequences, FiniteSets, Functions

CONSTANTS
    Runs,            \* the runs that may be requested
    NoRun,           \* no run
    Scopes,          \* providers, workspaces and owners: whatever has a limit
    ScopesOf,        \* the scopes a run counts against
    Limit,           \* parallel runs per scope
    QueueLimit,      \* waiting runs per scope, for the scopes that bound them
    MaxParallel,     \* parallel runs, all together
    MaxQueued,       \* waiting runs, all together
    Priority,        \* the priority a run is requested with
    AgingStep,       \* priority gained per interval waited
    AgingMax,        \* the most that aging adds
    MaxNow,          \* bound on the clock, in aging intervals
    Cancellable      \* the runs an operator may cancel

ASSUME SchedulerAssumption ==
    /\ NoRun \notin Runs
    /\ IsFiniteSet(Runs)
    /\ ScopesOf \in [Runs -> SUBSET Scopes]
    /\ Limit \in [Scopes -> Nat \ {0}]
    /\ DOMAIN QueueLimit \subseteq Scopes
    /\ \A s \in DOMAIN QueueLimit : QueueLimit[s] \in Nat \ {0}
    /\ MaxParallel \in Nat \ {0}
    /\ MaxQueued \in Nat \ {0}
    /\ Priority \in [Runs -> Int]
    /\ AgingStep \in Nat /\ AgingMax \in Nat /\ MaxNow \in Nat
    /\ Cancellable \subseteq Runs

VARIABLES
    run,        \* the stored snapshots
    queue,      \* the waiting runs, in array order
    ordinal,    \* next ticket, for first come first served among equals
    now,        \* the clock
    admitted,   \* runs that hold a queue place while they are being created
    inFlight,   \* runs that hold a parallel slot
    enqueue,    \* local state of enqueue(r)
    cancel,     \* local state of cancel(r)
    execute,    \* local state of execute(r)
    schedule,   \* local state of the scheduling loop
    refresh     \* local state of refreshQueuePositions(), per caller

vars == <<run, queue, ordinal, now, admitted, inFlight, enqueue, cancel,
          execute, schedule, refresh>>

-----------------------------------------------------------------------------
(* State *)

Absent == [state |-> "absent", seq |-> 0, pos |-> 0]

Snapshots == [state : AgentStates \cup {"absent"}, seq : Nat, pos : Nat]

QueuedRuns == [run : Runs, ordinal : Nat, at : Nat]

\* Who renumbers the queue: the scheduling loop, enqueue(r) and cancel(r).
Loop == <<"schedule", NoRun>>
Callers == {Loop} \cup ({"enqueue", "cancel"} \X Runs)

NotRefreshing == [pc |-> "idle", i |-> 0, run |-> NoRun, copy |-> Absent]
\* The run at index i is asked for; past the end of the array there is none.
Reading(i, q) == [pc |-> "read", i |-> i,
                  run |-> IF i \in DOMAIN q THEN q[i].run ELSE NoRun, copy |-> Absent]
Thrown        == [pc |-> "thrown", i |-> 0, run |-> NoRun, copy |-> Absent]

EnqueueLocals ==
    [pc : {"new", "create", "announce", "refresh", "returned", "rejected"},
     at : Nat, pos : Nat]

CancelLocals ==
    [pc : {"idle", "cancelled", "completed", "refresh", "cancelling", "returned",
           "rejected"},
     copy : Snapshots]

ExecuteLocals ==
    [pc : {"none", "begin", "start", "work", "running", "abort", "finally", "done"},
     copy : Snapshots]

ScheduleLocals ==
    [pc : {"idle", "loop", "ended"}, i : {0}, run : {NoRun}]
        \cup [pc : {"probe", "reserve", "refresh"}, i : Nat, run : Runs]

RefreshLocals ==
    [pc : {"idle", "read", "write", "thrown"},
     i : Nat, run : Runs \cup {NoRun}, copy : Snapshots]

TypeOK ==
    /\ run \in [Runs -> Snapshots]
    /\ queue \in Seq(QueuedRuns)
    /\ ordinal \in Nat
    /\ now \in Nat
    /\ admitted \subseteq Runs
    /\ inFlight \subseteq Runs
    /\ enqueue \in [Runs -> EnqueueLocals]
    /\ cancel \in [Runs -> CancelLocals]
    /\ execute \in [Runs -> ExecuteLocals]
    /\ schedule \in ScheduleLocals
    /\ refresh \in [Callers -> RefreshLocals]

Init ==
    /\ run = [r \in Runs |-> Absent]
    /\ queue = <<>>
    /\ ordinal = 0
    /\ now = 0
    /\ admitted = {}
    /\ inFlight = {}
    /\ enqueue = [r \in Runs |-> [pc |-> "new", at |-> 0, pos |-> 0]]
    /\ cancel = [r \in Runs |-> [pc |-> "idle", copy |-> Absent]]
    /\ execute = [r \in Runs |-> [pc |-> "none", copy |-> Absent]]
    /\ schedule = [pc |-> "idle", i |-> 0, run |-> NoRun]
    /\ refresh = [c \in Callers |-> NotRefreshing]

-----------------------------------------------------------------------------
(* Helpers *)

Queued(S) == {k \in DOMAIN queue : queue[k].run \in S}
RunsIn(s) == {r \in Runs : s \in ScopesOf[r]}

\* Mutant: the places reserved for runs that are being created are not counted.
HasCapacityIgnoringReserved(r) ==
    /\ Len(queue) < MaxQueued
    /\ \A s \in ScopesOf[r] \cap DOMAIN QueueLimit :
        Cardinality(Queued(RunsIn(s))) < QueueLimit[s]

\* assertQueueCapacity: what already waits and what is about to.
HasCapacity(r) ==
    /\ Len(queue) + Cardinality(admitted) < MaxQueued
    /\ \A s \in ScopesOf[r] \cap DOMAIN QueueLimit :
        Cardinality(Queued(RunsIn(s))) + Cardinality(admitted \cap RunsIn(s))
            < QueueLimit[s]

\* Mutant: only the installation's limit is looked at.
BlockedGloballyOnly(r) == Cardinality(inFlight) >= MaxParallel

\* blockReasons is not empty.
Blocked(r) ==
    \/ Cardinality(inFlight) >= MaxParallel
    \/ \E s \in ScopesOf[r] : Cardinality(inFlight \cap RunsIn(s)) >= Limit[s]

Least(a, b) == IF a < b THEN a ELSE b

EffectivePriority(item) ==
    Priority[item.run] + Least(AgingMax, (now - item.at) * AgingStep)

Before(a, b) ==
    \/ EffectivePriority(a) > EffectivePriority(b)
    \/ EffectivePriority(a) = EffectivePriority(b) /\ a.ordinal < b.ordinal

\* The arrangement of q that sortQueue leaves: exactly one, ordinals differ.
IsSorted(q) == \A i, j \in DOMAIN q : i < j => Before(q[i], q[j])
Arrangements(q) ==
    {[i \in DOMAIN q |-> q[p[i]]] : p \in Bijection(DOMAIN q, DOMAIN q)}
SortInto(q) == \E sorted \in Arrangements(q) : IsSorted(sorted) /\ queue' = sorted


\* Mutant: the neighbour is removed.
WithoutNextAt(q, i) == [k \in 1 .. Len(q) - 1 |-> IF k <= i THEN q[k] ELSE q[k + 1]]

WithoutAt(q, i) == [k \in 1 .. Len(q) - 1 |-> IF k < i THEN q[k] ELSE q[k + 1]]

\* The optimistic check of AgentRunStore.update.
UpdateAccepted(r, copy, to) ==
    run[r].seq = copy.seq /\ CanTransition(run[r].state, to)

\* What AgentRunStore.update and AgentRunStore.append make of the snapshot.
Update(r, copy, to, pos) ==
    run' = [run EXCEPT ![r] = [state |-> to, seq |-> copy.seq, pos |-> pos]]
AppendEvent(r, to) ==
    run' = [run EXCEPT ![r] = [state |-> to, seq |-> run[r].seq + 1, pos |-> run[r].pos]]

\* schedule(): a call while the loop is running returns at once.
CallSchedule ==
    schedule' = IF schedule.pc = "idle" THEN [schedule EXCEPT !.pc = "loop"] ELSE schedule

-----------------------------------------------------------------------------
(* refreshQueuePositions(): sort, then read and renumber one run at a time *)

StartRefresh(c) ==
    refresh' = [refresh EXCEPT ![c] = Reading(1, queue')]

EndRefresh(c) == refresh' = [refresh EXCEPT ![c] = NotRefreshing]

Refreshed(c) == refresh[c].pc = "read" /\ refresh[c].run = NoRun

\* store.get of the run that stood at the index when it was asked for; one that has
\* its number needs no write.
RefreshRead(c) ==
    /\ refresh[c].pc = "read"
    /\ refresh[c].run # NoRun
    /\ LET i == refresh[c].i
           r == refresh[c].run
       IN refresh' = IF run[r].pos = i
                     THEN [refresh EXCEPT ![c] = Reading(i + 1, queue)]
                     ELSE [refresh EXCEPT ![c] =
                              [pc |-> "write", i |-> i, run |-> r, copy |-> run[r]]]
    /\ UNCHANGED <<run, queue, ordinal, now, admitted, inFlight, enqueue, cancel,
                   execute, schedule>>

\* store.update of the copy with its new number; a refused update ends the call.
RefreshWrite(c) ==
    LET r == refresh[c].run
        i == refresh[c].i
        copy == refresh[c].copy
    IN /\ refresh[c].pc = "write"
       /\ IF UpdateAccepted(r, copy, copy.state)
          THEN /\ Update(r, copy, copy.state, i)
               /\ refresh' = [refresh EXCEPT ![c] = Reading(i + 1, queue)]
          ELSE /\ refresh' = [refresh EXCEPT ![c] = Thrown]
               /\ UNCHANGED run
       /\ UNCHANGED <<queue, ordinal, now, admitted, inFlight, enqueue, cancel,
                      execute, schedule>>

-----------------------------------------------------------------------------
(* enqueue(r) *)

\* The capacity check and the reservation of the place are synchronous.
Admit(r) ==
    /\ enqueue[r].pc = "new"
    /\ IF HasCapacity(r)
       THEN /\ admitted' = admitted \cup {r}
            /\ enqueue' = [enqueue EXCEPT ![r] = [pc |-> "create", at |-> now,
                                                  pos |-> Len(queue) + 1]]
       ELSE /\ enqueue' = [enqueue EXCEPT ![r].pc = "rejected"]
            /\ UNCHANGED admitted
    /\ UNCHANGED <<run, queue, ordinal, now, inFlight, cancel, execute, schedule, refresh>>

\* store.create: from here on the run can be listed, and cancelled.
CreateRun(r) ==
    /\ enqueue[r].pc = "create"
    /\ run' = [run EXCEPT ![r] = [state |-> "queued", seq |-> 0, pos |-> enqueue[r].pos]]
    /\ enqueue' = [enqueue EXCEPT ![r].pc = "announce"]
    /\ UNCHANGED <<queue, ordinal, now, admitted, inFlight, cancel, execute, schedule, refresh>>

\* run_created is appended; the run takes its ticket and gives back the place.
AnnounceRun(r) ==
    /\ enqueue[r].pc = "announce"
    /\ AppendEvent(r, run[r].state)
    /\ SortInto(Append(queue, [run |-> r, ordinal |-> ordinal, at |-> enqueue[r].at]))
    /\ ordinal' = ordinal + 1
    /\ admitted' = admitted \ {r}
    /\ StartRefresh(<<"enqueue", r>>)
    /\ enqueue' = [enqueue EXCEPT ![r].pc = "refresh"]
    /\ UNCHANGED <<now, inFlight, cancel, execute, schedule>>

\* Once the queue is renumbered the loop is woken and the caller gets its run.
EnqueueReturns(r) ==
    /\ enqueue[r].pc = "refresh"
    /\ Refreshed(<<"enqueue", r>>)
    /\ EndRefresh(<<"enqueue", r>>)
    /\ enqueue' = [enqueue EXCEPT ![r].pc = "returned"]
    /\ CallSchedule
    /\ UNCHANGED <<run, queue, ordinal, now, admitted, inFlight, cancel, execute>>

\* A refused renumbering rejects the call and skips the wake-up.
EnqueueThrows(r) ==
    /\ enqueue[r].pc = "refresh"
    /\ refresh[<<"enqueue", r>>].pc = "thrown"
    /\ EndRefresh(<<"enqueue", r>>)
    /\ enqueue' = [enqueue EXCEPT ![r].pc = "rejected"]
    /\ UNCHANGED <<run, queue, ordinal, now, admitted, inFlight, cancel, execute, schedule>>

-----------------------------------------------------------------------------
(* schedule() *)

\* The head of the while loop: sort, and ask for the first candidate.
ScheduleLoop ==
    /\ schedule.pc = "loop"
    /\ IF Cardinality(inFlight) < MaxParallel /\ queue # <<>>
       THEN /\ SortInto(queue)
            /\ schedule' = [pc |-> "probe", i |-> 1, run |-> queue'[1].run]
       ELSE /\ schedule' = [pc |-> "idle", i |-> 0, run |-> NoRun]
            /\ UNCHANGED queue
    /\ UNCHANGED <<run, ordinal, now, admitted, inFlight, enqueue, cancel, execute, refresh>>

\* The candidate is read.  If nothing blocks it, whatever is at its index NOW
\* leaves the queue; if the queue has shrunk below the index, nothing does.
ScheduleProbe ==
    LET i == schedule.i
    IN /\ schedule.pc = "probe"
       /\ \/ /\ ~Blocked(schedule.run)
             /\ i \in DOMAIN queue
             /\ queue' = WithoutAt(queue, i)
             /\ schedule' = [pc |-> "reserve", i |-> 0, run |-> queue[i].run]
          \/ /\ ~Blocked(schedule.run)
             /\ i \notin DOMAIN queue
             /\ schedule' = [pc |-> "idle", i |-> 0, run |-> NoRun]
             /\ UNCHANGED queue
          \/ /\ Blocked(schedule.run)
             /\ schedule' = IF i + 1 \in DOMAIN queue
                            THEN [pc |-> "probe", i |-> i + 1, run |-> queue[i + 1].run]
                            ELSE [pc |-> "idle", i |-> 0, run |-> NoRun]
             /\ UNCHANGED queue
       /\ UNCHANGED <<run, ordinal, now, admitted, inFlight, enqueue, cancel,
                      execute, refresh>>

\* The run is read again and takes the slot; the others are renumbered.
ScheduleReserve ==
    /\ schedule.pc = "reserve"
    /\ inFlight' = inFlight \cup {schedule.run}
    /\ SortInto(queue)
    /\ StartRefresh(Loop)
    /\ schedule' = [schedule EXCEPT !.pc = "refresh"]
    /\ UNCHANGED <<run, ordinal, now, admitted, enqueue, cancel, execute>>

\* execute(r) is started and the loop goes round.
ScheduleStarts ==
    /\ schedule.pc = "refresh"
    /\ Refreshed(Loop)
    /\ EndRefresh(Loop)
    /\ execute' = [execute EXCEPT ![schedule.run].pc = "begin"]
    /\ schedule' = [pc |-> "loop", i |-> 0, run |-> NoRun]
    /\ UNCHANGED <<run, queue, ordinal, now, admitted, inFlight, enqueue, cancel>>

\* A refused renumbering ends the loop between the slot and its execute(r).  The
\* loop is a floating promise (void this.schedule()), nothing in the repository
\* handles its rejection, and an unhandled rejection ends the process.
ScheduleThrows ==
    /\ schedule.pc = "refresh"
    /\ refresh[Loop].pc = "thrown"
    /\ EndRefresh(Loop)
    /\ schedule' = [pc |-> "ended", i |-> 0, run |-> NoRun]
    /\ UNCHANGED <<run, queue, ordinal, now, admitted, inFlight, enqueue, cancel, execute>>

-----------------------------------------------------------------------------
(* execute(r) *)

\* The run is read; one that was cancelled meanwhile cannot start: the rejected
\* transition is recorded as a warning event and the call goes to its catch.
ExecuteRead(r) ==
    /\ execute[r].pc = "begin"
    /\ IF CanTransition(run[r].state, "starting")
       THEN /\ execute' = [execute EXCEPT ![r] = [pc |-> "start", copy |-> run[r]]]
            /\ UNCHANGED run
       ELSE /\ AppendEvent(r, run[r].state)
            /\ execute' = [execute EXCEPT ![r].pc = "abort"]
    /\ UNCHANGED <<queue, ordinal, now, admitted, inFlight, enqueue, cancel,
                   schedule, refresh>>

\* Mutant: a refused update does not keep the run from starting.
StartRegardless(r) ==
    /\ execute[r].pc = "start"
    /\ IF UpdateAccepted(r, execute[r].copy, "starting")
       THEN Update(r, execute[r].copy, "starting", 0)
       ELSE UNCHANGED run
    /\ execute' = [execute EXCEPT ![r].pc = "work"]
    /\ UNCHANGED <<queue, ordinal, now, admitted, inFlight, enqueue, cancel,
                   schedule, refresh>>

\* store.update to starting, unless the copy is stale.
ExecuteStart(r) ==
    /\ execute[r].pc = "start"
    /\ IF UpdateAccepted(r, execute[r].copy, "starting")
       THEN /\ Update(r, execute[r].copy, "starting", 0)
            /\ execute' = [execute EXCEPT ![r].pc = "work"]
       ELSE /\ execute' = [execute EXCEPT ![r].pc = "abort"]
            /\ UNCHANGED run
    /\ UNCHANGED <<queue, ordinal, now, admitted, inFlight, enqueue, cancel,
                   schedule, refresh>>

\* Discovery, negotiation and the start of the provider process succeed ...
ProviderStarts(r) ==
    /\ execute[r].pc = "work"
    /\ AppendEvent(r, StateAfterEvent(run[r].state, [kind |-> "process_started"]))
    /\ execute' = [execute EXCEPT ![r].pc = "running"]
    /\ UNCHANGED <<queue, ordinal, now, admitted, inFlight, enqueue, cancel,
                   schedule, refresh>>

\* ... or one of them fails.
ProviderFailsToStart(r) ==
    /\ execute[r].pc = "work"
    /\ execute' = [execute EXCEPT ![r].pc = "abort"]
    /\ UNCHANGED <<run, queue, ordinal, now, admitted, inFlight, enqueue, cancel,
                   schedule, refresh>>

\* The process ends with its own outcome; a cancelled run ends as cancelled.
ProviderCompletes(r) ==
    /\ execute[r].pc = "running"
    /\ \E outcome \in {"succeeded", "failed"} :
        AppendEvent(r, IF run[r].state = "cancelling" THEN "cancelled" ELSE outcome)
    /\ execute' = [execute EXCEPT ![r].pc = "finally"]
    /\ UNCHANGED <<queue, ordinal, now, admitted, inFlight, enqueue, cancel,
                   schedule, refresh>>

\* The catch: a run that is not over becomes failed, or cancelled if asked to.
ExecuteAborts(r) ==
    /\ execute[r].pc = "abort"
    /\ IF run[r].state \in Terminal
       THEN UNCHANGED run
       ELSE AppendEvent(r, IF run[r].state = "cancelling" THEN "cancelled" ELSE "failed")
    /\ execute' = [execute EXCEPT ![r].pc = "finally"]
    /\ UNCHANGED <<queue, ordinal, now, admitted, inFlight, enqueue, cancel,
                   schedule, refresh>>

\* Mutant: the loop is not woken.
ReleaseSilently(r) ==
    /\ execute[r].pc = "finally"
    /\ inFlight' = inFlight \ {r}
    /\ execute' = [execute EXCEPT ![r].pc = "done"]
    /\ UNCHANGED <<run, queue, ordinal, now, admitted, enqueue, cancel, schedule, refresh>>

\* The finally: the slot is given back and the loop is woken.
ReleaseSlot(r) ==
    /\ execute[r].pc = "finally"
    /\ inFlight' = inFlight \ {r}
    /\ execute' = [execute EXCEPT ![r].pc = "done"]
    /\ CallSchedule
    /\ UNCHANGED <<run, queue, ordinal, now, admitted, enqueue, cancel, refresh>>

-----------------------------------------------------------------------------
(* cancel(r) *)

\* The run is read.  A waiting run leaves the queue at once, before the store
\* knows; what is over stays as it is.
CancelRead(r) ==
    /\ cancel[r].pc = "idle"
    /\ run[r].state # "absent"
    /\ \/ /\ run[r].state \in Terminal
          /\ cancel' = [cancel EXCEPT ![r].pc = "returned"]
          /\ UNCHANGED queue
       \/ /\ run[r].state = "queued"
          /\ cancel' = [cancel EXCEPT ![r] = [pc |-> "cancelled", copy |-> run[r]]]
          /\ \/ \E i \in Queued({r}) : queue' = WithoutAt(queue, i)
             \/ Queued({r}) = {} /\ UNCHANGED queue
       \/ /\ run[r].state \in {"starting", "running"}
          /\ cancel' = [cancel EXCEPT ![r] = [pc |-> "cancelling", copy |-> run[r]]]
          /\ UNCHANGED queue
    /\ UNCHANGED <<run, ordinal, now, admitted, inFlight, enqueue, execute, schedule, refresh>>

\* store.update of the waiting run to cancelled.
CancelQueued(r) ==
    /\ cancel[r].pc = "cancelled"
    /\ IF UpdateAccepted(r, cancel[r].copy, "cancelled")
       THEN /\ Update(r, cancel[r].copy, "cancelled", cancel[r].copy.pos)
            /\ cancel' = [cancel EXCEPT ![r].pc = "completed"]
       ELSE /\ cancel' = [cancel EXCEPT ![r].pc = "rejected"]
            /\ UNCHANGED run
    /\ UNCHANGED <<queue, ordinal, now, admitted, inFlight, enqueue, execute, schedule, refresh>>

\* run_completed is appended and the queue renumbered; the loop is not woken.
CancelCompletes(r) ==
    /\ cancel[r].pc = "completed"
    /\ AppendEvent(r, run[r].state)
    /\ SortInto(queue)
    /\ StartRefresh(<<"cancel", r>>)
    /\ cancel' = [cancel EXCEPT ![r].pc = "refresh"]
    /\ UNCHANGED <<ordinal, now, admitted, inFlight, enqueue, execute, schedule>>

CancelReturns(r) ==
    /\ cancel[r].pc = "refresh"
    /\ \/ Refreshed(<<"cancel", r>>)
       \/ refresh[<<"cancel", r>>].pc = "thrown"
    /\ EndRefresh(<<"cancel", r>>)
    /\ cancel' = [cancel EXCEPT ![r].pc = "returned"]
    /\ UNCHANGED <<run, queue, ordinal, now, admitted, inFlight, enqueue, execute, schedule>>

\* store.update of the executing run to cancelling; its provider is told.
CancelActive(r) ==
    /\ cancel[r].pc = "cancelling"
    /\ IF UpdateAccepted(r, cancel[r].copy, "cancelling")
       THEN /\ Update(r, cancel[r].copy, "cancelling", cancel[r].copy.pos)
            /\ cancel' = [cancel EXCEPT ![r].pc = "returned"]
       ELSE /\ cancel' = [cancel EXCEPT ![r].pc = "rejected"]
            /\ UNCHANGED run
    /\ UNCHANGED <<queue, ordinal, now, admitted, inFlight, enqueue, execute, schedule, refresh>>

-----------------------------------------------------------------------------
(* The clock, and getQueueDiagnostics, which sorts what it shows *)

Tick ==
    /\ now < MaxNow
    /\ now' = now + 1
    /\ UNCHANGED <<run, queue, ordinal, admitted, inFlight, enqueue, cancel, execute,
                   schedule, refresh>>

Diagnose ==
    /\ SortInto(queue)
    /\ UNCHANGED <<run, ordinal, now, admitted, inFlight, enqueue, cancel, execute,
                   schedule, refresh>>

-----------------------------------------------------------------------------
Enqueue(r) ==
    \/ Admit(r) \/ CreateRun(r) \/ AnnounceRun(r) \/ EnqueueReturns(r) \/ EnqueueThrows(r)

Schedule ==
    \/ ScheduleLoop \/ ScheduleProbe \/ ScheduleReserve \/ ScheduleStarts \/ ScheduleThrows

Execute(r) ==
    \/ ExecuteRead(r) \/ ExecuteStart(r) \/ ProviderStarts(r) \/ ProviderFailsToStart(r)
    \/ ProviderCompletes(r) \/ ExecuteAborts(r) \/ ReleaseSlot(r)

Cancel(r) ==
    \/ CancelRead(r) \/ CancelQueued(r) \/ CancelCompletes(r) \/ CancelReturns(r)
    \/ CancelActive(r)

Refresh(c) == RefreshRead(c) \/ RefreshWrite(c)

\* The process is alive.
Up == schedule.pc # "ended"

Next ==
    /\ Up
    /\ \/ \E r \in Runs : Enqueue(r) \/ Execute(r)
       \/ \E r \in Cancellable : Cancel(r)
       \/ \E c \in Callers : Refresh(c)
       \/ Schedule
       \/ Tick
       \/ Diagnose

Spec == Init /\ [][Next]_vars

-----------------------------------------------------------------------------
(* Properties *)

\* The runs whose provider may be at work.
Executing == {r \in Runs : execute[r].pc \notin {"none", "done"}}

\* No more runs execute at once than the installation allows, although the slot
\* is taken and given back in different calls.
ParallelLimit == Cardinality(Executing) <= MaxParallel

\* Nor more runs of one provider, workspace or owner than its limit.  The loop
\* checks a candidate, waits, and takes whatever is then at the same index, so
\* this holds only while the array is not reordered or shortened meanwhile.
ScopeLimits == \A s \in Scopes : Cardinality(Executing \cap RunsIn(s)) <= Limit[s]

\* The bounds on waiting runs hold although every enqueue(r) creates its run in
\* several steps between the check and the push.
QueueBounded == Len(queue) + Cardinality(admitted) <= MaxQueued

\* A run waits, is being started or executes, and is in one of these places at
\* most once: nothing can start it twice.
OnePlace ==
    /\ \A i, j \in DOMAIN queue : queue[i].run = queue[j].run => i = j
    /\ \A i \in DOMAIN queue :
        /\ execute[queue[i].run].pc = "none"
        /\ queue[i].run \notin inFlight
        /\ schedule.pc = "reserve" => queue[i].run # schedule.run
    /\ schedule.pc \in {"reserve", "refresh"} => execute[schedule.run].pc = "none"

\* A run cancelled while it waited never reaches its provider.
CancelledNeverStarts ==
    \A r \in Runs : run[r].state = "cancelled" => execute[r].pc \notin {"work", "running"}

=============================================================================
