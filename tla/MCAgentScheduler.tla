-------------------------- MODULE MCAgentScheduler --------------------------
(***************************************************************************)
(* AgentScheduler for TLC, in three installations, one of which is chosen  *)
(* at the start:                                                           *)
(*   "competition"  three runs of two providers compete for two slots;     *)
(*   "cancellation" one slot, one run is over, two compete for the slot,   *)
(*                  and one of them may be cancelled;                      *)
(*   "admission"    two runs of different priority race for the last       *)
(*                  waiting place while the installation is busy and the   *)
(*                  clock runs.                                            *)
(***************************************************************************)
EXTENDS AgentScheduler

CONSTANTS r1, r2, r3, codex, openrouter, office,
          Installations     \* those that may be chosen

VARIABLE installation

allVars == <<installation, vars>>

\* Every run of one provider but r2, which another one serves.
TwoProviders == [r \in {r1, r2, r3} |-> IF r = r2 THEN {openrouter} ELSE {codex}]
OneSlotEach == [s \in {codex, openrouter, office} |-> 1]
NoQueueLimit == [s \in {} |-> 1]
Equal == [r \in {r1, r2, r3} |-> 0]

Cancellation == INSTANCE AgentScheduler WITH Cancellable <- {r2}, MaxParallel <- 1, MaxQueued <- 2

\* One workspace, where one run may wait; r3 is the urgent one.
InOffice == [r \in {r1, r2, r3} |-> TwoProviders[r] \cup {office}]
OneWaits == [s \in {office} |-> 1]
R3IsUrgent == [r \in {r1, r2, r3} |-> IF r = r3 THEN 1 ELSE 0]
Admission == INSTANCE AgentScheduler WITH
    Cancellable <- {}, MaxParallel <- 1, MaxQueued <- 1, MaxNow <- 1,
    ScopesOf <- InOffice, QueueLimit <- OneWaits, Priority <- R3IsUrgent

\* r1 was requested, queued and started before; its provider process runs, or is over.
R1Started(state, pc, slots) ==
    /\ run = [r \in Runs |-> IF r = r1 THEN [state |-> state, seq |-> 2, pos |-> 0] ELSE Absent]
    /\ queue = <<>>
    /\ ordinal = 1
    /\ now = 0
    /\ admitted = {}
    /\ inFlight = slots
    /\ enqueue = [r \in Runs |-> [pc |-> IF r = r1 THEN "returned" ELSE "new", at |-> 0, pos |-> 0]]
    /\ cancel = [r \in Runs |-> [pc |-> "idle", copy |-> Absent]]
    /\ execute = [r \in Runs |-> [pc |-> IF r = r1 THEN pc ELSE "none", copy |-> Absent]]
    /\ schedule = [pc |-> "idle", i |-> 0, run |-> NoRun]
    /\ refresh = [c \in Callers |-> NotRefreshing]

MCInit ==
    /\ installation \in Installations
    /\ IF installation = "cancellation" THEN R1Started("succeeded", "done", {})
       ELSE R1Started("running", "running", {r1})

MCNext ==
    /\ UNCHANGED installation
    /\ \/ installation = "competition" /\ Next
       \/ installation = "cancellation" /\ Cancellation!Next
       \/ installation = "admission" /\ Admission!Next

MCSpec == MCInit /\ [][MCNext]_allVars

\* While the process lives, store calls settle and provider processes end, so that
\* every call goes on to its end; nobody has to request a run, and the clock may stop.
Competing(step) == installation = "competition" /\ Up /\ step /\ UNCHANGED installation
MCFairness ==
    /\ \A r \in Runs :
        /\ WF_allVars(Competing(\/ CreateRun(r) \/ AnnounceRun(r) \/ EnqueueReturns(r)
                                \/ EnqueueThrows(r) \/ Refresh(<<"enqueue", r>>)))
        /\ WF_allVars(Competing(Execute(r)))
    /\ WF_allVars(Competing(Schedule \/ Refresh(Loop)))

MCFairSpec == MCSpec /\ MCFairness

-----------------------------------------------------------------------------
\* ParallelLimit, where there is one slot, and QueueBounded, where there is one waiting
\* place: the bounds of the whole installation are kept across the steps of a call.
BoundsKept ==
    /\ installation # "competition" => Cancellation!ParallelLimit
    /\ installation = "admission" => Admission!QueueBounded

\* The runs that were admitted and are not over.
Unfinished ==
    {r \in Runs : enqueue[r].pc = "create" \/ run[r].state \notin Terminal \cup {"absent"}}

\* Every run that was admitted is over some day, as no wake-up of the loop and no
\* slot is lost: a run is requested once, so one that never ended would keep the set
\* from ever being empty again.
CompetitorsEnd == installation = "competition" => []<>(Unfinished = {})

=============================================================================
