----------------------- MODULE AgentScheduler_proofs -----------------------
EXTENDS AgentScheduler, FiniteSetTheorems, SequenceTheorems, TLAPS

(***************************************************************************)
(* What sorting and removal do to the array                                *)
(***************************************************************************)

\* A function on 1 .. n is a sequence of length n.
LEMMA FunctionIsSeq ==
    ASSUME NEW S, NEW n \in Nat, NEW f \in [1 .. n -> S]
    PROVE  f \in Seq(S) /\ Len(f) = n
<1>1. f \in Seq(S)
    BY SeqDef
<1>. QED  BY <1>1, LenProperties

\* sortQueue keeps the length and the kind of the elements.
LEMMA SortIntoType ==
    ASSUME NEW q \in Seq(QueuedRuns), SortInto(q)
    PROVE  queue' \in Seq(QueuedRuns) /\ Len(queue') = Len(q)
<1>1. PICK p \in Bijection(DOMAIN q, DOMAIN q) :
        queue' = [i \in DOMAIN q |-> q[p[i]]]
    BY DEF SortInto, Arrangements
<1>a. DOMAIN q = 1 .. Len(q)
    BY LenProperties
<1>b. p \in [DOMAIN q -> DOMAIN q]
    BY Zenon DEF Bijection, Injection
<1>2. p \in [1 .. Len(q) -> 1 .. Len(q)]
    BY <1>a, <1>b
<1>3. queue' \in [1 .. Len(q) -> QueuedRuns]
    BY <1>1, <1>2
<1>. QED  BY <1>3, SeqDef

\* splice(i, 1) leaves an array that is shorter by one.
LEMMA WithoutAtType ==
    ASSUME NEW q \in Seq(QueuedRuns), NEW i \in DOMAIN q
    PROVE  /\ WithoutAt(q, i) \in Seq(QueuedRuns)
           /\ Len(WithoutAt(q, i)) = Len(q) - 1
<1> DEFINE n == Len(q) - 1
<1>1. /\ Len(q) \in Nat
      /\ q \in [1 .. Len(q) -> QueuedRuns]
      /\ DOMAIN q = 1 .. Len(q)
    BY LenProperties
<1>2. n \in Nat
    BY <1>1
<1>3. WithoutAt(q, i) \in [1 .. n -> QueuedRuns]
    BY <1>1, <1>2 DEF WithoutAt
<1>4. WithoutAt(q, i) \in Seq(QueuedRuns)
    BY <1>2, <1>3, FunctionIsSeq
<1>5. Len(WithoutAt(q, i)) = n
    BY <1>2, <1>3, <1>4
<1>. QED  BY <1>4, <1>5

(***************************************************************************)
(* Type correctness                                                        *)
(***************************************************************************)

\* The two shapes in which the actions write the local state of a call: its
\* program counter alone, or all of it.
LEMMA LocalUpdates ==
    ASSUME TypeOK, NEW r \in Runs
    PROVE  /\ \A v \in {"refresh", "announce", "returned", "rejected"} :
                enqueue' = [enqueue EXCEPT ![r].pc = v] => enqueue' \in [Runs -> EnqueueLocals]
           /\ \A v \in {"completed", "refresh", "returned", "rejected"} :
                cancel' = [cancel EXCEPT ![r].pc = v] => cancel' \in [Runs -> CancelLocals]
           /\ \A v \in {"begin", "work", "running", "abort", "finally", "done"} :
                execute' = [execute EXCEPT ![r].pc = v] => execute' \in [Runs -> ExecuteLocals]
           /\ \A x \in EnqueueLocals :
                enqueue' = [enqueue EXCEPT ![r] = x] => enqueue' \in [Runs -> EnqueueLocals]
           /\ \A x \in CancelLocals :
                cancel' = [cancel EXCEPT ![r] = x] => cancel' \in [Runs -> CancelLocals]
           /\ \A x \in ExecuteLocals :
                execute' = [execute EXCEPT ![r] = x] => execute' \in [Runs -> ExecuteLocals]
<1>. USE DEF TypeOK
<1>1. ASSUME NEW v \in {"refresh", "announce", "returned", "rejected"},
             enqueue' = [enqueue EXCEPT ![r].pc = v]
      PROVE  enqueue' \in [Runs -> EnqueueLocals]
    BY <1>1 DEF EnqueueLocals
<1>2. ASSUME NEW v \in {"completed", "refresh", "returned", "rejected"},
             cancel' = [cancel EXCEPT ![r].pc = v]
      PROVE  cancel' \in [Runs -> CancelLocals]
    BY <1>2 DEF CancelLocals
<1>3. ASSUME NEW v \in {"begin", "work", "running", "abort", "finally", "done"},
             execute' = [execute EXCEPT ![r].pc = v]
      PROVE  execute' \in [Runs -> ExecuteLocals]
    BY <1>3 DEF ExecuteLocals
<1>4. ASSUME NEW x \in EnqueueLocals, enqueue' = [enqueue EXCEPT ![r] = x]
      PROVE  enqueue' \in [Runs -> EnqueueLocals]
    BY <1>4
<1>5. ASSUME NEW x \in CancelLocals, cancel' = [cancel EXCEPT ![r] = x]
      PROVE  cancel' \in [Runs -> CancelLocals]
    BY <1>5
<1>6. ASSUME NEW x \in ExecuteLocals, execute' = [execute EXCEPT ![r] = x]
      PROVE  execute' \in [Runs -> ExecuteLocals]
    BY <1>6
<1>. QED  BY <1>1, <1>2, <1>3, <1>4, <1>5, <1>6

\* A renumbering asks for a run of the array, or for none past its end.
LEMMA ReadingType ==
    ASSUME NEW q \in Seq(QueuedRuns), NEW i \in Nat
    PROVE  Reading(i, q) \in RefreshLocals
<1>1. i \in DOMAIN q => q[i] \in QueuedRuns
    BY ElementOfSeq, LenProperties
<1>. QED  BY <1>1 DEF Reading, RefreshLocals, QueuedRuns, Absent, Snapshots

\* Starting and ending a renumbering, and waking the loop.
LEMMA CallUpdates ==
    ASSUME TypeOK
    PROVE  /\ \A c \in Callers : queue' \in Seq(QueuedRuns) /\ StartRefresh(c)
                                  => refresh' \in [Callers -> RefreshLocals]
           /\ \A c \in Callers : EndRefresh(c) => refresh' \in [Callers -> RefreshLocals]
           /\ CallSchedule => schedule' \in ScheduleLocals
<1>. USE DEF TypeOK
<1>1. /\ NotRefreshing \in RefreshLocals
      /\ queue' \in Seq(QueuedRuns) => Reading(1, queue') \in RefreshLocals
    BY ReadingType DEF NotRefreshing, RefreshLocals, Absent, Snapshots
<1>2. schedule.pc = "idle" => [schedule EXCEPT !.pc = "loop"] \in ScheduleLocals
    BY DEF ScheduleLocals
<1>. QED  BY <1>1, <1>2 DEF StartRefresh, EndRefresh, CallSchedule

\* What update and append leave in the store.
LEMMA RunUpdates ==
    ASSUME TypeOK
    PROVE  /\ \A r \in Runs, copy \in Snapshots, s \in AgentStates \cup {"absent"}, i \in Nat :
                Update(r, copy, s, i) => run' \in [Runs -> Snapshots]
           /\ \A r \in Runs, s \in AgentStates \cup {"absent"} :
                AppendEvent(r, s) => run' \in [Runs -> Snapshots]
<1>. USE DEF TypeOK
<1>1. ASSUME NEW r \in Runs, NEW copy \in Snapshots, NEW s \in AgentStates \cup {"absent"},
             NEW i \in Nat, Update(r, copy, s, i)
      PROVE  run' \in [Runs -> Snapshots]
  <2>1. [state |-> s, seq |-> copy.seq, pos |-> i] \in Snapshots
    BY DEF Snapshots
  <2>. QED  BY <1>1, <2>1 DEF Update
<1>2. ASSUME NEW r \in Runs, NEW s \in AgentStates \cup {"absent"}, AppendEvent(r, s)
      PROVE  run' \in [Runs -> Snapshots]
  <2>1. [state |-> s, seq |-> run[r].seq + 1, pos |-> run[r].pos] \in Snapshots
    BY DEF Snapshots
  <2>. QED  BY <1>2, <2>1 DEF AppendEvent
<1>. QED  BY <1>1, <1>2

\* Every variable keeps its kind, however the calls interleave.
THEOREM TypeCorrect == Spec => []TypeOK
<1>1. Init => TypeOK
  <2>1. /\ Absent \in Snapshots
        /\ [pc |-> "new", at |-> 0, pos |-> 0] \in EnqueueLocals
        /\ [pc |-> "idle", i |-> 0, run |-> NoRun] \in ScheduleLocals
    BY DEF Absent, Snapshots, EnqueueLocals, ScheduleLocals
  <2>2. /\ [pc |-> "idle", copy |-> Absent] \in CancelLocals
        /\ [pc |-> "none", copy |-> Absent] \in ExecuteLocals
        /\ NotRefreshing \in RefreshLocals
    BY <2>1 DEF CancelLocals, ExecuteLocals, NotRefreshing, RefreshLocals
  <2>. QED  BY <2>1, <2>2, EmptySeq DEF Init, TypeOK
<1>2. TypeOK /\ [Next]_vars => TypeOK'
  <2> SUFFICES ASSUME TypeOK, [Next]_vars
               PROVE  TypeOK'
    OBVIOUS
  <2>. USE DEF TypeOK
  <2>i. \A c \in Callers : refresh[c] \in RefreshLocals
    OBVIOUS
  <2>l. Len(queue) \in Nat /\ DOMAIN queue = 1 .. Len(queue)
    BY LenProperties
  <2>q. \A k \in DOMAIN queue : queue[k] \in QueuedRuns /\ queue[k].run \in Runs
    <3>1. \A k \in DOMAIN queue : queue[k] \in QueuedRuns
      BY ElementOfSeq, <2>l
    <3>. QED  BY <3>1 DEF QueuedRuns
  <2>c. /\ \A r \in Runs : <<"enqueue", r>> \in Callers /\ <<"cancel", r>> \in Callers
        /\ Loop \in Callers
    BY DEF Callers
  <2>s. Terminal \subseteq AgentStates /\ {"queued", "starting", "running", "cancelling"} \subseteq AgentStates
    BY DEF AgentStates, Terminal
  <2>n. [pc |-> "idle", i |-> 0, run |-> NoRun] \in ScheduleLocals
        /\ [pc |-> "loop", i |-> 0, run |-> NoRun] \in ScheduleLocals
        /\ [pc |-> "ended", i |-> 0, run |-> NoRun] \in ScheduleLocals
    BY DEF ScheduleLocals
  <2>1. ASSUME NEW r \in Runs, Admit(r) PROVE TypeOK'
    <3>1. [pc |-> "create", at |-> now, pos |-> Len(queue) + 1] \in EnqueueLocals
      BY <2>l DEF EnqueueLocals
    <3>2. enqueue' \in [Runs -> EnqueueLocals] /\ admitted' \subseteq Runs
      BY <2>1, <3>1, LocalUpdates DEF Admit
    <3>. QED  BY <2>1, <3>2 DEF Admit
  <2>2. ASSUME NEW r \in Runs, CreateRun(r) PROVE TypeOK'
    <3>1. [state |-> "queued", seq |-> 0, pos |-> enqueue[r].pos] \in Snapshots
      BY <2>s DEF Snapshots, EnqueueLocals
    <3>. QED  BY <2>2, <3>1, LocalUpdates DEF CreateRun
  <2>3. ASSUME NEW r \in Runs, AnnounceRun(r) PROVE TypeOK'
    <3>1. run[r].state \in AgentStates \cup {"absent"}
      BY DEF Snapshots
    <3>2. run' \in [Runs -> Snapshots]
      BY <2>3, <3>1, RunUpdates DEF AnnounceRun
    <3>3. enqueue[r].at \in Nat
      BY DEF EnqueueLocals
    <3>4. Append(queue, [run |-> r, ordinal |-> ordinal, at |-> enqueue[r].at])
            \in Seq(QueuedRuns)
      BY <3>3, AppendProperties DEF QueuedRuns
    <3>5. queue' \in Seq(QueuedRuns)
      BY <2>3, <3>4, SortIntoType DEF AnnounceRun
    <3>6. enqueue' \in [Runs -> EnqueueLocals]
      BY <2>3, LocalUpdates DEF AnnounceRun
    <3>7. ordinal' \in Nat /\ admitted' \subseteq Runs
      BY <2>3 DEF AnnounceRun
    <3>8. refresh' \in [Callers -> RefreshLocals]
      BY <2>3, <2>c, <3>5, CallUpdates DEF AnnounceRun
    <3>. QED  BY <2>3, <3>2, <3>5, <3>6, <3>7, <3>8 DEF AnnounceRun
  <2>4. ASSUME NEW r \in Runs, EnqueueReturns(r) PROVE TypeOK'
    BY <2>4, <2>c, LocalUpdates, CallUpdates DEF EnqueueReturns
  <2>5. ASSUME NEW r \in Runs, EnqueueThrows(r) PROVE TypeOK'
    BY <2>5, <2>c, LocalUpdates, CallUpdates DEF EnqueueThrows
  <2>6. ASSUME NEW r \in Runs, ExecuteRead(r) PROVE TypeOK'
    <3>1. run[r].state \in AgentStates \cup {"absent"}
      BY DEF Snapshots
    <3>2. [pc |-> "start", copy |-> run[r]] \in ExecuteLocals
      BY DEF ExecuteLocals
    <3>3. run' \in [Runs -> Snapshots] /\ execute' \in [Runs -> ExecuteLocals]
      BY <2>6, <3>1, <3>2, LocalUpdates, RunUpdates DEF ExecuteRead
    <3>. QED  BY <2>6, <3>3 DEF ExecuteRead
  <2>7. ASSUME NEW r \in Runs, ExecuteStart(r) PROVE TypeOK'
    <3>1. execute[r].copy \in Snapshots
      BY DEF ExecuteLocals
    <3>2. run' \in [Runs -> Snapshots] /\ execute' \in [Runs -> ExecuteLocals]
      BY <2>7, <2>s, <3>1, LocalUpdates, RunUpdates DEF ExecuteStart
    <3>. QED  BY <2>7, <3>2 DEF ExecuteStart
  <2>8. ASSUME NEW r \in Runs, ProviderStarts(r) PROVE TypeOK'
    <3>1. StateAfterEvent(run[r].state, [kind |-> "process_started"])
            \in AgentStates \cup {"absent"}
      BY DEF Snapshots, StateAfterEvent, AgentStates
    <3>. QED  BY <2>8, <3>1, LocalUpdates, RunUpdates DEF ProviderStarts
  <2>9. ASSUME NEW r \in Runs, ProviderFailsToStart(r) PROVE TypeOK'
    BY <2>9, LocalUpdates DEF ProviderFailsToStart
  <2>10. ASSUME NEW r \in Runs, ProviderCompletes(r) PROVE TypeOK'
    <3>1. {"cancelled", "succeeded", "failed"} \subseteq AgentStates \cup {"absent"}
      BY DEF AgentStates, Terminal
    <3>. QED  BY <2>10, <3>1, LocalUpdates, RunUpdates DEF ProviderCompletes
  <2>11. ASSUME NEW r \in Runs, ExecuteAborts(r) PROVE TypeOK'
    <3>1. {"cancelled", "failed"} \subseteq AgentStates \cup {"absent"}
      BY DEF AgentStates, Terminal
    <3>. QED  BY <2>11, <3>1, LocalUpdates, RunUpdates DEF ExecuteAborts
  <2>12. ASSUME NEW r \in Runs, ReleaseSlot(r) PROVE TypeOK'
    BY <2>12, LocalUpdates, CallUpdates DEF ReleaseSlot
  <2>13. ASSUME NEW r \in Runs, CancelRead(r) PROVE TypeOK'
    <3>1. /\ [pc |-> "cancelled", copy |-> run[r]] \in CancelLocals
          /\ [pc |-> "cancelling", copy |-> run[r]] \in CancelLocals
      BY DEF CancelLocals
    <3>2. cancel' \in [Runs -> CancelLocals]
      BY <2>13, <3>1, LocalUpdates DEF CancelRead
    <3>3. queue' \in Seq(QueuedRuns)
      BY <2>13, WithoutAtType DEF CancelRead, Queued
    <3>. QED  BY <2>13, <3>2, <3>3 DEF CancelRead
  <2>14. ASSUME NEW r \in Runs, CancelQueued(r) PROVE TypeOK'
    <3>1. cancel[r].copy \in Snapshots /\ cancel[r].copy.pos \in Nat
      BY DEF CancelLocals, Snapshots
    <3>2. "cancelled" \in AgentStates
      BY DEF AgentStates, Terminal
    <3>3. run' \in [Runs -> Snapshots] /\ cancel' \in [Runs -> CancelLocals]
      BY <2>14, <3>1, <3>2, LocalUpdates, RunUpdates DEF CancelQueued
    <3>. QED  BY <2>14, <3>3 DEF CancelQueued
  <2>15. ASSUME NEW r \in Runs, CancelCompletes(r) PROVE TypeOK'
    <3>1. run[r].state \in AgentStates \cup {"absent"}
      BY DEF Snapshots
    <3>3. queue' \in Seq(QueuedRuns) /\ cancel' \in [Runs -> CancelLocals]
      BY <2>15, SortIntoType, LocalUpdates DEF CancelCompletes
    <3>2. run' \in [Runs -> Snapshots] /\ refresh' \in [Callers -> RefreshLocals]
      BY <2>15, <2>c, <3>1, <3>3, RunUpdates, CallUpdates DEF CancelCompletes
    <3>. QED  BY <2>15, <3>2, <3>3 DEF CancelCompletes
  <2>16. ASSUME NEW r \in Runs, CancelReturns(r) PROVE TypeOK'
    BY <2>16, <2>c, LocalUpdates, CallUpdates DEF CancelReturns
  <2>17. ASSUME NEW r \in Runs, CancelActive(r) PROVE TypeOK'
    <3>1. cancel[r].copy \in Snapshots /\ cancel[r].copy.pos \in Nat
      BY DEF CancelLocals, Snapshots
    <3>2. run' \in [Runs -> Snapshots] /\ cancel' \in [Runs -> CancelLocals]
      BY <2>17, <2>s, <3>1, LocalUpdates, RunUpdates DEF CancelActive
    <3>. QED  BY <2>17, <3>2 DEF CancelActive
  <2>18. ASSUME NEW c \in Callers, RefreshRead(c) PROVE TypeOK'
    <3>1. Reading(refresh[c].i + 1, queue) \in RefreshLocals
      BY <2>i, ReadingType DEF RefreshLocals
    <3>2. [pc |-> "write", i |-> refresh[c].i, run |-> refresh[c].run,
           copy |-> run[refresh[c].run]] \in RefreshLocals
      BY <2>18, <2>i DEF RefreshRead, RefreshLocals
    <3>. QED  BY <2>18, <3>1, <3>2 DEF RefreshRead
  <2>19. ASSUME NEW c \in Callers, RefreshWrite(c) PROVE TypeOK'
    <3>i. refresh[c].i \in Nat
      BY <2>i DEF RefreshLocals
    <3>1. /\ refresh[c].i \in Nat
          /\ Reading(refresh[c].i + 1, queue) \in RefreshLocals
          /\ Thrown \in RefreshLocals
      <4>1. Reading(refresh[c].i + 1, queue) \in RefreshLocals
        BY <3>i, ReadingType
      <4>. QED  BY <3>i, <4>1 DEF RefreshLocals, Thrown, Absent, Snapshots
    <3>2. refresh' \in [Callers -> RefreshLocals]
      BY <2>19, <3>1 DEF RefreshWrite
    <3>3. run' \in [Runs -> Snapshots]
      <4>1. CASE refresh[c].run \in Runs
        <5>1. refresh[c].copy \in Snapshots /\ refresh[c].copy.state \in AgentStates \cup {"absent"}
          BY <2>i DEF RefreshLocals, Snapshots
        <5>. QED  BY <2>19, <3>1, <4>1, <5>1, RunUpdates DEF RefreshWrite
      <4>2. CASE refresh[c].run \notin Runs
        BY <2>19, <4>2 DEF RefreshWrite, Update
      <4>. QED  BY <4>1, <4>2
    <3>. QED  BY <2>19, <3>2, <3>3 DEF RefreshWrite
  <2>20. CASE ScheduleLoop
    <3>1. queue' \in Seq(QueuedRuns) /\ Len(queue') = Len(queue)
      BY <2>20, SortIntoType DEF ScheduleLoop
    <3>2. CASE Cardinality(inFlight) < MaxParallel /\ queue # <<>>
      <4>1. 1 \in 1 .. Len(queue')
        BY <3>1, <3>2, EmptySeq
      <4>2. queue'[1] \in QueuedRuns
        BY <3>1, <4>1, ElementOfSeq
      <4>3. [pc |-> "probe", i |-> 1, run |-> queue'[1].run] \in ScheduleLocals
        BY <4>2 DEF ScheduleLocals, QueuedRuns
      <4>. QED  BY <2>20, <3>1, <3>2, <4>3 DEF ScheduleLoop
    <3>3. CASE ~(Cardinality(inFlight) < MaxParallel /\ queue # <<>>)
      BY <2>20, <2>n, <3>3 DEF ScheduleLoop
    <3>. QED  BY <3>2, <3>3
  <2>21. CASE ScheduleProbe
    <3>1. schedule.i \in Nat
      BY DEF ScheduleLocals
    <3>2. \A i \in DOMAIN queue :
            [pc |-> "reserve", i |-> 0, run |-> queue[i].run] \in ScheduleLocals
      BY <2>q DEF ScheduleLocals
    <3>3. schedule.i + 1 \in DOMAIN queue =>
            [pc |-> "probe", i |-> schedule.i + 1, run |-> queue[schedule.i + 1].run]
              \in ScheduleLocals
      BY <2>q, <3>1 DEF ScheduleLocals
    <3>4. schedule' \in ScheduleLocals
      BY <2>21, <2>n, <3>2, <3>3 DEF ScheduleProbe
    <3>5. queue' \in Seq(QueuedRuns)
      BY <2>21, WithoutAtType DEF ScheduleProbe
    <3>. QED  BY <2>21, <3>4, <3>5 DEF ScheduleProbe
  <2>22. CASE ScheduleReserve
    <3>1. schedule.pc = "reserve"
      BY <2>22 DEF ScheduleReserve
    <3>2. schedule.run \in Runs /\ [schedule EXCEPT !.pc = "refresh"] \in ScheduleLocals
      BY <3>1 DEF ScheduleLocals
    <3>3. queue' \in Seq(QueuedRuns)
      BY <2>22, SortIntoType DEF ScheduleReserve
    <3>. QED  BY <2>22, <2>c, <3>2, <3>3, CallUpdates DEF ScheduleReserve
  <2>23. CASE ScheduleStarts
    <3>1. execute' \in [Runs -> ExecuteLocals]
      BY <2>23, LocalUpdates DEF ScheduleStarts
    <3>. QED  BY <2>23, <2>c, <2>n, <3>1, CallUpdates DEF ScheduleStarts
  <2>24. CASE ScheduleThrows
    BY <2>24, <2>c, <2>n, CallUpdates DEF ScheduleThrows
  <2>25. CASE Tick
    BY <2>25 DEF Tick
  <2>26. CASE Diagnose
    BY <2>26, SortIntoType DEF Diagnose
  <2>27. CASE UNCHANGED vars
    BY <2>27 DEF vars
  <2>. QED
    BY <2>1, <2>2, <2>3, <2>4, <2>5, <2>6, <2>7, <2>8, <2>9, <2>10, <2>11, <2>12, <2>13,
       <2>14, <2>15, <2>16, <2>17, <2>18, <2>19, <2>20, <2>21, <2>22, <2>23, <2>24, <2>25,
       <2>26, <2>27, SchedulerAssumption
       DEF Next, Enqueue, Schedule, Execute, Cancel, Refresh
<1>. QED  BY <1>1, <1>2, PTL DEF Spec

(***************************************************************************)
(* A run has one place                                                     *)
(***************************************************************************)

RunsOf(q) == {q[i].run : i \in DOMAIN q}
Distinct(q) == \A i, j \in DOMAIN q : q[i].run = q[j].run => i = j

\* Sorting moves the elements, no more.
LEMMA SortIntoRuns ==
    ASSUME NEW q \in Seq(QueuedRuns), SortInto(q)
    PROVE  RunsOf(queue') = RunsOf(q) /\ (Distinct(q) => Distinct(queue'))
<1>1. PICK p \in Bijection(DOMAIN q, DOMAIN q) :
        queue' = [i \in DOMAIN q |-> q[p[i]]]
    BY DEF SortInto, Arrangements
<1> DEFINE s == queue'
<1>2. /\ \A i \in DOMAIN q : p[i] \in DOMAIN q
      /\ \A i, j \in DOMAIN q : p[i] = p[j] => i = j
      /\ \A k \in DOMAIN q : \E i \in DOMAIN q : p[i] = k
    BY Zenon DEF Bijection, Injection, Surjection, IsInjective
<1>3. DOMAIN s = DOMAIN q /\ \A i \in DOMAIN q : s[i] = q[p[i]]
    BY <1>1
<1>. HIDE DEF s
<1>4. RunsOf(s) = RunsOf(q)
  <2>1. ASSUME NEW x \in RunsOf(s) PROVE x \in RunsOf(q)
    <3>1. PICK i \in DOMAIN s : x = s[i].run
      BY <2>1, Zenon DEF RunsOf
    <3>2. p[i] \in DOMAIN q /\ s[i] = q[p[i]]
      BY <1>2, <1>3, Zenon
    <3>3. x = q[p[i]].run
      BY <3>1, <3>2
    <3>. QED  BY <3>2, <3>3, Zenon DEF RunsOf
  <2>2. ASSUME NEW x \in RunsOf(q) PROVE x \in RunsOf(s)
    <3>1. PICK k \in DOMAIN q : x = q[k].run
      BY <2>2, Zenon DEF RunsOf
    <3>2. PICK i \in DOMAIN q : p[i] = k
      BY <1>2, Zenon
    <3>3. i \in DOMAIN s /\ x = s[i].run
      BY <1>3, <3>1, <3>2, Zenon
    <3>. QED  BY <3>3, Zenon DEF RunsOf
  <2>. QED  BY <2>1, <2>2, Zenon
<1>5. ASSUME Distinct(q) PROVE Distinct(s)
  <2>1. ASSUME NEW i \in DOMAIN s, NEW j \in DOMAIN s, s[i].run = s[j].run
        PROVE  i = j
    <3>1. p[i] \in DOMAIN q /\ p[j] \in DOMAIN q /\ q[p[i]].run = q[p[j]].run
      BY <1>2, <1>3, <2>1, Zenon
    <3>2. p[i] = p[j]
      BY <1>5, <3>1, Zenon DEF Distinct
    <3>. QED  BY <1>2, <1>3, <3>2, Zenon
  <2>. QED  BY <2>1, Zenon DEF Distinct
<1>. QED  BY <1>4, <1>5 DEF s

\* What is taken out is gone, the others stay.
LEMMA WithoutAtRuns ==
    ASSUME NEW q \in Seq(QueuedRuns), NEW i \in DOMAIN q
    PROVE  /\ RunsOf(WithoutAt(q, i)) \subseteq RunsOf(q)
           /\ Distinct(q) => /\ Distinct(WithoutAt(q, i))
                             /\ q[i].run \notin RunsOf(WithoutAt(q, i))
<1> DEFINE w == WithoutAt(q, i)
<1>1. Len(q) \in Nat /\ DOMAIN q = 1 .. Len(q)
    BY LenProperties
<1>2. DOMAIN w = 1 .. Len(q) - 1
    BY <1>1 DEF WithoutAt
<1>3. \A k \in DOMAIN w : /\ k < i => k \in DOMAIN q /\ w[k] = q[k]
                          /\ ~(k < i) => k + 1 \in DOMAIN q /\ w[k] = q[k + 1]
    BY <1>1, <1>2 DEF WithoutAt
<1>. HIDE DEF w
<1>4. RunsOf(w) \subseteq RunsOf(q)
    BY <1>3 DEF RunsOf
<1>5. ASSUME Distinct(q)
      PROVE  Distinct(w) /\ q[i].run \notin RunsOf(w)
  <2>1. \A k \in DOMAIN w : w[k].run # q[i].run
    BY <1>1, <1>2, <1>3, <1>5 DEF Distinct
  <2>2. \A k, m \in DOMAIN w : w[k].run = w[m].run => k = m
    BY <1>1, <1>2, <1>3, <1>5 DEF Distinct
  <2>. QED  BY <2>1, <2>2 DEF Distinct, RunsOf
<1>. QED  BY <1>4, <1>5 DEF w

\* A run that was not there is there once.
LEMMA AppendRuns ==
    ASSUME NEW q \in Seq(QueuedRuns), NEW e \in QueuedRuns
    PROVE  /\ RunsOf(Append(q, e)) = RunsOf(q) \cup {e.run}
           /\ Distinct(q) /\ e.run \notin RunsOf(q) => Distinct(Append(q, e))
<1>1. /\ Len(q) \in Nat /\ DOMAIN q = 1 .. Len(q)
      /\ DOMAIN Append(q, e) = 1 .. Len(q) + 1
      /\ \A k \in 1 .. Len(q) : Append(q, e)[k] = q[k]
      /\ Append(q, e)[Len(q) + 1] = e
    BY LenProperties, AppendProperties
<1>2. 1 .. Len(q) + 1 = (1 .. Len(q)) \cup {Len(q) + 1}
    BY <1>1
<1>3. RunsOf(Append(q, e)) = RunsOf(q) \cup {e.run}
    BY <1>1, <1>2 DEF RunsOf
<1>4. Distinct(q) /\ e.run \notin RunsOf(q) => Distinct(Append(q, e))
    BY <1>1, <1>2 DEF RunsOf, Distinct
<1>. QED  BY <1>3, <1>4

\* A run that has not been announced is nowhere yet; a waiting one has no slot;
\* the one the loop is about to start has nothing but its slot.
PlaceInv ==
    /\ Distinct(queue)
    /\ \A r \in RunsOf(queue) :
        /\ execute[r].pc = "none" /\ r \notin inFlight
        /\ schedule.pc \in {"reserve", "refresh"} => r # schedule.run
    /\ schedule.pc \in {"reserve", "refresh"} => execute[schedule.run].pc = "none"
    /\ \A r \in Runs : enqueue[r].pc \in {"new", "create", "announce"} =>
        /\ r \notin RunsOf(queue) /\ r \notin inFlight
        /\ execute[r].pc = "none"
        /\ schedule.pc \in {"reserve", "refresh"} => r # schedule.run

LEMMA PlaceInit == Init => PlaceInv
<1>. SUFFICES ASSUME Init PROVE PlaceInv
    OBVIOUS
<1>1. DOMAIN queue = {}
    BY DEF Init
<1>. QED  BY <1>1, Zenon DEF Init, PlaceInv, RunsOf, Distinct

LEMMA PlaceStep ==
    ASSUME TypeOK, TypeOK', PlaceInv, [Next]_vars
    PROVE  PlaceInv'
<1>q. /\ queue \in Seq(QueuedRuns) /\ execute \in [Runs -> ExecuteLocals]
      /\ enqueue \in [Runs -> EnqueueLocals]
    BY DEF TypeOK
<1>r. RunsOf(queue) \subseteq Runs
  <2>1. Len(queue) \in Nat /\ DOMAIN queue = 1 .. Len(queue)
    BY <1>q, LenProperties
  <2>2. \A k \in DOMAIN queue : queue[k] \in QueuedRuns
    BY <1>q, <2>1, ElementOfSeq
  <2>. QED  BY <2>2 DEF RunsOf, QueuedRuns
\* Steps that take nobody to another place.
<1>s. ASSUME RunsOf(queue') \subseteq RunsOf(queue), Distinct(queue'),
             inFlight' \subseteq inFlight,
             \A r \in Runs : execute[r].pc = "none" => execute'[r].pc = "none",
             \A r \in Runs : enqueue'[r].pc \in {"new", "create", "announce"} =>
                                enqueue[r].pc \in {"new", "create", "announce"},
             schedule'.pc \in {"reserve", "refresh"} => schedule' = schedule
      PROVE  PlaceInv'
  <2>1. schedule.pc \in {"reserve", "refresh"} => schedule.run \in Runs
    BY DEF TypeOK, ScheduleLocals
  <2>2. \A r \in RunsOf(queue') : /\ execute'[r].pc = "none" /\ r \notin inFlight'
                                  /\ schedule'.pc \in {"reserve", "refresh"} => r # schedule'.run
    BY <1>r, <1>s DEF PlaceInv
  <2>3. schedule'.pc \in {"reserve", "refresh"} => execute'[schedule'.run].pc = "none"
    BY <1>s, <2>1 DEF PlaceInv
  <2>4. \A r \in Runs : enqueue'[r].pc \in {"new", "create", "announce"} =>
          /\ r \notin RunsOf(queue') /\ r \notin inFlight'
          /\ execute'[r].pc = "none"
          /\ schedule'.pc \in {"reserve", "refresh"} => r # schedule'.run
    BY <1>s DEF PlaceInv
  <2>5. Distinct(queue')
    BY <1>s
  <2>. QED  BY <2>2, <2>3, <2>4, <2>5, Zenon DEF PlaceInv
\* What the local steps do to the program counters.
<1>e. \A r \in Runs, v \in {"refresh", "announce", "returned", "rejected"} :
        enqueue' = [enqueue EXCEPT ![r].pc = v] =>
          \A x \in Runs : enqueue'[x].pc = IF x = r THEN v ELSE enqueue[x].pc
    BY <1>q DEF EnqueueLocals
<1>x. \A r \in Runs, v \in {"begin", "work", "running", "abort", "finally", "done"} :
        execute' = [execute EXCEPT ![r].pc = v] =>
          \A x \in Runs : execute'[x].pc = IF x = r THEN v ELSE execute[x].pc
    BY <1>q DEF ExecuteLocals
<1>1. ASSUME NEW r \in Runs, Admit(r) PROVE PlaceInv'
    BY <1>1, <1>e, <1>s, <1>q DEF Admit, PlaceInv
<1>2. ASSUME NEW r \in Runs, CreateRun(r) PROVE PlaceInv'
    BY <1>2, <1>e, <1>s DEF CreateRun, PlaceInv
<1>4. ASSUME NEW r \in Runs, EnqueueReturns(r) PROVE PlaceInv'
    BY <1>4, <1>e, <1>s DEF EnqueueReturns, PlaceInv, CallSchedule
<1>5. ASSUME NEW r \in Runs, EnqueueThrows(r) PROVE PlaceInv'
  <2>1. \A x \in Runs : enqueue'[x].pc = IF x = r THEN "rejected" ELSE enqueue[x].pc
    BY <1>5, <1>e DEF EnqueueThrows
  <2>. QED  BY <1>5, <1>s, <2>1 DEF EnqueueThrows, PlaceInv
<1>6. ASSUME NEW r \in Runs, ExecuteRead(r) PROVE PlaceInv'
  <2>1. \A x \in Runs : execute'[x].pc = "none" <=> execute[x].pc = "none"
    BY <1>6, <1>x, <1>q DEF ExecuteRead, ExecuteLocals
  <2>. QED  BY <1>6, <1>s, <2>1 DEF ExecuteRead, PlaceInv
<1>7. ASSUME NEW r \in Runs, ExecuteStart(r) PROVE PlaceInv'
  <2>1. \A x \in Runs : execute'[x].pc = "none" <=> execute[x].pc = "none"
    BY <1>7, <1>x, <1>q DEF ExecuteStart
  <2>. QED  BY <1>7, <1>s, <2>1 DEF ExecuteStart, PlaceInv
<1>8. ASSUME NEW r \in Runs, ProviderStarts(r) PROVE PlaceInv'
  <2>1. \A x \in Runs : execute'[x].pc = "none" <=> execute[x].pc = "none"
    BY <1>8, <1>x DEF ProviderStarts
  <2>. QED  BY <1>8, <1>s, <2>1 DEF ProviderStarts, PlaceInv
<1>9. ASSUME NEW r \in Runs, ProviderFailsToStart(r) PROVE PlaceInv'
  <2>1. \A x \in Runs : execute'[x].pc = "none" <=> execute[x].pc = "none"
    BY <1>9, <1>x DEF ProviderFailsToStart
  <2>. QED  BY <1>9, <1>s, <2>1 DEF ProviderFailsToStart, PlaceInv
<1>10. ASSUME NEW r \in Runs, ProviderCompletes(r) PROVE PlaceInv'
  <2>1. \A x \in Runs : execute'[x].pc = "none" <=> execute[x].pc = "none"
    BY <1>10, <1>x DEF ProviderCompletes
  <2>. QED  BY <1>10, <1>s, <2>1 DEF ProviderCompletes, PlaceInv
<1>11. ASSUME NEW r \in Runs, ExecuteAborts(r) PROVE PlaceInv'
  <2>1. \A x \in Runs : execute'[x].pc = "none" <=> execute[x].pc = "none"
    BY <1>11, <1>x DEF ExecuteAborts
  <2>. QED  BY <1>11, <1>s, <2>1 DEF ExecuteAborts, PlaceInv
<1>12. ASSUME NEW r \in Runs, ReleaseSlot(r) PROVE PlaceInv'
  <2>1. \A x \in Runs : execute'[x].pc = "none" <=> execute[x].pc = "none"
    BY <1>12, <1>x DEF ReleaseSlot
  <2>2. schedule'.pc \in {"reserve", "refresh"} => schedule' = schedule
    BY <1>12 DEF ReleaseSlot, CallSchedule, TypeOK, ScheduleLocals
  <2>. QED  BY <1>12, <1>s, <2>1, <2>2 DEF ReleaseSlot, PlaceInv
<1>13. ASSUME NEW r \in Runs, CancelRead(r) PROVE PlaceInv'
  <2>1. RunsOf(queue') \subseteq RunsOf(queue) /\ Distinct(queue')
    BY <1>13, <1>q, WithoutAtRuns DEF CancelRead, Queued, PlaceInv
  <2>. QED  BY <1>13, <1>s, <2>1 DEF CancelRead
<1>14. ASSUME NEW r \in Runs, CancelQueued(r) PROVE PlaceInv'
    BY <1>14, <1>s DEF CancelQueued, PlaceInv
<1>15. ASSUME NEW r \in Runs, CancelCompletes(r) PROVE PlaceInv'
  <2>1. RunsOf(queue') \subseteq RunsOf(queue) /\ Distinct(queue')
    BY <1>15, <1>q, SortIntoRuns DEF CancelCompletes, PlaceInv
  <2>. QED  BY <1>15, <1>s, <2>1 DEF CancelCompletes
<1>16. ASSUME NEW r \in Runs, CancelReturns(r) PROVE PlaceInv'
    BY <1>16, <1>s DEF CancelReturns, PlaceInv
<1>17. ASSUME NEW r \in Runs, CancelActive(r) PROVE PlaceInv'
    BY <1>17, <1>s DEF CancelActive, PlaceInv
<1>18. ASSUME NEW c \in Callers, RefreshRead(c) PROVE PlaceInv'
    BY <1>18, <1>s DEF RefreshRead, PlaceInv
<1>19. ASSUME NEW c \in Callers, RefreshWrite(c) PROVE PlaceInv'
    BY <1>19, <1>s DEF RefreshWrite, PlaceInv
<1>20. CASE ScheduleLoop
  <2>1. RunsOf(queue') \subseteq RunsOf(queue) /\ Distinct(queue')
    BY <1>20, <1>q, SortIntoRuns DEF ScheduleLoop, PlaceInv
  <2>2. schedule'.pc \in {"probe", "idle"}
    BY <1>20 DEF ScheduleLoop
  <2>3. UNCHANGED <<inFlight, execute, enqueue>>
    BY <1>20 DEF ScheduleLoop
  <2>. QED  BY <1>s, <2>1, <2>2, <2>3
<1>21. CASE ScheduleProbe
  <2>. UNCHANGED <<inFlight, execute, enqueue>>
    BY <1>21 DEF ScheduleProbe
  <2>1. CASE schedule'.pc # "reserve"
    <3>1. RunsOf(queue') \subseteq RunsOf(queue) /\ Distinct(queue')
      BY <1>21, <2>1 DEF ScheduleProbe, PlaceInv
    <3>2. schedule'.pc \in {"probe", "idle"}
      BY <1>21, <2>1 DEF ScheduleProbe
    <3>. QED  BY <1>s, <3>1, <3>2
  <2>2. CASE schedule'.pc = "reserve"
    <3> DEFINE i == schedule.i
               x == schedule'.run
    <3>1. /\ i \in DOMAIN queue
          /\ queue' = WithoutAt(queue, i)
          /\ x = queue[i].run
      BY <1>21, <2>2 DEF ScheduleProbe
    <3>2. x \in RunsOf(queue)
      BY <3>1, Zenon DEF RunsOf
    <3>. HIDE DEF i, x
    <3>3. /\ RunsOf(queue') \subseteq RunsOf(queue) /\ Distinct(queue')
          /\ x \notin RunsOf(queue')
      BY <1>q, <3>1, WithoutAtRuns DEF PlaceInv
    <3>4. /\ execute[x].pc = "none"
          /\ \A r \in RunsOf(queue') : execute[r].pc = "none" /\ r \notin inFlight /\ r # x
          /\ \A r \in Runs : enqueue[r].pc \in {"new", "create", "announce"} =>
                /\ r \notin RunsOf(queue') /\ r \notin inFlight
                /\ execute[r].pc = "none"
                /\ r # x
      BY <3>2, <3>3 DEF PlaceInv
    <3>. QED  BY <2>2, <3>3, <3>4, Zenon DEF PlaceInv, x
  <2>. QED  BY <2>1, <2>2
<1>22. CASE ScheduleReserve
  <2>1. UNCHANGED <<execute, enqueue>> /\ inFlight' = inFlight \cup {schedule.run}
    BY <1>22 DEF ScheduleReserve
  <2>2. RunsOf(queue') = RunsOf(queue) /\ Distinct(queue')
    BY <1>22, <1>q, SortIntoRuns DEF ScheduleReserve, PlaceInv
  <2>3. schedule.pc = "reserve" /\ schedule'.pc = "refresh" /\ schedule'.run = schedule.run
    BY <1>22 DEF ScheduleReserve, TypeOK, ScheduleLocals
  <2>. QED  BY <2>1, <2>2, <2>3 DEF PlaceInv
<1>23. CASE ScheduleStarts
  <2>1. UNCHANGED <<queue, inFlight, enqueue>> /\ schedule.pc = "refresh" /\ schedule'.pc = "loop"
    BY <1>23 DEF ScheduleStarts
  <2>2. schedule.run \in Runs
    BY <2>1 DEF TypeOK, ScheduleLocals
  <2>3. \A x \in Runs : x # schedule.run => execute'[x].pc = execute[x].pc
    BY <1>23, <1>q, <2>2 DEF ScheduleStarts, ExecuteLocals
  <2>4. schedule.run \notin RunsOf(queue)
    BY <2>1 DEF PlaceInv
  <2>. QED  BY <1>r, <2>1, <2>3, <2>4 DEF PlaceInv
<1>24. CASE ScheduleThrows
    BY <1>24, <1>s DEF ScheduleThrows, PlaceInv
<1>3. ASSUME NEW r \in Runs, AnnounceRun(r) PROVE PlaceInv'
  <2> DEFINE e == [run |-> r, ordinal |-> ordinal, at |-> enqueue[r].at]
             longer == Append(queue, e)
  <2>1. e \in QueuedRuns /\ e.run = r
    BY <1>q DEF QueuedRuns, EnqueueLocals, TypeOK
  <2>2. r \notin RunsOf(queue) /\ Distinct(queue) /\ enqueue[r].pc = "announce"
    BY <1>3 DEF AnnounceRun, PlaceInv
  <2>3. SortInto(longer) /\ UNCHANGED <<inFlight, execute, schedule>>
    BY <1>3 DEF AnnounceRun
  <2>4. \A x \in Runs : enqueue'[x].pc = IF x = r THEN "refresh" ELSE enqueue[x].pc
    BY <1>3, <1>e DEF AnnounceRun
  <2>. HIDE DEF e
  <2>5. longer \in Seq(QueuedRuns) /\ RunsOf(longer) = RunsOf(queue) \cup {r} /\ Distinct(longer)
    BY <1>q, <2>1, <2>2, AppendRuns, AppendProperties
  <2>. HIDE DEF longer
  <2>6. RunsOf(queue') = RunsOf(queue) \cup {r} /\ Distinct(queue')
    BY <2>3, <2>5, SortIntoRuns
  <2>. QED  BY <2>2, <2>3, <2>4, <2>6 DEF PlaceInv
<1>25. CASE Tick
    BY <1>25, <1>s DEF Tick, PlaceInv
<1>26. CASE Diagnose
  <2>1. RunsOf(queue') \subseteq RunsOf(queue) /\ Distinct(queue')
    BY <1>26, <1>q, SortIntoRuns DEF Diagnose, PlaceInv
  <2>. QED  BY <1>26, <1>s, <2>1 DEF Diagnose
<1>27. CASE UNCHANGED vars
    BY <1>27, <1>s DEF vars, PlaceInv
<1>. QED
  BY <1>1, <1>2, <1>3, <1>4, <1>5, <1>6, <1>7, <1>8, <1>9, <1>10, <1>11, <1>12, <1>13,
     <1>14, <1>15, <1>16, <1>17, <1>18, <1>19, <1>20, <1>21, <1>22, <1>23, <1>24, <1>25,
     <1>26, <1>27, SchedulerAssumption
     DEF Next, Enqueue, Schedule, Execute, Cancel, Refresh

\* No call, however it interleaves with the others, makes a run wait twice, or
\* wait and execute, or start while it executes.
THEOREM OnePlaceHolds == Spec => []OnePlace
<1>1. Spec => []PlaceInv
  <2>1. TypeOK /\ TypeOK' /\ PlaceInv /\ [Next]_vars => PlaceInv'
    BY PlaceStep
  <2>. QED  BY PlaceInit, TypeCorrect, <2>1, PTL DEF Spec
<1>2. PlaceInv => OnePlace
    BY DEF PlaceInv, OnePlace, RunsOf, Distinct
<1>. QED  BY <1>1, <1>2, PTL

(***************************************************************************)
(* Parallel runs                                                           *)
(***************************************************************************)

\* What executes holds a slot, and while the loop is about to take one, one is
\* left: only the loop takes slots.
SlotInv ==
    /\ Executing \subseteq inFlight
    /\ schedule.pc = "refresh" => schedule.run \in inFlight
    /\ Cardinality(inFlight) <= MaxParallel
    /\ schedule.pc \in {"probe", "reserve"} => Cardinality(inFlight) < MaxParallel

LEMMA SlotInit == Init => SlotInv
<1>1. ASSUME Init PROVE Executing = {} /\ inFlight = {} /\ schedule.pc = "idle"
    BY <1>1 DEF Init, Executing
<1>2. Cardinality({}) = 0
    BY FS_EmptySet
<1>. QED  BY <1>1, <1>2, SchedulerAssumption DEF SlotInv

LEMMA SlotStep ==
    ASSUME TypeOK, TypeOK', PlaceInv, SlotInv, [Next]_vars
    PROVE  SlotInv'
<1>c. /\ IsFiniteSet(inFlight) /\ Cardinality(inFlight) \in Nat
      /\ MaxParallel \in Nat
    BY SchedulerAssumption, FS_Subset, FS_CardinalityType DEF TypeOK
\* Steps that leave the slots alone.
<1>s. ASSUME inFlight' = inFlight,
             \A r \in Runs : execute'[r].pc \notin {"none", "done"} =>
                                execute[r].pc \notin {"none", "done"},
             \/ schedule' = schedule
             \/ schedule'.pc \in {"idle", "loop", "ended"}
             \/ schedule.pc = "probe" /\ schedule'.pc \in {"probe", "reserve"}
      PROVE  SlotInv'
    BY <1>s DEF SlotInv, Executing
<1>1. ASSUME NEW r \in Runs, Enqueue(r) PROVE SlotInv'
  <2>1. UNCHANGED <<inFlight, execute>>
    BY <1>1 DEF Enqueue, Admit, CreateRun, AnnounceRun, EnqueueReturns, EnqueueThrows
  <2>2. schedule' = schedule \/ schedule'.pc \in {"idle", "loop"}
    BY <1>1 DEF Enqueue, Admit, CreateRun, AnnounceRun, EnqueueReturns, EnqueueThrows,
                CallSchedule, TypeOK, ScheduleLocals
  <2>. QED  BY <1>s, <2>1, <2>2
<1>2. ASSUME NEW r \in Runs, Execute(r), ~ReleaseSlot(r) PROVE SlotInv'
  <2>1. UNCHANGED <<inFlight, schedule>>
    BY <1>2 DEF Execute, ExecuteRead, ExecuteStart, ProviderStarts, ProviderFailsToStart,
                ProviderCompletes, ExecuteAborts
  <2>2. execute[r].pc \notin {"none", "done"}
    BY <1>2 DEF Execute, ExecuteRead, ExecuteStart, ProviderStarts, ProviderFailsToStart,
                ProviderCompletes, ExecuteAborts
  <2>3. \A x \in Runs : x # r => execute'[x] = execute[x]
    BY <1>2 DEF Execute, ExecuteRead, ExecuteStart, ProviderStarts, ProviderFailsToStart,
                ProviderCompletes, ExecuteAborts, TypeOK
  <2>. QED  BY <1>s, <2>1, <2>2, <2>3
<1>3. ASSUME NEW r \in Runs, ReleaseSlot(r) PROVE SlotInv'
  <2>1. inFlight' = inFlight \ {r} /\ execute[r].pc = "finally"
    BY <1>3 DEF ReleaseSlot
  <2>2. Cardinality(inFlight') \in Nat /\ Cardinality(inFlight') <= Cardinality(inFlight)
    <3>1. Cardinality(inFlight \ {r}) = IF r \in inFlight THEN Cardinality(inFlight) - 1
                                       ELSE Cardinality(inFlight)
      BY <1>c, FS_RemoveElement
    <3>2. Cardinality(inFlight \ {r}) \in Nat
      BY <1>c, FS_RemoveElement, FS_CardinalityType
    <3>. QED  BY <1>c, <2>1, <3>1, <3>2
  <2>3. \A x \in Runs : execute'[x].pc = IF x = r THEN "done" ELSE execute[x].pc
    BY <1>3 DEF ReleaseSlot, TypeOK, ExecuteLocals
  <2>4. Executing' \subseteq inFlight'
    BY <2>1, <2>3 DEF SlotInv, Executing
  <2>5. schedule' = schedule \/ schedule'.pc = "loop"
    BY <1>3 DEF ReleaseSlot, CallSchedule, TypeOK, ScheduleLocals
  <2>6. schedule.pc = "refresh" => schedule.run # r
    BY <2>1 DEF PlaceInv
  <2>. QED  BY <1>c, <2>1, <2>2, <2>4, <2>5, <2>6 DEF SlotInv
<1>4. ASSUME NEW r \in Runs, Cancel(r) PROVE SlotInv'
  <2>1. UNCHANGED <<inFlight, execute, schedule>>
    BY <1>4 DEF Cancel, CancelRead, CancelQueued, CancelCompletes, CancelReturns, CancelActive
  <2>. QED  BY <1>s, <2>1
<1>5. ASSUME NEW c \in Callers, Refresh(c) PROVE SlotInv'
  <2>1. UNCHANGED <<inFlight, execute, schedule>>
    BY <1>5 DEF Refresh, RefreshRead, RefreshWrite
  <2>. QED  BY <1>s, <2>1
<1>6. CASE ScheduleLoop
  <2>1. UNCHANGED <<inFlight, execute>>
    BY <1>6 DEF ScheduleLoop
  <2>2. \/ schedule'.pc = "idle"
        \/ schedule'.pc = "probe" /\ Cardinality(inFlight) < MaxParallel
    BY <1>6 DEF ScheduleLoop
  <2>. QED  BY <2>1, <2>2 DEF SlotInv, Executing
<1>7. CASE ScheduleProbe
  <2>1. UNCHANGED <<inFlight, execute>>
    BY <1>7 DEF ScheduleProbe
  <2>2. schedule.pc = "probe" /\ schedule'.pc \in {"probe", "reserve", "idle"}
    BY <1>7 DEF ScheduleProbe
  <2>. QED  BY <1>s, <2>1, <2>2
<1>8. CASE ScheduleReserve
  <2>1. /\ UNCHANGED execute /\ inFlight' = inFlight \cup {schedule.run}
        /\ schedule.pc = "reserve"
    BY <1>8 DEF ScheduleReserve
  <2>2. schedule'.pc = "refresh" /\ schedule'.run = schedule.run
    BY <1>8 DEF ScheduleReserve, TypeOK, ScheduleLocals
  <2>3. /\ Cardinality(inFlight') \in Nat
        /\ Cardinality(inFlight') <= Cardinality(inFlight) + 1
    <3>1. Cardinality(inFlight \cup {schedule.run}) =
             IF schedule.run \in inFlight THEN Cardinality(inFlight)
             ELSE Cardinality(inFlight) + 1
      BY <1>c, FS_AddElement
    <3>. QED  BY <1>c, <2>1, <3>1
  <2>. QED  BY <1>c, <2>1, <2>2, <2>3 DEF SlotInv, Executing
<1>9. CASE ScheduleStarts
  <2>1. UNCHANGED inFlight /\ schedule.pc = "refresh" /\ schedule'.pc = "loop"
    BY <1>9 DEF ScheduleStarts
  <2>2. \A x \in Runs : x # schedule.run => execute'[x] = execute[x]
    BY <1>9 DEF ScheduleStarts, TypeOK
  <2>. QED  BY <2>1, <2>2 DEF SlotInv, Executing
<1>10. CASE ScheduleThrows
  <2>1. UNCHANGED <<inFlight, execute>> /\ schedule'.pc = "ended"
    BY <1>10 DEF ScheduleThrows
  <2>. QED  BY <1>s, <2>1
<1>11. CASE Tick \/ Diagnose \/ UNCHANGED vars
  <2>1. UNCHANGED <<inFlight, execute, schedule>>
    BY <1>11 DEF Tick, Diagnose, vars
  <2>. QED  BY <1>s, <2>1
<1>. QED
  BY <1>1, <1>2, <1>3, <1>4, <1>5, <1>6, <1>7, <1>8, <1>9, <1>10, <1>11,
     SchedulerAssumption DEF Next, Schedule

\* However the calls interleave, no more runs execute than the installation allows.
THEOREM ParallelLimitHolds == Spec => []ParallelLimit
<1>1. Init => SlotInv
    BY SlotInit
<1>2. Spec => []PlaceInv
  <2>1. TypeOK /\ TypeOK' /\ PlaceInv /\ [Next]_vars => PlaceInv'
    BY PlaceStep
  <2>. QED  BY PlaceInit, TypeCorrect, <2>1, PTL DEF Spec
<1>3. Spec => []SlotInv
  <2>1. TypeOK /\ TypeOK' /\ PlaceInv /\ SlotInv /\ [Next]_vars => SlotInv'
    BY SlotStep
  <2>. QED  BY <1>1, <1>2, TypeCorrect, <2>1, PTL DEF Spec
<1>4. TypeOK /\ SlotInv => ParallelLimit
  <2>. SUFFICES ASSUME TypeOK, SlotInv PROVE ParallelLimit
    OBVIOUS
  <2>1. IsFiniteSet(inFlight) /\ Cardinality(inFlight) \in Nat
    BY SchedulerAssumption, FS_Subset, FS_CardinalityType DEF TypeOK
  <2>2. IsFiniteSet(Executing) /\ Cardinality(Executing) <= Cardinality(inFlight)
    BY <2>1, FS_Subset DEF SlotInv
  <2>3. Cardinality(Executing) \in Nat
    BY <2>2, FS_CardinalityType
  <2>. QED  BY <2>1, <2>2, <2>3, SchedulerAssumption DEF SlotInv, ParallelLimit
<1>. QED  BY <1>3, <1>4, TypeCorrect, PTL

(***************************************************************************)
(* What one scope allows.  The loop checks a candidate and takes, after an *)
(* await, whatever stands at the index then: TakesAlike says of a step     *)
(* that it takes a run that counts against no scope that was not checked.  *)
(***************************************************************************)

TakesAlike ==
    schedule.pc = "probe" /\ schedule'.pc = "reserve" =>
        ScopesOf[schedule'.run] \subseteq ScopesOf[schedule.run]

ShareInv ==
    \A s \in Scopes :
        /\ Cardinality(inFlight \cap RunsIn(s)) <= Limit[s]
        /\ schedule.pc = "reserve" /\ schedule.run \in RunsIn(s) =>
            Cardinality(inFlight \cap RunsIn(s)) < Limit[s]

LEMMA ShareStep ==
    ASSUME TypeOK, TypeOK', ShareInv, [Next]_vars, TakesAlike
    PROVE  ShareInv'
<1>c. \A s \in Scopes :
        /\ IsFiniteSet(inFlight \cap RunsIn(s)) /\ Cardinality(inFlight \cap RunsIn(s)) \in Nat
        /\ Limit[s] \in Nat
  <2>1. IsFiniteSet(inFlight)
      BY SchedulerAssumption, FS_Subset DEF TypeOK
  <2>2. ASSUME NEW s \in Scopes
        PROVE  IsFiniteSet(inFlight \cap RunsIn(s)) /\ Cardinality(inFlight \cap RunsIn(s)) \in Nat
      BY <2>1, FS_Subset, FS_CardinalityType
  <2>. QED  BY <2>2, SchedulerAssumption
<1>1. CASE ScheduleProbe
  <2>1. inFlight' = inFlight /\ schedule.pc = "probe"
      BY <1>1 DEF ScheduleProbe
  <2>2. ASSUME NEW s \in Scopes, schedule'.pc = "reserve", schedule'.run \in RunsIn(s)
        PROVE  Cardinality(inFlight \cap RunsIn(s)) < Limit[s]
    <3>1. ~Blocked(schedule.run)
        BY <1>1, <2>2 DEF ScheduleProbe
    <3>2. s \in ScopesOf[schedule.run]
        BY <2>1, <2>2 DEF TakesAlike, RunsIn
    <3>3. ~(Cardinality(inFlight \cap RunsIn(s)) >= Limit[s])
        BY <3>1, <3>2, Zenon DEF Blocked
    <3>. QED  BY <1>c, <3>3
  <2>. QED  BY <2>1, <2>2 DEF ShareInv
<1>2. CASE ScheduleReserve
  <2>1. /\ inFlight' = inFlight \cup {schedule.run} /\ schedule.pc = "reserve"
        /\ schedule'.pc # "reserve" /\ schedule.run \in Runs
      BY <1>2 DEF ScheduleReserve, TypeOK, ScheduleLocals
  <2>2. ASSUME NEW s \in Scopes PROVE Cardinality(inFlight' \cap RunsIn(s)) <= Limit[s]
    <3>1. CASE schedule.run \in RunsIn(s)
      <4>1. inFlight' \cap RunsIn(s) = (inFlight \cap RunsIn(s)) \cup {schedule.run}
          BY <2>1, <3>1
      <4>2. Cardinality((inFlight \cap RunsIn(s)) \cup {schedule.run}) <=
               Cardinality(inFlight \cap RunsIn(s)) + 1
        <5> DEFINE S == inFlight \cap RunsIn(s)
        <5>1. IsFiniteSet(S) /\ Cardinality(S) \in Nat
            BY <1>c
        <5>. HIDE DEF S
        <5>2. Cardinality(S \cup {schedule.run}) =
                 IF schedule.run \in S THEN Cardinality(S) ELSE Cardinality(S) + 1
            BY <5>1, FS_AddElement
        <5>3. Cardinality(S \cup {schedule.run}) <= Cardinality(S) + 1
            BY <5>1, <5>2
        <5>. QED  BY <5>3 DEF S
      <4>3. Cardinality(inFlight \cap RunsIn(s)) < Limit[s]
          BY <2>1, <3>1 DEF ShareInv
      <4>4. Cardinality(inFlight' \cap RunsIn(s)) \in Nat
          BY <1>c, <4>1, FS_AddElement, FS_CardinalityType
      <4>. QED  BY <1>c, <4>1, <4>2, <4>3, <4>4
    <3>2. CASE schedule.run \notin RunsIn(s)
      <4>1. inFlight' \cap RunsIn(s) = inFlight \cap RunsIn(s)
          BY <2>1, <3>2
      <4>. QED  BY <4>1 DEF ShareInv
    <3>. QED  BY <3>1, <3>2
  <2>. QED  BY <2>1, <2>2 DEF ShareInv
<1>s. ASSUME inFlight' \subseteq inFlight, schedule'.pc # "reserve" \/ schedule' = schedule
      PROVE  ShareInv'
  <2>1. ASSUME NEW s \in Scopes
        PROVE  /\ Cardinality(inFlight' \cap RunsIn(s)) \in Nat
               /\ Cardinality(inFlight' \cap RunsIn(s)) <= Cardinality(inFlight \cap RunsIn(s))
    <3>1. inFlight' \cap RunsIn(s) \subseteq inFlight \cap RunsIn(s)
        BY <1>s
    <3>. QED  BY <1>c, <3>1, FS_Subset, FS_CardinalityType
  <2>2. ASSUME NEW s \in Scopes
        PROVE  /\ Cardinality(inFlight' \cap RunsIn(s)) <= Limit[s]
               /\ schedule'.pc = "reserve" /\ schedule'.run \in RunsIn(s) =>
                    Cardinality(inFlight' \cap RunsIn(s)) < Limit[s]
    <3>1. /\ Cardinality(inFlight \cap RunsIn(s)) <= Limit[s]
          /\ schedule.pc = "reserve" /\ schedule.run \in RunsIn(s) =>
                Cardinality(inFlight \cap RunsIn(s)) < Limit[s]
        BY DEF ShareInv
    <3>2. /\ Cardinality(inFlight' \cap RunsIn(s)) \in Nat
          /\ Cardinality(inFlight' \cap RunsIn(s)) <= Cardinality(inFlight \cap RunsIn(s))
          /\ Cardinality(inFlight \cap RunsIn(s)) \in Nat /\ Limit[s] \in Nat
        BY <1>c, <2>1
    <3>3. Cardinality(inFlight' \cap RunsIn(s)) <= Limit[s]
        BY <3>1, <3>2
    <3>4. ASSUME schedule'.pc = "reserve", schedule'.run \in RunsIn(s)
          PROVE  Cardinality(inFlight' \cap RunsIn(s)) < Limit[s]
      <4>1. Cardinality(inFlight \cap RunsIn(s)) < Limit[s]
          BY <1>s, <3>1, <3>4
      <4>. QED  BY <3>2, <4>1
    <3>. QED  BY <3>3, <3>4
  <2>3. \A s \in Scopes : RunsIn(s)' = RunsIn(s)
      BY DEF RunsIn
  <2>. QED  BY <2>2, <2>3 DEF ShareInv
<1>3. ASSUME CallSchedule PROVE schedule'.pc # "reserve" \/ schedule' = schedule
    BY <1>3 DEF CallSchedule, TypeOK, ScheduleLocals
<1>4. ASSUME NEW r \in Runs, Enqueue(r) PROVE ShareInv'
  <2>1. inFlight' = inFlight /\ (schedule' = schedule \/ CallSchedule)
      BY <1>4 DEF Enqueue, Admit, CreateRun, AnnounceRun, EnqueueReturns, EnqueueThrows
  <2>. QED  BY <1>3, <1>s, <2>1
<1>5. ASSUME NEW r \in Runs, Execute(r) PROVE ShareInv'
  <2>1. inFlight' \subseteq inFlight /\ (schedule' = schedule \/ CallSchedule)
      BY <1>5 DEF Execute, ExecuteRead, ExecuteStart, ProviderStarts, ProviderFailsToStart,
                  ProviderCompletes, ExecuteAborts, ReleaseSlot
  <2>. QED  BY <1>3, <1>s, <2>1
<1>6. ASSUME NEW r \in Runs, Cancel(r) PROVE ShareInv'
  <2>1. UNCHANGED <<inFlight, schedule>>
      BY <1>6 DEF Cancel, CancelRead, CancelQueued, CancelCompletes, CancelReturns, CancelActive
  <2>. QED  BY <1>s, <2>1
<1>7. ASSUME NEW c \in Callers, Refresh(c) PROVE ShareInv'
  <2>1. UNCHANGED <<inFlight, schedule>>
      BY <1>7 DEF Refresh, RefreshRead, RefreshWrite
  <2>. QED  BY <1>s, <2>1
<1>8. CASE ScheduleLoop \/ ScheduleStarts \/ ScheduleThrows
  <2>1. inFlight' = inFlight /\ schedule'.pc # "reserve"
      BY <1>8 DEF ScheduleLoop, ScheduleStarts, ScheduleThrows
  <2>. QED  BY <1>s, <2>1
<1>9. CASE Tick \/ Diagnose \/ UNCHANGED vars
  <2>1. UNCHANGED <<inFlight, schedule>>
      BY <1>9 DEF Tick, Diagnose, vars
  <2>. QED  BY <1>s, <2>1
<1>. QED
  BY <1>1, <1>2, <1>4, <1>5, <1>6, <1>7, <1>8, <1>9, SchedulerAssumption
  DEF Next, Schedule

\* The index that may have become stale is all that can break a limit: as long as
\* what is taken counts against no other scope than what was checked, the limit of
\* every provider, workspace and owner holds, whatever else is interleaved.
THEOREM ScopeLimitsUnlessStale == Spec /\ [][TakesAlike]_vars => []ScopeLimits
<1>1. TypeOK /\ Init => ShareInv
  <2>1. Cardinality({}) = 0 /\ \A s \in Scopes : {} \cap RunsIn(s) = {}
      BY FS_EmptySet
  <2>. QED  BY <2>1, SchedulerAssumption DEF Init, ShareInv
<1>2. TypeOK /\ TypeOK' /\ ShareInv /\ [Next]_vars /\ [TakesAlike]_vars => ShareInv'
  <2>1. UNCHANGED vars => TakesAlike
      BY DEF vars, TakesAlike
  <2>. QED  BY <2>1, ShareStep
<1>3. Spec => [](PlaceInv /\ SlotInv)
  <2>1. TypeOK /\ TypeOK' /\ PlaceInv /\ SlotInv /\ [Next]_vars => PlaceInv' /\ SlotInv'
      BY PlaceStep, SlotStep
  <2>. QED  BY PlaceInit, SlotInit, TypeCorrect, <2>1, PTL DEF Spec
<1>4. TypeOK /\ SlotInv /\ ShareInv => ScopeLimits
  <2> SUFFICES ASSUME TypeOK, SlotInv, ShareInv, NEW s \in Scopes
               PROVE  Cardinality(Executing \cap RunsIn(s)) <= Limit[s]
      BY DEF ScopeLimits
  <2>1. IsFiniteSet(inFlight \cap RunsIn(s)) /\ Cardinality(inFlight \cap RunsIn(s)) \in Nat
    <3>1. IsFiniteSet(inFlight)
        BY SchedulerAssumption, FS_Subset DEF TypeOK
    <3>. QED  BY <3>1, FS_Subset, FS_CardinalityType
  <2>2. Executing \cap RunsIn(s) \subseteq inFlight \cap RunsIn(s)
      BY DEF SlotInv
  <2>3. /\ Cardinality(Executing \cap RunsIn(s)) \in Nat
        /\ Cardinality(Executing \cap RunsIn(s)) <= Cardinality(inFlight \cap RunsIn(s))
      BY <2>1, <2>2, FS_Subset, FS_CardinalityType
  <2>4. Limit[s] \in Nat
      BY SchedulerAssumption
  <2>. QED  BY <2>1, <2>3, <2>4 DEF ShareInv
<1>. QED  BY <1>1, <1>2, <1>3, <1>4, TypeCorrect, PTL DEF Spec

(***************************************************************************)
(* An installation in which the array keeps its order: nothing that waits  *)
(* is cancelled, all runs have one priority and nothing ages.  Runs may    *)
(* count against any providers, workspaces and owners.                     *)
(***************************************************************************)

Steady ==
    /\ Cancellable = {}
    /\ \A r, s \in Runs : Priority[r] = Priority[s]
    /\ AgingStep = 0 \/ MaxNow = 0

Increasing(q) == \A i, j \in DOMAIN q : i < j => q[i].ordinal < q[j].ordinal

\* A permutation of 1 .. n that keeps the order moves nothing: the first i go to
\* the first p[i] places, the others to the rest.
LEMMA IncreasingIsIdentity ==
    ASSUME NEW n \in Nat, NEW p \in Bijection(1 .. n, 1 .. n),
           \A i, j \in 1 .. n : i < j => p[i] < p[j]
    PROVE  \A i \in 1 .. n : p[i] = i
<1> SUFFICES ASSUME NEW i \in 1 .. n PROVE p[i] = i
    OBVIOUS
<1>1. /\ \A k \in 1 .. n : p[k] \in 1 .. n
      /\ \A k, m \in 1 .. n : p[k] = p[m] => k = m
  <2>1. p \in [1 .. n -> 1 .. n] /\ IsInjective(p)
      BY Zenon DEF Bijection, Injection
  <2>. QED  BY <2>1 DEF IsInjective
<1>2. i <= p[i]
  <2> DEFINE f == [k \in 1 .. i |-> p[k]]
  <2>1. f \in [1 .. i -> 1 .. p[i]]
      BY <1>1
  <2>2. IsInjective(f)
      BY <1>1 DEF IsInjective
  <2>3. f \in Injection(1 .. i, 1 .. p[i])
      BY <2>1, <2>2 DEF Injection
  <2>. HIDE DEF f
  <2>4. Cardinality(1 .. i) <= Cardinality(1 .. p[i])
      BY <1>1, <2>3, FS_Injection, FS_Interval
  <2>5. Cardinality(1 .. i) = i /\ Cardinality(1 .. p[i]) = p[i]
      BY <1>1, FS_Interval
  <2>. QED  BY <2>4, <2>5
<1>3. p[i] <= i
  <2> DEFINE f == [k \in i .. n |-> p[k]]
  <2>1. f \in [i .. n -> p[i] .. n]
      BY <1>1
  <2>2. IsInjective(f)
      BY <1>1 DEF IsInjective
  <2>3. f \in Injection(i .. n, p[i] .. n)
      BY <2>1, <2>2 DEF Injection
  <2>. HIDE DEF f
  <2>4. Cardinality(i .. n) <= Cardinality(p[i] .. n)
      BY <1>1, <2>3, FS_Injection, FS_Interval
  <2>5. Cardinality(i .. n) = n - i + 1 /\ Cardinality(p[i] .. n) = n - p[i] + 1
      BY <1>1, FS_Interval
  <2>. QED  BY <1>1, <2>4, <2>5
<1>. QED  BY <1>1, <1>2, <1>3

\* Sorting an array that is in the order of arrival leaves it as it is.
LEMMA SortKeeps ==
    ASSUME Steady, now \in Nat, now <= MaxNow,
           NEW q \in Seq(QueuedRuns), Increasing(q), \A i \in DOMAIN q : q[i].at <= MaxNow,
           SortInto(q)
    PROVE  queue' = q
<1>1. PICK p \in Bijection(DOMAIN q, DOMAIN q) :
        queue' = [i \in DOMAIN q |-> q[p[i]]] /\ IsSorted(queue')
    BY DEF SortInto, Arrangements
<1>2. Len(q) \in Nat /\ DOMAIN q = 1 .. Len(q)
    BY LenProperties
<1>3. \A i \in DOMAIN q : p[i] \in DOMAIN q
    BY Zenon DEF Bijection, Injection
<1>q. \A i \in DOMAIN q : q[i].run \in Runs /\ q[i].at \in Nat /\ q[i].ordinal \in Nat
  <2>1. \A i \in DOMAIN q : q[i] \in QueuedRuns
      BY <1>2, ElementOfSeq
  <2>. QED  BY <2>1 DEF QueuedRuns
<1>4. \A i \in DOMAIN q : EffectivePriority(q[i]) = Priority[q[i].run] + Least(AgingMax, 0)
  <2>1. ASSUME NEW i \in DOMAIN q PROVE (now - q[i].at) * AgingStep = 0
    <3>1. CASE AgingStep = 0
      <4>1. now - q[i].at \in Int
          BY <1>q
      <4>. QED  BY <3>1, <4>1
    <3>2. CASE MaxNow = 0
      <4>1. now = 0 /\ q[i].at = 0
          BY <1>q, <3>2
      <4>. QED  BY <4>1, SchedulerAssumption
    <3>. QED  BY <3>1, <3>2 DEF Steady
  <2>. QED  BY <2>1 DEF EffectivePriority
<1>5. \A i, j \in DOMAIN q : /\ EffectivePriority(q[i]) \in Int
                             /\ EffectivePriority(q[i]) = EffectivePriority(q[j])
    BY <1>q, <1>4, SchedulerAssumption DEF Steady, Least
<1>6. \A i, j \in 1 .. Len(q) : i < j => p[i] < p[j]
  <2> SUFFICES ASSUME NEW i \in DOMAIN q, NEW j \in DOMAIN q, i < j PROVE p[i] < p[j]
      BY <1>2
  <2> DEFINE a == p[i]
             b == p[j]
  <2>1. queue'[i] = q[a] /\ queue'[j] = q[b] /\ DOMAIN queue' = DOMAIN q
      BY <1>1
  <2>2. Before(q[a], q[b])
      BY <1>1, <2>1 DEF IsSorted
  <2>3. a \in DOMAIN q /\ b \in DOMAIN q
      BY <1>3
  <2>. HIDE DEF a, b
  <2>4. q[a].ordinal < q[b].ordinal
    <3>1. /\ EffectivePriority(q[a]) \in Int /\ EffectivePriority(q[b]) \in Int
          /\ EffectivePriority(q[a]) = EffectivePriority(q[b])
        BY <1>5, <2>3
    <3>. QED  BY <2>2, <3>1 DEF Before
  <2>5. ~(b < a)
    <3>1. b < a => q[b].ordinal < q[a].ordinal
        BY <2>3 DEF Increasing
    <3>2. q[a].ordinal \in Nat /\ q[b].ordinal \in Nat
        BY <1>q, <2>3
    <3>. QED  BY <2>4, <3>1, <3>2
  <2>6. a # b
      BY <1>q, <2>3, <2>4
  <2>7. a \in Nat /\ b \in Nat
      BY <1>2, <2>3
  <2>. QED  BY <2>5, <2>6, <2>7 DEF a, b
<1>7. \A i \in DOMAIN q : p[i] = i
    BY <1>2, <1>6, IncreasingIsIdentity
<1>. QED  BY <1>1, <1>2, <1>7

\* The array is in the order of the tickets, nobody is older than the clock allows,
\* and the candidate the loop is asking for stands where the loop looks.
OrderInv ==
    /\ now <= MaxNow
    /\ \A r \in Runs : enqueue[r].at <= MaxNow
    /\ \A i \in DOMAIN queue : queue[i].at <= MaxNow /\ queue[i].ordinal < ordinal
    /\ Increasing(queue)
    /\ schedule.pc = "probe" =>
        schedule.i \in DOMAIN queue /\ queue[schedule.i].run = schedule.run

LEMMA OrderStep ==
    ASSUME Steady, TypeOK, TypeOK', OrderInv, [Next]_vars
    PROVE  OrderInv' /\ TakesAlike
<1>q. /\ queue \in Seq(QueuedRuns) /\ now \in Nat /\ MaxNow \in Nat /\ ordinal \in Nat
      /\ enqueue \in [Runs -> EnqueueLocals]
      /\ Len(queue) \in Nat /\ DOMAIN queue = 1 .. Len(queue)
    BY SchedulerAssumption, LenProperties DEF TypeOK
<1>k. SortInto(queue) => queue' = queue
    BY <1>q, SortKeeps DEF OrderInv
\* Steps that leave the array and the clock alone.
<1>s. ASSUME queue' = queue, ordinal' = ordinal, now' = now,
             \A r \in Runs : enqueue'[r].at \in {enqueue[r].at, now},
             schedule' = schedule \/ schedule'.pc \notin {"probe", "reserve"}
      PROVE  OrderInv' /\ TakesAlike
    BY <1>s DEF OrderInv, Increasing, TakesAlike
<1>w. ASSUME CallSchedule PROVE schedule' = schedule \/ schedule'.pc \notin {"probe", "reserve"}
    BY <1>w DEF CallSchedule, TypeOK, ScheduleLocals
<1>1. ASSUME NEW r \in Runs, Admit(r) \/ CreateRun(r) \/ EnqueueReturns(r) \/ EnqueueThrows(r)
      PROVE  OrderInv' /\ TakesAlike
  <2>1. queue' = queue /\ ordinal' = ordinal /\ now' = now /\ (schedule' = schedule \/ CallSchedule)
      BY <1>1 DEF Admit, CreateRun, EnqueueReturns, EnqueueThrows
  <2>2. \A x \in Runs : enqueue'[x].at \in {enqueue[x].at, now}
    <3>1. \/ enqueue' = [enqueue EXCEPT ![r] = [pc |-> "create", at |-> now,
                                                 pos |-> Len(queue) + 1]]
          \/ \E v \in {"announce", "returned", "rejected"} :
                enqueue' = [enqueue EXCEPT ![r].pc = v]
        BY <1>1 DEF Admit, CreateRun, EnqueueReturns, EnqueueThrows
    <3>2. ASSUME NEW v, enqueue' = [enqueue EXCEPT ![r].pc = v]
          PROVE  \A x \in Runs : enqueue'[x].at = enqueue[x].at
        BY <1>q, <3>2 DEF EnqueueLocals
    <3>3. ASSUME NEW v, enqueue' = [enqueue EXCEPT ![r] = v], v.at = now
          PROVE  \A x \in Runs : enqueue'[x].at \in {enqueue[x].at, now}
        BY <1>q, <3>3
    <3>4. CASE enqueue' = [enqueue EXCEPT ![r] = [pc |-> "create", at |-> now,
                                                  pos |-> Len(queue) + 1]]
      <4>1. [pc |-> "create", at |-> now, pos |-> Len(queue) + 1].at = now
          OBVIOUS
      <4>. QED  BY <3>3, <3>4, <4>1
    <3>5. CASE \E v \in {"announce", "returned", "rejected"} :
                  enqueue' = [enqueue EXCEPT ![r].pc = v]
      <4>1. PICK v : enqueue' = [enqueue EXCEPT ![r].pc = v]
          BY <3>5
      <4>2. \A x \in Runs : enqueue'[x].at = enqueue[x].at
          BY <3>2, <4>1
      <4>. QED  BY <4>2
    <3>. QED  BY <3>1, <3>4, <3>5
  <2>. QED  BY <1>s, <1>w, <2>1, <2>2
<1>2. ASSUME NEW r \in Runs, AnnounceRun(r) PROVE OrderInv' /\ TakesAlike
  <2> DEFINE e == [run |-> r, ordinal |-> ordinal, at |-> enqueue[r].at]
             longer == Append(queue, e)
  <2>1. e \in QueuedRuns /\ e.ordinal = ordinal /\ e.at <= MaxNow
      BY <1>q DEF QueuedRuns, EnqueueLocals, OrderInv
  <2>2. SortInto(longer) /\ ordinal' = ordinal + 1 /\ now' = now /\ schedule' = schedule
      BY <1>2 DEF AnnounceRun
  <2>3. \A x \in Runs : enqueue'[x].at = enqueue[x].at
      BY <1>2, <1>q DEF AnnounceRun, EnqueueLocals
  <2>. HIDE DEF e
  <2>4. /\ longer \in Seq(QueuedRuns)
        /\ DOMAIN longer = 1 .. Len(queue) + 1
        /\ \A k \in DOMAIN queue : longer[k] = queue[k]
        /\ longer[Len(queue) + 1] = e
      BY <1>q, <2>1, AppendProperties
  <2>. HIDE DEF longer
  <2>5. \A k \in DOMAIN longer : longer[k].at <= MaxNow /\ longer[k].ordinal < ordinal + 1
    <3>1. \A k \in DOMAIN queue : queue[k].ordinal \in Nat
      <4>1. \A k \in DOMAIN queue : queue[k] \in QueuedRuns
          BY <1>q, ElementOfSeq
      <4>. QED  BY <4>1 DEF QueuedRuns
    <3>. QED  BY <1>q, <2>1, <2>4, <3>1 DEF OrderInv
  <2>6. Increasing(longer)
      BY <1>q, <2>1, <2>4 DEF OrderInv, Increasing
  <2>7. queue' = longer
      BY <1>q, <2>2, <2>4, <2>5, <2>6, SortKeeps DEF OrderInv
  <2>8. schedule.pc = "probe" =>
          schedule.i \in DOMAIN longer /\ longer[schedule.i].run = schedule.run
      BY <1>q, <2>4 DEF OrderInv
  <2>9. now <= MaxNow /\ \A x \in Runs : enqueue[x].at <= MaxNow
      BY DEF OrderInv
  <2>. QED  BY <2>2, <2>3, <2>5, <2>6, <2>7, <2>8, <2>9 DEF OrderInv, TakesAlike
<1>3. ASSUME NEW r \in Runs, Execute(r) PROVE OrderInv' /\ TakesAlike
  <2>1. /\ UNCHANGED <<queue, ordinal, now, enqueue>> /\ (schedule' = schedule \/ CallSchedule)
      BY <1>3 DEF Execute, ExecuteRead, ExecuteStart, ProviderStarts, ProviderFailsToStart,
                  ProviderCompletes, ExecuteAborts, ReleaseSlot
  <2>. QED  BY <1>s, <1>w, <2>1
<1>4. ASSUME NEW c \in Callers, Refresh(c) PROVE OrderInv' /\ TakesAlike
  <2>1. UNCHANGED <<queue, ordinal, now, enqueue, schedule>>
      BY <1>4 DEF Refresh, RefreshRead, RefreshWrite
  <2>. QED  BY <1>s, <2>1
<1>5. CASE ScheduleLoop
  <2>1. UNCHANGED <<queue, ordinal, now, enqueue>>
      BY <1>5, <1>k DEF ScheduleLoop
  <2>2. CASE queue # <<>> /\ Cardinality(inFlight) < MaxParallel
    <3>1. schedule' = [pc |-> "probe", i |-> 1, run |-> queue[1].run]
        BY <1>5, <2>1, <2>2 DEF ScheduleLoop
    <3>2. 1 \in DOMAIN queue
        BY <1>q, <2>2, EmptySeq
    <3>3. schedule'.pc = "probe" /\ schedule'.i = 1 /\ schedule'.run = queue[1].run
        BY <3>1
    <3>. QED  BY <2>1, <3>2, <3>3 DEF OrderInv, Increasing, TakesAlike
  <2>3. CASE ~(queue # <<>> /\ Cardinality(inFlight) < MaxParallel)
    <3>1. schedule'.pc = "idle"
        BY <1>5, <2>3 DEF ScheduleLoop
    <3>. QED  BY <1>s, <2>1, <3>1
  <2>. QED  BY <2>2, <2>3
<1>6. CASE ScheduleProbe
  <2> DEFINE i == schedule.i
             w == WithoutAt(queue, i)
  <2>1. /\ UNCHANGED <<ordinal, now, enqueue>> /\ schedule.pc = "probe"
        /\ i \in DOMAIN queue /\ queue[i].run = schedule.run
      BY <1>6 DEF ScheduleProbe, OrderInv
  <2>2. CASE ~Blocked(schedule.run)
    <3>1. queue' = w /\ schedule' = [pc |-> "reserve", i |-> 0, run |-> queue[i].run]
        BY <1>6, <2>1, <2>2 DEF ScheduleProbe
    <3>2. /\ DOMAIN w = 1 .. Len(queue) - 1
          /\ \A k \in DOMAIN w : w[k] = IF k < i THEN queue[k] ELSE queue[k + 1]
        BY <1>q DEF WithoutAt
    <3>3. schedule'.pc = "reserve" /\ schedule'.run = schedule.run
        BY <2>1, <3>1
    <3>. HIDE DEF w
    <3>4. \A k \in DOMAIN w :
            /\ k < i => k \in DOMAIN queue /\ w[k] = queue[k]
            /\ ~(k < i) => k + 1 \in DOMAIN queue /\ w[k] = queue[k + 1]
        BY <1>q, <2>1, <3>2
    <3>5. \A k \in DOMAIN w : w[k].at <= MaxNow /\ w[k].ordinal < ordinal
        BY <3>4 DEF OrderInv
    <3>6. ASSUME NEW k \in DOMAIN w, NEW m \in DOMAIN w, k < m
          PROVE  w[k].ordinal < w[m].ordinal
      <4>. DEFINE a == IF k < i THEN k ELSE k + 1
                  b == IF m < i THEN m ELSE m + 1
      <4>1. a \in DOMAIN queue /\ b \in DOMAIN queue /\ w[k] = queue[a] /\ w[m] = queue[b]
          BY <3>4
      <4>2. a < b
          BY <1>q, <2>1, <3>2, <3>6
      <4>. HIDE DEF a, b
      <4>3. queue[a].ordinal < queue[b].ordinal
          BY <4>1, <4>2 DEF OrderInv, Increasing
      <4>. QED  BY <4>1, <4>3
    <3>7. Increasing(w)
        BY <3>6 DEF Increasing
    <3>. QED  BY <2>1, <3>1, <3>3, <3>5, <3>7 DEF OrderInv, TakesAlike
  <2>3. CASE Blocked(schedule.run)
    <3>1. queue' = queue
        BY <1>6, <2>3 DEF ScheduleProbe
    <3>2. schedule' = IF i + 1 \in DOMAIN queue
                      THEN [pc |-> "probe", i |-> i + 1, run |-> queue[i + 1].run]
                      ELSE [pc |-> "idle", i |-> 0, run |-> NoRun]
        BY <1>6, <2>3 DEF ScheduleProbe
    <3>3. /\ schedule'.pc \in {"probe", "idle"}
          /\ schedule'.pc = "probe" =>
                schedule'.i \in DOMAIN queue /\ queue[schedule'.i].run = schedule'.run
        BY <3>2
    <3>. QED  BY <2>1, <3>1, <3>3 DEF OrderInv, Increasing, TakesAlike
  <2>. QED  BY <2>2, <2>3
<1>7. CASE ScheduleReserve \/ ScheduleStarts \/ ScheduleThrows \/ Diagnose
  <2>1. UNCHANGED <<queue, ordinal, now, enqueue>>
      BY <1>7, <1>k DEF ScheduleReserve, ScheduleStarts, ScheduleThrows, Diagnose
  <2>2. schedule' = schedule \/ schedule'.pc \notin {"probe", "reserve"}
      BY <1>7 DEF ScheduleReserve, ScheduleStarts, ScheduleThrows, Diagnose, TypeOK, ScheduleLocals
  <2>. QED  BY <1>s, <2>1, <2>2
<1>8. CASE Tick
  <2>1. UNCHANGED <<queue, ordinal, enqueue, schedule>> /\ now' = now + 1 /\ now < MaxNow
      BY <1>8 DEF Tick
  <2>2. now' <= MaxNow
      BY <1>q, <2>1
  <2>. QED  BY <2>1, <2>2 DEF OrderInv, Increasing, TakesAlike
<1>9. CASE UNCHANGED vars
    BY <1>9, <1>s DEF vars
<1>. QED
  BY <1>1, <1>2, <1>3, <1>4, <1>5, <1>6, <1>7, <1>8, <1>9
  DEF Next, Enqueue, Schedule, Steady

\* Where the array keeps its order the index is never stale, and the limit of every
\* provider, workspace and owner holds, for any number of runs and scopes, whatever
\* the scopes of each run, and however calls, slots and renumberings interleave.
THEOREM ScopeLimitsHold ==
    ASSUME Steady
    PROVE  Spec => []ScopeLimits
<1>1. Init => OrderInv
  <2> SUFFICES ASSUME Init PROVE OrderInv
      OBVIOUS
  <2>1. DOMAIN queue = {}
      BY DEF Init
  <2>. QED  BY <2>1, SchedulerAssumption DEF Init, OrderInv, Increasing
<1>2. TypeOK /\ TypeOK' /\ OrderInv /\ [Next]_vars => OrderInv' /\ TakesAlike
    BY OrderStep
<1>3. Spec => [][TakesAlike]_vars
    BY <1>1, <1>2, TypeCorrect, PTL DEF Spec
<1>. QED  BY <1>3, ScopeLimitsUnlessStale, PTL

(***************************************************************************)
(* Waiting runs                                                            *)
(***************************************************************************)

\* An enqueue(r) keeps its place reserved until the push that uses it.
AdmissionInv ==
    /\ \A r \in Runs : enqueue[r].pc \in {"create", "announce"} => r \in admitted
    /\ QueueBounded

LEMMA AdmissionStep ==
    ASSUME TypeOK, TypeOK', AdmissionInv, [Next]_vars
    PROVE  AdmissionInv'
<1>c. /\ IsFiniteSet(admitted) /\ Cardinality(admitted) \in Nat
      /\ MaxQueued \in Nat /\ Len(queue) \in Nat /\ queue \in Seq(QueuedRuns)
    BY SchedulerAssumption, FS_Subset, FS_CardinalityType, LenProperties DEF TypeOK
\* Steps that neither admit nor push a run.
<1>s. ASSUME admitted' = admitted, Len(queue') \in Nat, Len(queue') <= Len(queue),
             \A r \in Runs : enqueue'[r].pc \in {"create", "announce"} =>
                                enqueue[r].pc \in {"create", "announce"}
      PROVE  AdmissionInv'
  <2>1. Len(queue)' = Len(queue') /\ Cardinality(admitted)' = Cardinality(admitted)
    BY <1>s
  <2>. QED  BY <1>s, <1>c, <2>1 DEF AdmissionInv, QueueBounded
<1>1. ASSUME NEW r \in Runs, Admit(r) PROVE AdmissionInv'
  <2>1. CASE HasCapacity(r)
    <3>1. /\ admitted' = admitted \cup {r} /\ queue' = queue
          /\ \A x \in Runs : x # r => enqueue'[x] = enqueue[x]
      BY <1>1, <2>1 DEF Admit, TypeOK
    <3>2. Cardinality(admitted \cup {r}) = IF r \in admitted THEN Cardinality(admitted)
                                           ELSE Cardinality(admitted) + 1
      BY <1>c, FS_AddElement
    <3>3. Len(queue) + Cardinality(admitted) < MaxQueued
      BY <2>1 DEF HasCapacity
    <3>4. QueueBounded'
      BY <1>c, <3>1, <3>2, <3>3 DEF QueueBounded
    <3>. QED  BY <3>1, <3>4 DEF AdmissionInv
  <2>2. CASE ~HasCapacity(r)
    <3>1. \A x \in Runs : enqueue'[x].pc = IF x = r THEN "rejected" ELSE enqueue[x].pc
      BY <1>1, <2>2 DEF Admit, TypeOK, EnqueueLocals
    <3>. QED  BY <1>1, <1>c, <1>s, <2>2, <3>1 DEF Admit
  <2>. QED  BY <2>1, <2>2
<1>2. ASSUME NEW r \in Runs, AnnounceRun(r) PROVE AdmissionInv'
  <2> DEFINE e == [run |-> r, ordinal |-> ordinal, at |-> enqueue[r].at]
  <2>1. e \in QueuedRuns
    BY DEF TypeOK, QueuedRuns, EnqueueLocals
  <2>2. Append(queue, e) \in Seq(QueuedRuns) /\ Len(Append(queue, e)) = Len(queue) + 1
    BY <1>c, <2>1, AppendProperties
  <2>3. Len(queue') = Len(queue) + 1
    BY <1>2, <2>2, SortIntoType DEF AnnounceRun
  <2>4. r \in admitted /\ admitted' = admitted \ {r}
    BY <1>2 DEF AnnounceRun, AdmissionInv
  <2>5. Cardinality(admitted') = Cardinality(admitted) - 1
    BY <1>c, <2>4, FS_RemoveElement
  <2>6. \A x \in Runs : enqueue'[x].pc = IF x = r THEN "refresh" ELSE enqueue[x].pc
    BY <1>2 DEF AnnounceRun, TypeOK, EnqueueLocals
  <2>7. QueueBounded'
    BY <1>c, <2>3, <2>5 DEF AdmissionInv, QueueBounded
  <2>. QED  BY <2>4, <2>6, <2>7 DEF AdmissionInv
<1>3. ASSUME NEW r \in Runs, CreateRun(r) \/ EnqueueReturns(r) \/ EnqueueThrows(r)
      PROVE  AdmissionInv'
  <2>1. UNCHANGED <<admitted, queue>>
    BY <1>3 DEF CreateRun, EnqueueReturns, EnqueueThrows
  <2>2. \A x \in Runs : enqueue'[x].pc \in {"create", "announce"} =>
                          enqueue[x].pc \in {"create", "announce"}
    <3>1. CASE CreateRun(r)
      <4>1. \A x \in Runs : enqueue'[x].pc = IF x = r THEN "announce" ELSE enqueue[x].pc
        BY <3>1 DEF CreateRun, TypeOK, EnqueueLocals
      <4>. QED  BY <3>1, <4>1 DEF CreateRun
    <3>2. CASE EnqueueReturns(r)
      BY <3>2 DEF EnqueueReturns, TypeOK, EnqueueLocals
    <3>3. CASE EnqueueThrows(r)
      BY <3>3 DEF EnqueueThrows, TypeOK, EnqueueLocals
    <3>. QED  BY <1>3, <3>1, <3>2, <3>3
  <2>. QED  BY <1>c, <1>s, <2>1, <2>2
<1>4. ASSUME NEW r \in Runs, Execute(r) PROVE AdmissionInv'
  <2>1. UNCHANGED <<admitted, queue, enqueue>>
    BY <1>4 DEF Execute, ExecuteRead, ExecuteStart, ProviderStarts, ProviderFailsToStart,
                ProviderCompletes, ExecuteAborts, ReleaseSlot
  <2>. QED  BY <1>c, <1>s, <2>1
<1>5. ASSUME NEW r \in Runs, Cancel(r) PROVE AdmissionInv'
  <2>1. UNCHANGED <<admitted, enqueue>>
    BY <1>5 DEF Cancel, CancelRead, CancelQueued, CancelCompletes, CancelReturns, CancelActive
  <2>2. \/ queue' = queue
        \/ \E i \in DOMAIN queue : queue' = WithoutAt(queue, i)
        \/ SortInto(queue)
    BY <1>5 DEF Cancel, CancelRead, CancelQueued, CancelCompletes, CancelReturns,
                CancelActive, Queued
  <2>3. Len(queue') \in Nat /\ Len(queue') <= Len(queue)
    BY <1>c, <2>2, WithoutAtType, SortIntoType, LenProperties
  <2>. QED  BY <1>s, <2>1, <2>3
<1>6. ASSUME NEW c \in Callers, Refresh(c) PROVE AdmissionInv'
  <2>1. UNCHANGED <<admitted, queue, enqueue>>
    BY <1>6 DEF Refresh, RefreshRead, RefreshWrite
  <2>. QED  BY <1>c, <1>s, <2>1
<1>7. CASE Schedule \/ Diagnose
  <2>1. UNCHANGED <<admitted, enqueue>>
    BY <1>7 DEF Schedule, ScheduleLoop, ScheduleProbe, ScheduleReserve, ScheduleStarts,
                ScheduleThrows, Diagnose
  <2>2. \/ queue' = queue
        \/ \E i \in DOMAIN queue : queue' = WithoutAt(queue, i)
        \/ SortInto(queue)
    BY <1>7 DEF Schedule, ScheduleLoop, ScheduleProbe, ScheduleReserve, ScheduleStarts,
                ScheduleThrows, Diagnose
  <2>3. Len(queue') \in Nat /\ Len(queue') <= Len(queue)
    BY <1>c, <2>2, WithoutAtType, SortIntoType, LenProperties
  <2>. QED  BY <1>s, <2>1, <2>3
<1>8. CASE Tick \/ UNCHANGED vars
  <2>1. UNCHANGED <<admitted, queue, enqueue>>
    BY <1>8 DEF Tick, vars
  <2>. QED  BY <1>c, <1>s, <2>1
<1>. QED
  BY <1>1, <1>2, <1>3, <1>4, <1>5, <1>6, <1>7, <1>8, SchedulerAssumption DEF Next, Enqueue

\* The bound on waiting runs holds although the check, the creation of the run and
\* the push are steps of their own.
THEOREM QueueBoundedHolds == Spec => []QueueBounded
<1>1. Init => AdmissionInv
  <2>1. Cardinality({}) = 0
    BY FS_EmptySet
  <2>2. Len(<<>>) = 0
    OBVIOUS
  <2>. QED  BY <2>1, <2>2, SchedulerAssumption DEF Init, AdmissionInv, QueueBounded
<1>2. TypeOK /\ TypeOK' /\ AdmissionInv /\ [Next]_vars => AdmissionInv'
    BY AdmissionStep
<1>3. AdmissionInv => QueueBounded
    BY DEF AdmissionInv
<1>. QED  BY <1>1, <1>2, <1>3, TypeCorrect, PTL DEF Spec

(***************************************************************************)
(* Cancelled runs                                                          *)
(***************************************************************************)

\* A program counter that is written alone.
LEMMA PcUpdates ==
    ASSUME TypeOK, NEW r \in Runs, NEW v
    PROVE  /\ enqueue' = [enqueue EXCEPT ![r].pc = v] =>
                \A x \in Runs : enqueue'[x].pc = IF x = r THEN v ELSE enqueue[x].pc
           /\ cancel' = [cancel EXCEPT ![r].pc = v] =>
                \A x \in Runs : cancel'[x].pc = IF x = r THEN v ELSE cancel[x].pc
           /\ execute' = [execute EXCEPT ![r].pc = v] =>
                \A x \in Runs : execute'[x].pc = IF x = r THEN v ELSE execute[x].pc
BY DEF TypeOK, EnqueueLocals, CancelLocals, ExecuteLocals

\* What update and append make of the states.
LEMMA StateUpdates ==
    ASSUME TypeOK, NEW r \in Runs, NEW to
    PROVE  /\ AppendEvent(r, to) =>
                \A x \in Runs : run'[x].state = IF x = r THEN to ELSE run[x].state
           /\ \A copy, pos : Update(r, copy, to, pos) =>
                \A x \in Runs : run'[x].state = IF x = r THEN to ELSE run[x].state
BY DEF TypeOK, AppendEvent, Update

Requested(r) ==
    \/ r \in RunsOf(queue)
    \/ enqueue[r].pc = "announce"
    \/ cancel[r].pc # "idle"
    \/ execute[r].pc # "none"
    \/ schedule.pc \in {"reserve", "refresh"} /\ schedule.run = r

\* Who waits, is cancelled, is being started or executes is in the store, and
\* the store knows nothing of who has not been created.
StoredInv ==
    /\ \A r \in Runs : Requested(r) => run[r].state # "absent"
    /\ \A r \in Runs : enqueue[r].pc \in {"new", "create"} => run[r].state = "absent"
    /\ \A c \in Callers : refresh[c].pc = "write" =>
        /\ refresh[c].run \in Runs
        /\ refresh[c].copy.state # "absent" /\ run[refresh[c].run].state # "absent"
    /\ \A c \in Callers : refresh[c].pc = "read" =>
        refresh[c].run = NoRun \/ run[refresh[c].run].state # "absent"

\* A step that reads nothing for a renumbering: none gets a copy, and one that goes
\* on asks for a run of the array.
NothingRead ==
    \A c \in Callers :
        /\ refresh'[c].pc = "write" => refresh'[c] = refresh[c]
        /\ refresh'[c].pc = "read" =>
            refresh'[c] = refresh[c] \/ refresh'[c].run \in RunsOf(queue') \cup {NoRun}

LEMMA StoredInit == Init => StoredInv
<1> SUFFICES ASSUME Init PROVE StoredInv
    OBVIOUS
<1>1. RunsOf(queue) = {}
    BY DEF Init, RunsOf
<1>. QED  BY <1>1 DEF Init, StoredInv, Requested, Absent, NotRefreshing

LEMMA StoredStep ==
    ASSUME TypeOK, TypeOK', PlaceInv, StoredInv, [Next]_vars
    PROVE  StoredInv'
<1>q. /\ queue \in Seq(QueuedRuns) /\ run \in [Runs -> Snapshots]
      /\ enqueue \in [Runs -> EnqueueLocals] /\ cancel \in [Runs -> CancelLocals]
      /\ execute \in [Runs -> ExecuteLocals] /\ refresh \in [Callers -> RefreshLocals]
    BY DEF TypeOK
\* Steps that ask for no run, create none, and read none.
<1>s. ASSUME \A r \in Runs : Requested(r)' => Requested(r) \/ run'[r].state # "absent",
             \A r \in Runs : run[r].state = "absent" <=> run'[r].state = "absent",
             \A r \in Runs : enqueue'[r].pc \in {"new", "create"} =>
                                enqueue[r].pc \in {"new", "create"},
             NothingRead
      PROVE  StoredInv'
  <2>1. \A r \in Runs : Requested(r)' => run'[r].state # "absent"
      BY <1>s DEF StoredInv
  <2>2. \A r \in Runs : enqueue'[r].pc \in {"new", "create"} => run'[r].state = "absent"
      BY <1>s DEF StoredInv
  <2>3. \A c \in Callers : refresh'[c].pc = "write" =>
          /\ refresh'[c].run \in Runs
          /\ refresh'[c].copy.state # "absent" /\ run'[refresh'[c].run].state # "absent"
      BY <1>s DEF StoredInv, NothingRead
  <2>4. ASSUME NEW c \in Callers, refresh'[c].pc = "read", refresh'[c].run # NoRun
        PROVE  run'[refresh'[c].run].state # "absent"
    <3>1. refresh'[c].run \in Runs
        BY <2>4 DEF TypeOK, RefreshLocals
    <3>2. CASE refresh'[c] = refresh[c]
        BY <1>s, <2>4, <3>1, <3>2 DEF StoredInv
    <3>3. CASE refresh'[c].run \in RunsOf(queue')
        BY <2>1, <3>1, <3>3 DEF Requested
    <3>. QED  BY <1>s, <2>4, <3>2, <3>3 DEF NothingRead
  <2>. QED  BY <2>1, <2>2, <2>3, <2>4 DEF StoredInv
<1>n. ASSUME NEW c \in Callers, StartRefresh(c) \/ EndRefresh(c)
      PROVE  NothingRead
  <2>1. 1 \in DOMAIN queue' => queue'[1].run \in RunsOf(queue')
      BY DEF RunsOf
  <2>. QED  BY <1>n, <1>q, <2>1 DEF StartRefresh, EndRefresh, Reading, NotRefreshing, NothingRead
<1>u. ASSUME UNCHANGED refresh PROVE NothingRead
    BY <1>u DEF NothingRead
<1>c. \A r \in Runs : <<"enqueue", r>> \in Callers /\ <<"cancel", r>> \in Callers
    BY DEF Callers
<1>l. Loop \in Callers
    BY DEF Callers
<1>w. ASSUME CallSchedule
      PROVE  schedule'.pc \in {"reserve", "refresh"} => schedule' = schedule
    BY <1>w DEF CallSchedule, TypeOK, ScheduleLocals
<1>1. ASSUME NEW r \in Runs, Admit(r) PROVE StoredInv'
  <2>1. /\ enqueue[r].pc = "new"
        /\ \A x \in Runs : /\ x # r => enqueue'[x] = enqueue[x]
                           /\ enqueue'[r].pc \in {"create", "rejected"}
      BY <1>1, <1>q DEF Admit, EnqueueLocals
  <2>2. UNCHANGED <<run, queue, cancel, execute, schedule, refresh>>
      BY <1>1 DEF Admit
  <2>. QED  BY <1>s, <1>u, <2>1, <2>2 DEF Requested
<1>2. ASSUME NEW r \in Runs, CreateRun(r) PROVE StoredInv'
  <2>1. /\ \A x \in Runs : enqueue'[x].pc = IF x = r THEN "announce" ELSE enqueue[x].pc
        /\ enqueue[r].pc = "create"
    <3>1. enqueue' = [enqueue EXCEPT ![r].pc = "announce"] /\ enqueue[r].pc = "create"
        BY <1>2 DEF CreateRun
    <3>2. \A x \in Runs : enqueue'[x].pc = IF x = r THEN "announce" ELSE enqueue[x].pc
        BY <1>q, <3>1 DEF EnqueueLocals
    <3>. QED  BY <3>1, <3>2
  <2>2. \A x \in Runs : run'[x].state = IF x = r THEN "queued" ELSE run[x].state
      BY <1>2, <1>q DEF CreateRun
  <2>3. UNCHANGED <<queue, cancel, execute, schedule, refresh>>
      BY <1>2 DEF CreateRun
  <2>4. \A x \in Runs : Requested(x)' => Requested(x) \/ x = r
      BY <2>1, <2>3 DEF Requested
  <2>5. \A c \in Callers : refresh'[c].pc = "read" =>
          refresh'[c].run = NoRun \/ run'[refresh'[c].run].state # "absent"
    <3>1. \A c \in Callers : refresh[c].run \in Runs \cup {NoRun}
        BY <1>q DEF RefreshLocals
    <3>. QED  BY <2>2, <2>3, <3>1 DEF StoredInv
  <2>. QED  BY <2>1, <2>2, <2>3, <2>4, <2>5 DEF StoredInv
<1>3. ASSUME NEW r \in Runs, AnnounceRun(r) PROVE StoredInv'
  <2> DEFINE e == [run |-> r, ordinal |-> ordinal, at |-> enqueue[r].at]
             longer == Append(queue, e)
  <2>1. e \in QueuedRuns /\ e.run = r
      BY <1>q DEF QueuedRuns, EnqueueLocals, TypeOK
  <2>2. SortInto(longer) /\ UNCHANGED <<cancel, execute, schedule>>
      BY <1>3 DEF AnnounceRun
  <2>3. /\ enqueue[r].pc = "announce"
        /\ \A x \in Runs : enqueue'[x].pc = IF x = r THEN "refresh" ELSE enqueue[x].pc
    <3>1. enqueue' = [enqueue EXCEPT ![r].pc = "refresh"] /\ enqueue[r].pc = "announce"
        BY <1>3 DEF AnnounceRun
    <3>2. \A x \in Runs : enqueue'[x].pc = IF x = r THEN "refresh" ELSE enqueue[x].pc
        BY <1>q, <3>1 DEF EnqueueLocals
    <3>. QED  BY <3>1, <3>2
  <2>. HIDE DEF e
  <2>4. longer \in Seq(QueuedRuns) /\ RunsOf(longer) = RunsOf(queue) \cup {r}
      BY <1>q, <2>1, AppendRuns, AppendProperties
  <2>. HIDE DEF longer
  <2>5. RunsOf(queue') = RunsOf(queue) \cup {r}
      BY <2>2, <2>4, SortIntoRuns
  <2>6. \A x \in Runs : Requested(x)' => Requested(x)
      BY <2>2, <2>3, <2>5 DEF Requested
  <2>7. \A x \in Runs : run'[x].state = run[x].state
      BY <1>3, StateUpdates DEF AnnounceRun
  <2>8. NothingRead
      BY <1>3, <1>c, <1>n DEF AnnounceRun
  <2>. QED  BY <1>s, <2>3, <2>6, <2>7, <2>8
<1>4. ASSUME NEW r \in Runs, EnqueueReturns(r) \/ EnqueueThrows(r) PROVE StoredInv'
  <2>1. PICK v \in {"returned", "rejected"} :
          \A x \in Runs : enqueue'[x].pc = IF x = r THEN v ELSE enqueue[x].pc
      BY <1>4, PcUpdates DEF EnqueueReturns, EnqueueThrows
  <2>2. /\ UNCHANGED <<run, queue, cancel, execute>> /\ EndRefresh(<<"enqueue", r>>)
        /\ CallSchedule \/ schedule' = schedule
      BY <1>4 DEF EnqueueReturns, EnqueueThrows
  <2>3. schedule'.pc \in {"reserve", "refresh"} => schedule' = schedule
      BY <1>w, <2>2
  <2>4. NothingRead
      BY <1>c, <1>n, <2>2
  <2>5. \A x \in Runs : Requested(x)' => Requested(x)
      BY <2>1, <2>2, <2>3 DEF Requested
  <2>. QED  BY <1>s, <2>1, <2>2, <2>4, <2>5
<1>5. ASSUME NEW r \in Runs, Execute(r) PROVE StoredInv'
  <2>1. /\ execute[r].pc # "none" /\ UNCHANGED <<queue, enqueue, cancel, refresh>>
        /\ \A x \in Runs : x # r => execute'[x] = execute[x]
      BY <1>5, <1>q DEF Execute, ExecuteRead, ExecuteStart, ProviderStarts,
         ProviderFailsToStart, ProviderCompletes, ExecuteAborts, ReleaseSlot
  <2>2. CallSchedule \/ schedule' = schedule
      BY <1>5 DEF Execute, ExecuteRead, ExecuteStart, ProviderStarts,
         ProviderFailsToStart, ProviderCompletes, ExecuteAborts, ReleaseSlot
  <2>3. schedule'.pc \in {"reserve", "refresh"} => schedule' = schedule
      BY <1>w, <2>2
  <2>4. run[r].state # "absent"
      BY <2>1 DEF StoredInv, Requested
  <2>5. \/ run' = run
        \/ \E to \in {run[r].state, "starting", "cancelled", "succeeded", "failed",
                      StateAfterEvent(run[r].state, [kind |-> "process_started"])} :
             \/ AppendEvent(r, to)
             \/ \E copy, pos : Update(r, copy, to, pos)
      BY <1>5 DEF Execute, ExecuteRead, ExecuteStart, ProviderStarts,
         ProviderFailsToStart, ProviderCompletes, ExecuteAborts, ReleaseSlot
  <2>6. StateAfterEvent(run[r].state, [kind |-> "process_started"]) # "absent"
      BY <2>4 DEF StateAfterEvent
  <2>7. \A x \in Runs : x # r => run'[x].state = run[x].state
      BY <2>5, StateUpdates
  <2>8. run'[r].state # "absent"
      BY <2>4, <2>5, <2>6, StateUpdates
  <2>9. \A x \in Runs : Requested(x)' => Requested(x) \/ x = r
      BY <2>1, <2>3 DEF Requested
  <2>. QED  BY <1>s, <1>u, <2>1, <2>4, <2>7, <2>8, <2>9
<1>6. ASSUME NEW r \in Runs, CancelRead(r) PROVE StoredInv'
  <2>1. /\ run[r].state # "absent" /\ UNCHANGED <<run, enqueue, execute, schedule, refresh>>
        /\ \A x \in Runs : x # r => cancel'[x] = cancel[x]
      BY <1>6, <1>q DEF CancelRead
  <2>2. RunsOf(queue') \subseteq RunsOf(queue)
      BY <1>6, <1>q, WithoutAtRuns DEF CancelRead, Queued
  <2>3. \A x \in Runs : Requested(x)' => Requested(x) \/ x = r
      BY <2>1, <2>2 DEF Requested
  <2>. QED  BY <1>s, <1>u, <2>1, <2>3
<1>7. ASSUME NEW r \in Runs, Cancel(r), ~CancelRead(r) PROVE StoredInv'
  <2>1. /\ cancel[r].pc # "idle" /\ UNCHANGED <<enqueue, execute, schedule>>
        /\ \A x \in Runs : x # r => cancel'[x] = cancel[x]
      BY <1>7, <1>q DEF Cancel, CancelQueued, CancelCompletes, CancelReturns, CancelActive
  <2>2. queue' = queue \/ SortInto(queue)
      BY <1>7 DEF Cancel, CancelQueued, CancelCompletes, CancelReturns, CancelActive
  <2>3. RunsOf(queue') \subseteq RunsOf(queue)
      BY <1>q, <2>2, SortIntoRuns
  <2>4. run[r].state # "absent"
      BY <2>1 DEF StoredInv, Requested
  <2>5. \/ run' = run
        \/ \E to \in {run[r].state, "cancelled", "cancelling"} :
             \/ AppendEvent(r, to)
             \/ \E copy, pos : Update(r, copy, to, pos)
      BY <1>7 DEF Cancel, CancelQueued, CancelCompletes, CancelReturns, CancelActive
  <2>6. run'[r].state # "absent" /\ \A x \in Runs : x # r => run'[x].state = run[x].state
    <3>1. CASE run' = run
        BY <2>4, <3>1
    <3>2. ASSUME NEW to \in {run[r].state, "cancelled", "cancelling"},
                 AppendEvent(r, to) \/ \E copy, pos : Update(r, copy, to, pos)
          PROVE  \A x \in Runs : run'[x].state = IF x = r THEN to ELSE run[x].state
        BY <3>2, StateUpdates
    <3>3. \A to \in {run[r].state, "cancelled", "cancelling"} : to # "absent"
        BY <2>4
    <3>. QED  BY <2>5, <3>1, <3>2, <3>3
  <2>7. \/ refresh' = refresh
        \/ StartRefresh(<<"cancel", r>>)
        \/ EndRefresh(<<"cancel", r>>)
      BY <1>7 DEF Cancel, CancelQueued, CancelCompletes, CancelReturns, CancelActive
  <2>8. NothingRead
      BY <1>c, <1>n, <1>u, <2>7
  <2>9. \A x \in Runs : Requested(x)' => Requested(x) \/ x = r
      BY <2>1, <2>3 DEF Requested
  <2>. QED  BY <1>s, <2>1, <2>4, <2>6, <2>8, <2>9
<1>8. ASSUME NEW c \in Callers, RefreshRead(c) PROVE StoredInv'
  <2> DEFINE i == refresh[c].i
             r == refresh[c].run
             next == Reading(i + 1, queue)
  <2>1. /\ refresh[c].pc = "read" /\ r # NoRun
        /\ refresh' \in {[refresh EXCEPT ![c] = next],
                         [refresh EXCEPT ![c] = [pc |-> "write", i |-> i, run |-> r,
                                                 copy |-> run[r]]]}
        /\ UNCHANGED <<run, queue, enqueue, cancel, execute, schedule>>
      BY <1>8 DEF RefreshRead
  <2>2. r \in Runs /\ run[r].state # "absent"
      BY <1>q, <2>1 DEF StoredInv, RefreshLocals
  <2>3. next.pc = "read" /\ next.run \in RunsOf(queue) \cup {NoRun}
    <3>1. i + 1 \in DOMAIN queue => queue[i + 1].run \in RunsOf(queue)
        BY DEF RunsOf
    <3>. QED  BY <3>1 DEF Reading
  <2>. HIDE DEF r, i, next
  <2>4. \A d \in Callers :
          \/ refresh'[d] = refresh[d]
          \/ refresh'[d] = next
          \/ refresh'[d].pc = "write" /\ refresh'[d].run = r /\ refresh'[d].copy = run[r]
      BY <1>q, <2>1
  <2>5. \A d \in Callers : refresh'[d].pc = "write" =>
          /\ refresh'[d].run \in Runs
          /\ refresh'[d].copy.state # "absent" /\ run'[refresh'[d].run].state # "absent"
      BY <2>1, <2>2, <2>3, <2>4 DEF StoredInv
  <2>6. \A x \in RunsOf(queue) \cap Runs : run[x].state # "absent"
      BY DEF StoredInv, Requested
  <2>7. next.run \in Runs \cup {NoRun}
    <3>1. refresh[c] \in RefreshLocals
        BY <1>q
    <3>2. i \in Nat
        BY <3>1 DEF i, RefreshLocals
    <3>3. i + 1 \in Nat
        BY <3>2
    <3>4. Reading(i + 1, queue) \in RefreshLocals
        BY <1>q, <3>3, ReadingType
    <3>. QED  BY <3>4 DEF next, RefreshLocals
  <2>8. \A d \in Callers : refresh'[d].pc = "read" =>
          refresh'[d].run = NoRun \/ run'[refresh'[d].run].state # "absent"
      BY <2>1, <2>3, <2>4, <2>6, <2>7 DEF StoredInv
  <2>9. \A x \in Runs : Requested(x)' <=> Requested(x)
      BY <2>1 DEF Requested
  <2>. QED  BY <2>1, <2>5, <2>8, <2>9 DEF StoredInv
<1>9. ASSUME NEW c \in Callers, RefreshWrite(c) PROVE StoredInv'
  <2> DEFINE r == refresh[c].run
             s == refresh[c].copy.state
  <2>1. UNCHANGED <<queue, enqueue, cancel, execute, schedule>> /\ refresh[c].pc = "write"
      BY <1>9 DEF RefreshWrite
  <2>2. /\ r \in Runs /\ s # "absent" /\ run[r].state # "absent"
      BY <2>1 DEF StoredInv
  <2>3. \/ run' = run
        \/ \E copy, pos : Update(r, copy, s, pos)
      BY <1>9 DEF RefreshWrite
  <2>. HIDE DEF r, s
  <2>4. \A x \in Runs : run'[x].state = run[x].state \/ (x = r /\ run'[x].state = s)
      BY <2>2, <2>3, StateUpdates
  <2>5. NothingRead
    <3>1. refresh[c].i + 1 \in DOMAIN queue' => queue'[refresh[c].i + 1].run \in RunsOf(queue')
        BY DEF RunsOf
    <3>. QED  BY <1>9, <1>q, <2>1, <3>1 DEF RefreshWrite, Reading, Thrown, NothingRead
  <2>6. \A x \in Runs : Requested(x)' <=> Requested(x)
      BY <2>1 DEF Requested
  <2>. QED  BY <1>s, <2>1, <2>2, <2>4, <2>5, <2>6
<1>10. CASE ScheduleProbe
  <2>1. UNCHANGED <<run, enqueue, cancel, execute, refresh>>
      BY <1>10 DEF ScheduleProbe
  <2>2. RunsOf(queue') \subseteq RunsOf(queue)
      BY <1>10, <1>q, WithoutAtRuns DEF ScheduleProbe
  <2>3. schedule'.pc \in {"reserve", "refresh"} => schedule'.run \in RunsOf(queue)
    <3>1. schedule'.pc \in {"reserve", "refresh"} =>
            \E i \in DOMAIN queue : schedule'.run = queue[i].run
        BY <1>10 DEF ScheduleProbe
    <3>. QED  BY <3>1, Zenon DEF RunsOf
  <2>4. \A x \in Runs : Requested(x)' => Requested(x)
      BY <2>1, <2>2, <2>3 DEF Requested
  <2>. QED  BY <1>s, <1>u, <2>1, <2>4
<1>11. CASE ScheduleLoop \/ ScheduleReserve \/ Diagnose \/ Tick
  <2>1. UNCHANGED <<run, enqueue, cancel, execute>> /\ (queue' = queue \/ SortInto(queue))
      BY <1>11 DEF ScheduleLoop, ScheduleReserve, Diagnose, Tick
  <2>2. RunsOf(queue') \subseteq RunsOf(queue)
      BY <1>q, <2>1, SortIntoRuns
  <2>3. NothingRead
      BY <1>11, <1>l, <1>n, <1>u DEF ScheduleLoop, ScheduleReserve, Diagnose, Tick
  <2>4. schedule'.pc \in {"reserve", "refresh"} =>
          schedule.pc \in {"reserve", "refresh"} /\ schedule'.run = schedule.run
      BY <1>11 DEF ScheduleLoop, ScheduleReserve, Diagnose, Tick, TypeOK, ScheduleLocals
  <2>5. \A x \in Runs : Requested(x)' => Requested(x)
      BY <2>1, <2>2, <2>4 DEF Requested
  <2>. QED  BY <1>s, <2>1, <2>3, <2>5
<1>12. CASE ScheduleStarts
  <2>1. /\ UNCHANGED <<run, queue, enqueue, cancel>> /\ EndRefresh(Loop)
        /\ schedule.pc = "refresh" /\ schedule'.pc = "loop"
      BY <1>12 DEF ScheduleStarts
  <2>2. \A x \in Runs : x # schedule.run => execute'[x] = execute[x]
      BY <1>12, <1>q DEF ScheduleStarts
  <2>3. NothingRead
      BY <1>l, <1>n, <2>1
  <2>4. \A x \in Runs : Requested(x)' => Requested(x)
      BY <2>1, <2>2 DEF Requested
  <2>. QED  BY <1>s, <2>1, <2>3, <2>4
<1>13. CASE ScheduleThrows
  <2>1. UNCHANGED <<run, queue, enqueue, cancel, execute>> /\ EndRefresh(Loop) /\ schedule'.pc = "ended"
      BY <1>13 DEF ScheduleThrows
  <2>2. NothingRead
      BY <1>l, <1>n, <2>1
  <2>3. \A x \in Runs : Requested(x)' => Requested(x)
      BY <2>1 DEF Requested
  <2>. QED  BY <1>s, <2>1, <2>2, <2>3
<1>14. CASE UNCHANGED vars
  <2>1. \A x \in Runs : Requested(x)' <=> Requested(x)
      BY <1>14 DEF vars, Requested
  <2>. QED  BY <1>14, <1>s, <1>u, <2>1 DEF vars
<1>. QED
  BY <1>1, <1>2, <1>3, <1>4, <1>5, <1>6, <1>7, <1>8, <1>9, <1>10, <1>11, <1>12, <1>13,
     <1>14, SchedulerAssumption
  DEF Next, Enqueue, Schedule, Refresh

Reached ==
    {"absent", "queued", "starting", "running", "cancelling", "cancelled", "succeeded", "failed"}

Engaged == {"starting", "running", "cancelling"}

\* The transitions the store accepts between the states the queue knows.
LEMMA Transitions ==
    ASSUME NEW s \in Reached \ {"absent"}, NEW t \in Reached \ {"absent"}, CanTransition(s, t)
    PROVE  /\ s \in Terminal => t \in Terminal
           /\ t = "cancelled" => s \in {"queued", "cancelling", "cancelled"}
           /\ t = "starting" => s \in {"queued", "starting"}
           /\ s \in Engaged => t \in Engaged \cup Terminal
<1>1. s \in AgentStates
    BY DEF Reached, AgentStates, Terminal
<1>2. t = s \/ t \in Allowed[s]
    BY DEF CanTransition
<1>. QED
    BY <1>1, <1>2 DEF Allowed, Reached, Terminal, Engaged, Waiting

\* The provider is at work for a run that is in an engaged state only; a state
\* cancelling comes from cancel(r) alone; and a copy that refreshQueuePositions()
\* is about to write back is over only if the run is.
CancelInv ==
    /\ \A r \in Runs :
        /\ run[r].state \in Reached
        /\ execute[r].pc \in {"work", "running"} => run[r].state \in Engaged
        /\ cancel[r].pc \in {"idle", "cancelled"} => run[r].state # "cancelling"
    /\ \A c \in Callers : refresh[c].pc = "write" =>
        /\ refresh[c].copy.state \in Reached
        /\ refresh[c].copy.state \in Terminal => run[refresh[c].run].state \in Terminal
        /\ cancel[refresh[c].run].pc \in {"idle", "cancelled"} =>
                refresh[c].copy.state # "cancelling"

LEMMA CancelInit == Init => CancelInv
<1> SUFFICES ASSUME Init PROVE CancelInv
    OBVIOUS
<1>. QED  BY DEF Init, CancelInv, Reached, Absent, NotRefreshing

LEMMA CancelStep ==
    ASSUME TypeOK, TypeOK', PlaceInv, StoredInv, StoredInv', CancelInv, [Next]_vars
    PROVE  CancelInv'
<1>q. /\ run \in [Runs -> Snapshots] /\ cancel \in [Runs -> CancelLocals]
      /\ execute \in [Runs -> ExecuteLocals] /\ refresh \in [Callers -> RefreshLocals]
    BY DEF TypeOK
\* What a step may make of the state of one run; the copies are the old ones.
<1>s. ASSUME \A r \in Runs :
                /\ run'[r].state \in Reached
                /\ run[r].state \in Terminal => run'[r].state \in Terminal
                /\ execute'[r].pc \in {"work", "running"} => run'[r].state \in Engaged
                /\ cancel'[r].pc \in {"idle", "cancelled"} =>
                        cancel[r].pc \in {"idle", "cancelled"} /\ run'[r].state # "cancelling",
             \A c \in Callers : refresh'[c].pc = "write" => refresh'[c] = refresh[c]
      PROVE  CancelInv'
  <2>1. ASSUME NEW c \in Callers, refresh'[c].pc = "write"
        PROVE  /\ refresh'[c].copy.state \in Reached
               /\ refresh'[c].copy.state \in Terminal => run'[refresh'[c].run].state \in Terminal
               /\ cancel'[refresh'[c].run].pc \in {"idle", "cancelled"} =>
                        refresh'[c].copy.state # "cancelling"
    <3>1. refresh'[c] = refresh[c] /\ refresh[c].pc = "write" /\ refresh[c].run \in Runs
        BY <1>s, <2>1 DEF StoredInv
    <3>. QED  BY <1>s, <3>1 DEF CancelInv
  <2>. QED  BY <1>s, <2>1 DEF CancelInv
\* A step that moves the state of one run, and nobody else's.
<1>m. ASSUME NEW r \in Runs, NEW to \in Reached,
             \A x \in Runs : run'[x].state = IF x = r THEN to ELSE run[x].state,
             run[r].state \in Terminal => to \in Terminal,
             execute'[r].pc \in {"work", "running"} => to \in Engaged,
             \A x \in Runs \ {r} : execute'[x] = execute[x] /\ cancel'[x] = cancel[x],
             cancel'[r].pc \in {"idle", "cancelled"} =>
                cancel[r].pc \in {"idle", "cancelled"} /\ to # "cancelling",
             \A c \in Callers : refresh'[c].pc = "write" => refresh'[c] = refresh[c]
      PROVE  CancelInv'
  <2>1. ASSUME NEW x \in Runs
        PROVE  /\ run'[x].state \in Reached
               /\ run[x].state \in Terminal => run'[x].state \in Terminal
               /\ execute'[x].pc \in {"work", "running"} => run'[x].state \in Engaged
               /\ cancel'[x].pc \in {"idle", "cancelled"} =>
                    cancel[x].pc \in {"idle", "cancelled"} /\ run'[x].state # "cancelling"
    <3>1. CASE x = r
        BY <1>m, <3>1
    <3>2. CASE x # r
        BY <1>m, <3>2 DEF CancelInv
    <3>. QED  BY <3>1, <3>2
  <2>. QED  BY <1>m, <1>s, <2>1
<1>n. ASSUME NEW c \in Callers, StartRefresh(c) \/ EndRefresh(c)
      PROVE  \A d \in Callers : refresh'[d].pc = "write" => refresh'[d] = refresh[d]
    BY <1>n, <1>q DEF StartRefresh, EndRefresh, Reading, NotRefreshing
<1>c. \A r \in Runs : <<"enqueue", r>> \in Callers /\ <<"cancel", r>> \in Callers
    BY DEF Callers
<1>l. Loop \in Callers
    BY DEF Callers
<1>1. ASSUME NEW r \in Runs, CreateRun(r) PROVE CancelInv'
  <2>1. \A x \in Runs : run'[x].state = IF x = r THEN "queued" ELSE run[x].state
      BY <1>1, <1>q DEF CreateRun
  <2>2. UNCHANGED <<cancel, execute, refresh>> /\ enqueue[r].pc = "create"
      BY <1>1 DEF CreateRun
  <2>3. execute[r].pc = "none" /\ run[r].state = "absent"
      BY <2>2 DEF PlaceInv, StoredInv
  <2>4. "queued" \in Reached /\ "queued" # "cancelling" /\ "absent" \notin Terminal
      BY DEF Reached, Terminal
  <2>. QED  BY <1>m, <2>1, <2>2, <2>3, <2>4
<1>2. ASSUME NEW r \in Runs,
             Admit(r) \/ AnnounceRun(r) \/ EnqueueReturns(r) \/ EnqueueThrows(r)
      PROVE  CancelInv'
  <2>1. \A x \in Runs : run'[x].state = run[x].state
      BY <1>2, StateUpdates DEF Admit, AnnounceRun, EnqueueReturns, EnqueueThrows
  <2>2. UNCHANGED <<cancel, execute>>
      BY <1>2 DEF Admit, AnnounceRun, EnqueueReturns, EnqueueThrows
  <2>3. \/ refresh' = refresh
        \/ StartRefresh(<<"enqueue", r>>)
        \/ EndRefresh(<<"enqueue", r>>)
      BY <1>2 DEF Admit, AnnounceRun, EnqueueReturns, EnqueueThrows
  <2>4. \A d \in Callers : refresh'[d].pc = "write" => refresh'[d] = refresh[d]
      BY <1>c, <1>n, <2>3
  <2>. QED  BY <1>s, <2>1, <2>2, <2>4 DEF CancelInv
<1>3. ASSUME NEW r \in Runs, Execute(r) PROVE CancelInv'
  <2>1. /\ execute[r].pc # "none" /\ UNCHANGED <<cancel, refresh>>
        /\ \A x \in Runs \ {r} : execute'[x] = execute[x]
      BY <1>3, <1>q DEF Execute, ExecuteRead, ExecuteStart, ProviderStarts,
         ProviderFailsToStart, ProviderCompletes, ExecuteAborts, ReleaseSlot
  <2>2. run[r].state \in Reached \ {"absent"}
      BY <2>1 DEF CancelInv, StoredInv, Requested
  <2>3. \A to \in Reached :
          /\ \A x \in Runs : run'[x].state = IF x = r THEN to ELSE run[x].state
          /\ run[r].state \in Terminal => to \in Terminal
          /\ execute'[r].pc \in {"work", "running"} => to \in Engaged
          /\ to # "cancelling" \/ to = run[r].state
          => CancelInv'
    <3>1. cancel[r].pc \in {"idle", "cancelled"} => run[r].state # "cancelling"
        BY DEF CancelInv
    <3>. QED  BY <1>m, <2>1, <3>1
  <2>4. ASSUME \A x \in Runs : run'[x].state = run[x].state,
               execute'[r].pc \in {"work", "running"} => run[r].state \in Engaged
        PROVE  CancelInv'
      BY <2>2, <2>3, <2>4
  <2>5. CASE ExecuteRead(r)
    <3>1. \A x \in Runs : run'[x].state = run[x].state
        BY <2>5, StateUpdates DEF ExecuteRead
    <3>2. execute'[r].pc \in {"start", "abort"}
        BY <2>5, <1>q DEF ExecuteRead, ExecuteLocals
    <3>. QED  BY <2>4, <3>1, <3>2
  <2>6. CASE ExecuteStart(r)
    <3>1. CASE UpdateAccepted(r, execute[r].copy, "starting")
      <4>1. \A x \in Runs : run'[x].state = IF x = r THEN "starting" ELSE run[x].state
          BY <2>6, <3>1, StateUpdates DEF ExecuteStart
      <4>2. "starting" \in Reached \ {"absent"} /\ "starting" \in Engaged /\ "starting" # "cancelling"
          BY DEF Reached, Engaged
      <4>3. run[r].state \in Terminal => "starting" \in Terminal
          BY <2>2, <3>1, <4>2, Transitions DEF UpdateAccepted
      <4>. QED  BY <2>3, <4>1, <4>2, <4>3
    <3>2. CASE ~UpdateAccepted(r, execute[r].copy, "starting")
      <4>1. run' = run /\ execute'[r].pc = "abort"
          BY <2>6, <3>2, <1>q DEF ExecuteStart, ExecuteLocals
      <4>. QED  BY <2>4, <4>1
    <3>. QED  BY <3>1, <3>2
  <2>7. CASE ProviderStarts(r)
    <3> DEFINE to == StateAfterEvent(run[r].state, [kind |-> "process_started"])
    <3>1. \A x \in Runs : run'[x].state = IF x = r THEN to ELSE run[x].state
        BY <2>7, StateUpdates DEF ProviderStarts
    <3>2. run[r].state \in Engaged
        BY <2>7 DEF ProviderStarts, CancelInv
    <3>3. to = IF run[r].state = "starting" THEN "running" ELSE run[r].state
        BY <3>2 DEF Engaged, StateAfterEvent, Terminal
    <3>. HIDE DEF to
    <3>4. to \in Engaged /\ to \in Reached /\ run[r].state \notin Terminal
        BY <3>2, <3>3 DEF Engaged, Reached, Terminal
    <3>5. to # "cancelling" \/ to = run[r].state
        BY <3>3
    <3>. QED  BY <2>3, <3>1, <3>4, <3>5
  <2>8. CASE ProviderCompletes(r) \/ ExecuteAborts(r)
    <3>1. CASE run' = run
      <4>1. execute'[r].pc = "finally"
          BY <2>8, <1>q DEF ProviderCompletes, ExecuteAborts, ExecuteLocals
      <4>. QED  BY <2>4, <3>1, <4>1
    <3>2. ASSUME NEW to \in {"cancelled", "succeeded", "failed"}, AppendEvent(r, to)
          PROVE  CancelInv'
      <4>1. \A x \in Runs : run'[x].state = IF x = r THEN to ELSE run[x].state
          BY <3>2, StateUpdates
      <4>2. execute'[r].pc = "finally"
          BY <2>8, <1>q DEF ProviderCompletes, ExecuteAborts, ExecuteLocals
      <4>3. to \in Reached /\ to \in Terminal /\ to # "cancelling"
          BY DEF Reached, Terminal
      <4>. QED  BY <2>3, <4>1, <4>2, <4>3
    <3>. QED  BY <2>8, <3>1, <3>2 DEF ProviderCompletes, ExecuteAborts
  <2>9. CASE ProviderFailsToStart(r) \/ ReleaseSlot(r)
    <3>1. run' = run /\ execute'[r].pc \in {"abort", "done"}
        BY <2>9, <1>q DEF ProviderFailsToStart, ReleaseSlot, ExecuteLocals
    <3>. QED  BY <2>4, <3>1
  <2>. QED  BY <1>3, <2>5, <2>6, <2>7, <2>8, <2>9 DEF Execute
<1>4. ASSUME NEW r \in Runs, CancelQueued(r) \/ CancelActive(r) PROVE CancelInv'
  <2>1. /\ cancel[r].pc \in {"cancelled", "cancelling"} /\ UNCHANGED <<execute, refresh>>
        /\ cancel'[r].pc \notin {"idle", "cancelled"}
        /\ \A x \in Runs \ {r} : cancel'[x] = cancel[x]
      BY <1>4, <1>q DEF CancelQueued, CancelActive, CancelLocals
  <2>2. run[r].state \in Reached \ {"absent"}
      BY <2>1 DEF CancelInv, StoredInv, Requested
  <2>3. CASE run' = run
      BY <1>s, <2>1, <2>3 DEF CancelInv
  <2>4. CASE run' # run /\ CancelQueued(r)
    <3>1. /\ cancel[r].pc = "cancelled" /\ CanTransition(run[r].state, "cancelled")
          /\ Update(r, cancel[r].copy, "cancelled", cancel[r].copy.pos)
        BY <2>4 DEF CancelQueued, UpdateAccepted
    <3>2. \A x \in Runs : run'[x].state = IF x = r THEN "cancelled" ELSE run[x].state
        BY <3>1, StateUpdates
    <3>3. "cancelled" \in Reached \ {"absent"} /\ "cancelled" \in Terminal
        BY DEF Reached, Terminal
    <3>4. run[r].state \in {"queued", "cancelled"}
        BY <2>2, <3>1, <3>3, Transitions DEF CancelInv
    <3>5. execute'[r].pc \notin {"work", "running"}
        BY <2>1, <3>4 DEF CancelInv, Engaged
    <3>. QED  BY <1>m, <2>1, <3>2, <3>3, <3>5
  <2>5. CASE run' # run /\ CancelActive(r)
    <3>1. /\ CanTransition(run[r].state, "cancelling")
          /\ Update(r, cancel[r].copy, "cancelling", cancel[r].copy.pos)
        BY <2>5 DEF CancelActive, UpdateAccepted
    <3>2. \A x \in Runs : run'[x].state = IF x = r THEN "cancelling" ELSE run[x].state
        BY <3>1, StateUpdates
    <3>3. "cancelling" \in Reached \ {"absent"} /\ "cancelling" \in Engaged
        BY DEF Reached, Engaged
    <3>4. run[r].state \in Terminal => "cancelling" \in Terminal
        BY <2>2, <3>1, <3>3, Transitions
    <3>. QED  BY <1>m, <2>1, <3>2, <3>3, <3>4
  <2>. QED  BY <1>4, <2>3, <2>4, <2>5
<1>5. ASSUME NEW r \in Runs, CancelRead(r) \/ CancelCompletes(r) \/ CancelReturns(r)
      PROVE  CancelInv'
  <2>1. \A x \in Runs : run'[x].state = run[x].state
      BY <1>5, StateUpdates DEF CancelRead, CancelCompletes, CancelReturns
  <2>2. /\ execute' = execute
        /\ cancel'[r].pc \in {"idle", "cancelled"} => cancel[r].pc \in {"idle", "cancelled"}
        /\ \A x \in Runs \ {r} : cancel'[x] = cancel[x]
      BY <1>5, <1>q DEF CancelRead, CancelCompletes, CancelReturns, CancelLocals
  <2>3. \/ refresh' = refresh
        \/ StartRefresh(<<"cancel", r>>)
        \/ EndRefresh(<<"cancel", r>>)
      BY <1>5 DEF CancelRead, CancelCompletes, CancelReturns
  <2>4. \A d \in Callers : refresh'[d].pc = "write" => refresh'[d] = refresh[d]
      BY <1>c, <1>n, <2>3
  <2>. QED  BY <1>s, <2>1, <2>2, <2>4 DEF CancelInv
<1>6. ASSUME NEW c \in Callers, RefreshRead(c) PROVE CancelInv'
  <2>1. UNCHANGED <<run, execute, cancel>>
      BY <1>6 DEF RefreshRead
  <2>2. \A d \in Callers : refresh'[d].pc = "write" =>
          \/ refresh'[d] = refresh[d]
          \/ refresh'[d].copy = run[refresh'[d].run]
      BY <1>6, <1>q DEF RefreshRead, Reading
  <2>3. ASSUME NEW d \in Callers, refresh'[d].pc = "write"
        PROVE  /\ refresh'[d].copy.state \in Reached
               /\ refresh'[d].copy.state \in Terminal => run'[refresh'[d].run].state \in Terminal
               /\ cancel'[refresh'[d].run].pc \in {"idle", "cancelled"} =>
                        refresh'[d].copy.state # "cancelling"
    <3>1. refresh'[d].run \in Runs
        BY <2>3 DEF StoredInv
    <3>. QED  BY <2>1, <2>2, <2>3, <3>1 DEF CancelInv
  <2>. QED  BY <2>1, <2>3 DEF CancelInv
<1>7. ASSUME NEW c \in Callers, RefreshWrite(c) PROVE CancelInv'
  <2> DEFINE r == refresh[c].run
             s == refresh[c].copy.state
  <2>1. UNCHANGED <<cancel, execute>> /\ refresh[c].pc = "write"
      BY <1>7 DEF RefreshWrite
  <2>2. /\ r \in Runs /\ s \in Reached \ {"absent"} /\ run[r].state \in Reached \ {"absent"}
        /\ s \in Terminal => run[r].state \in Terminal
        /\ cancel[r].pc \in {"idle", "cancelled"} => s # "cancelling"
      BY <2>1 DEF StoredInv, CancelInv
  <2>3. \A d \in Callers : refresh'[d].pc = "write" => refresh'[d] = refresh[d]
      BY <1>7, <1>q DEF RefreshWrite, Reading, Thrown
  <2>4. \/ run' = run
        \/ CanTransition(run[r].state, s) /\ \E copy, pos : Update(r, copy, s, pos)
      BY <1>7 DEF RefreshWrite, UpdateAccepted
  <2>. HIDE DEF r, s
  <2>5. CASE run' = run
      BY <1>s, <2>1, <2>3, <2>5 DEF CancelInv
  <2>6. CASE CanTransition(run[r].state, s) /\ \E copy, pos : Update(r, copy, s, pos)
    <3>1. \A x \in Runs : run'[x].state = IF x = r THEN s ELSE run[x].state
        BY <2>2, <2>6, StateUpdates
    <3>2. /\ run[r].state \in Terminal => s \in Terminal
          /\ run[r].state \in Engaged => s \in Engaged \cup Terminal
        BY <2>2, <2>6, Transitions
    <3>3. execute'[r].pc \in {"work", "running"} => s \in Engaged
      <4>1. Engaged \cap Terminal = {}
          BY DEF Engaged, Terminal
      <4>. QED  BY <2>1, <2>2, <3>2, <4>1 DEF CancelInv
    <3>. QED  BY <1>m, <2>1, <2>2, <2>3, <3>1, <3>2, <3>3
  <2>. QED  BY <2>4, <2>5, <2>6
<1>8. CASE Schedule \/ Tick \/ Diagnose \/ UNCHANGED vars
  <2>1. UNCHANGED <<run, cancel>>
      BY <1>8 DEF Schedule, ScheduleLoop, ScheduleProbe, ScheduleReserve, ScheduleStarts,
                  ScheduleThrows, Tick, Diagnose, vars
  <2>2. \A x \in Runs : execute'[x].pc \in {"work", "running"} => execute'[x] = execute[x]
    <3>1. CASE ScheduleStarts
        BY <1>q, <3>1 DEF ScheduleStarts, ExecuteLocals
    <3>2. CASE ~ScheduleStarts
      <4>1. execute' = execute
          BY <1>8, <3>2 DEF Schedule, ScheduleLoop, ScheduleProbe, ScheduleReserve,
                            ScheduleThrows, Tick, Diagnose, vars
      <4>. QED  BY <4>1
    <3>. QED  BY <3>1, <3>2
  <2>3. refresh' = refresh \/ StartRefresh(Loop) \/ EndRefresh(Loop)
      BY <1>8 DEF Schedule, ScheduleLoop, ScheduleProbe, ScheduleReserve, ScheduleStarts,
                  ScheduleThrows, Tick, Diagnose, vars
  <2>4. \A d \in Callers : refresh'[d].pc = "write" => refresh'[d] = refresh[d]
      BY <1>l, <1>n, <2>3
  <2>. QED  BY <1>s, <2>1, <2>2, <2>4 DEF CancelInv
<1>. QED
  BY <1>1, <1>2, <1>3, <1>4, <1>5, <1>6, <1>7, <1>8, SchedulerAssumption
  DEF Next, Enqueue, Cancel, Refresh

\* A run that is cancelled while it waits never reaches its provider: for any
\* number of runs, callers and renumberings that write back what they have read.
THEOREM CancelledNeverStartsHolds == Spec => []CancelledNeverStarts
<1>1. Spec => []PlaceInv
  <2>1. TypeOK /\ TypeOK' /\ PlaceInv /\ [Next]_vars => PlaceInv'
      BY PlaceStep
  <2>. QED  BY PlaceInit, TypeCorrect, <2>1, PTL DEF Spec
<1>2. Spec => []StoredInv
  <2>1. TypeOK /\ TypeOK' /\ PlaceInv /\ StoredInv /\ [Next]_vars => StoredInv'
      BY StoredStep
  <2>. QED  BY <1>1, StoredInit, TypeCorrect, <2>1, PTL DEF Spec
<1>3. Spec => []CancelInv
  <2>1. TypeOK /\ TypeOK' /\ PlaceInv /\ StoredInv /\ StoredInv' /\ CancelInv /\ [Next]_vars
            => CancelInv'
      BY CancelStep
  <2>. QED  BY <1>1, <1>2, CancelInit, TypeCorrect, <2>1, PTL DEF Spec
<1>4. CancelInv => CancelledNeverStarts
    BY DEF CancelInv, CancelledNeverStarts, Engaged
<1>. QED  BY <1>3, <1>4, PTL

=============================================================================
