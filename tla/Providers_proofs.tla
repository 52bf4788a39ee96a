--------------------------- MODULE Providers_proofs ---------------------------
(***************************************************************************)
(* Proofs about what runs a provider.  ProcessSupervisor, for every number *)
(* of processes and every limit: type correctness, the bound of the        *)
(* output, that a loss is reported, that the first cause decides and that  *)
(* nobody survives.  One run of each adapter, and the login that Codex     *)
(* runs share, for any tool calls, people, allowance, runs and accounts:   *)
(* the adapters keep their word and the login stays its owner's.           *)
(***************************************************************************)
EXTENDS MCProviders, Sequences, TLAPS

USE DEF vars, processVars, cleanupVars, outputVars, probeVars

-----------------------------------------------------------------------------
(* The supervisor: types *)

\* What Request may do to the two variables it writes.
LEMMA RequestTypes ==
    ASSUME TypeOK, NEW kind \in Kinds, NEW pid, Request(kind, pid)
    PROVE  /\ requested' \in Kinds \cup {"none"}
           /\ cleanup' \in {"none", "grace", "table", "read", "killing", "done"}
BY DEF TypeOK, Request, FirstWait

\* A kill leaves the states of the processes well typed.
LEMMA KilledType ==
    ASSUME TypeOK, NEW S
    PROVE  Killed(S) \in [Processes -> {"unborn", "alive", "dead"}]
BY DEF TypeOK, Killed

\* The accepted part of a chunk is a number and leaves both limits standing.
LEMMA AcceptedFits ==
    ASSUME TypeOK, OutputBounded, NEW s \in Streams, NEW n \in 1 .. MaxChunk
    PROVE  /\ Accepted(s, n) \in Nat
           /\ kept[s] + Accepted(s, n) <= Limit[s]
           /\ Total + Accepted(s, n) <= TotalLimit
<1>1. Limit[s] \in Nat /\ TotalLimit \in Nat /\ kept[s] \in Nat
  BY SupervisorAssumption DEF Limit, TypeOK
<1>2. kept["stdout"] \in Nat /\ kept["stderr"] \in Nat
  BY DEF TypeOK, Streams
<1>3. kept[s] <= Limit[s] /\ Total <= TotalLimit
  BY DEF OutputBounded
<1>4. n \in Nat
  BY SupervisorAssumption
<1> QED
  BY <1>1, <1>2, <1>3, <1>4 DEF Accepted, Smaller, Total

OutputInv == TypeOK /\ OutputBounded

LEMMA OutputInit == Init => OutputInv
<1> SUFFICES ASSUME Init PROVE OutputInv
  OBVIOUS
<1>1. TypeOK
  <2>1. /\ started \in BOOLEAN /\ settled \in BOOLEAN /\ probing \in BOOLEAN
    BY Zenon DEF Init
  <2>2. /\ platform \in {"posix", "win32"}
        /\ requested \in Kinds \cup {"none"}
        /\ result \in Kinds \cup {"none", "natural"}
        /\ cleanup \in {"none", "grace", "table", "read", "killing", "done"}
    BY DEF Init
  <2>3. /\ proc \in [Processes -> {"unborn", "alive", "dead"}]
        /\ parent \in [Processes -> Processes]
        /\ kept \in [Streams -> Nat]
    BY SupervisorAssumption DEF Init
  <2>4. /\ piped \subseteq Processes
        /\ snapshot \subseteq Processes /\ targets \subseteq snapshot
        /\ truncated \subseteq Streams /\ lost \subseteq Streams
        /\ misses \in 0 .. 1
    BY DEF Init
  <2> QED
    BY <2>1, <2>2, <2>3, <2>4 DEF TypeOK
<1>2. \A s \in Streams : kept[s] <= Limit[s]
  BY SupervisorAssumption DEF Init, Limit
<1>3. Total <= TotalLimit
  BY SupervisorAssumption DEF Init, Total, Streams
<1> QED
  BY <1>1, <1>2, <1>3 DEF OutputInv, OutputBounded

\* The steps of the cleanup, of the operating system and of the timers write
\* no output; each keeps the types.
LEMMA OutputStep == OutputInv /\ [Next]_vars => OutputInv'
<1> SUFFICES ASSUME OutputInv, [Next]_vars PROVE OutputInv'
  OBVIOUS
<1> USE DEF OutputInv
<1> DEFINE Quiet == UNCHANGED kept
<1>0. OutputBounded /\ Quiet => OutputBounded'
  BY DEF OutputBounded, Total, Limit
<1>1. CASE Start
  <2>1. TypeOK'
    <3> PICK spawned \in BOOLEAN, excessive \in BOOLEAN :
          /\ proc' = IF spawned THEN [proc EXCEPT ![Root] = "alive"] ELSE proc
          /\ piped' = IF spawned THEN {Root} ELSE {}
          /\ IF excessive THEN Request("output_limit", spawned)
             ELSE UNCHANGED <<requested, cleanup>>
      BY <1>1 DEF Start
    <3>1. "output_limit" \in Kinds
      BY DEF Kinds
    <3>2. /\ requested' \in Kinds \cup {"none"}
          /\ cleanup' \in {"none", "grace", "table", "read", "killing", "done"}
      BY <3>1, RequestTypes DEF TypeOK
    <3>3. /\ proc' \in [Processes -> {"unborn", "alive", "dead"}]
          /\ piped' \subseteq Processes
      BY SupervisorAssumption DEF TypeOK
    <3> QED
      BY <1>1, <3>2, <3>3 DEF TypeOK, Start
  <2>2. Quiet
    BY <1>1 DEF Start
  <2> QED
    BY <1>0, <2>1, <2>2
<1>2. CASE SpawnError \/ Close \/ Resolve
  <2>1. CASE SpawnError
    BY <1>0, <2>1 DEF TypeOK, SpawnError, Kinds
  <2>2. CASE Close
    BY <1>0, <2>2 DEF TypeOK, Close
  <2>3. CASE Resolve
    <3>1. result' \in Kinds \cup {"none", "natural"}
      BY <2>3 DEF TypeOK, Resolve, Verdict
    <3> QED
      BY <1>0, <2>3, <3>1 DEF TypeOK, Resolve
  <2> QED
    BY <1>2, <2>1, <2>2, <2>3
<1>3. CASE \E p, q \in Processes : Fork(p, q)
  BY <1>0, <1>3 DEF TypeOK, Fork
<1>4. CASE \E p \in Processes : Exit(p) \/ KillSurvivor(p)
  <2> PICK p \in Processes : Exit(p) \/ KillSurvivor(p)
    BY <1>4
  <2>1. CASE Exit(p)
    BY <1>0, <2>1 DEF TypeOK, Exit
  <2>2. CASE KillSurvivor(p)
    <3>1. proc' \in [Processes -> {"unborn", "alive", "dead"}]
      BY <2>2, KilledType DEF KillSurvivor
    <3> QED
      BY <1>0, <2>2, <3>1 DEF TypeOK, KillSurvivor
  <2> QED
    BY <2>1, <2>2
<1>5. CASE GraceEnds \/ TableFails \/ RootKilled
  BY <1>0, <1>5, KilledType DEF TypeOK, GraceEnds, TableFails, RootKilled
<1>6. CASE TableRead
  BY <1>0, <1>6 DEF TypeOK, TableRead, TreeOf, Alive
<1>7. CASE WallTimer \/ IdleTimer \/ Cancel
  <2>1. {"timeout", "idle_timeout", "cancelled"} \subseteq Kinds
    BY DEF Kinds
  <2>2. /\ requested' \in Kinds \cup {"none"}
        /\ cleanup' \in {"none", "grace", "table", "read", "killing", "done"}
    BY <1>7, <2>1, RequestTypes DEF WallTimer, IdleTimer, Ends, Cancel
  <2> QED
    BY <1>0, <1>7, <2>2 DEF TypeOK, WallTimer, IdleTimer, Ends, Cancel
<1>8. CASE ProbeStarts
  BY <1>0, <1>8 DEF TypeOK, ProbeStarts
<1>9. CASE ProbeEnds
  <2>1. {"resource_limit", "resource_probe_error"} \subseteq Kinds
    BY DEF Kinds
  <2>2. /\ requested' \in Kinds \cup {"none"}
        /\ cleanup' \in {"none", "grace", "table", "read", "killing", "done"}
    <3>1. CASE ProbeMisses \/ ProbeWithin
      BY <3>1 DEF TypeOK, ProbeMisses, ProbeWithin
    <3>2. CASE ProbeExceeds
      BY <3>2, <2>1, RequestTypes DEF ProbeExceeds
    <3>3. CASE ProbeFails
      BY <3>3, <2>1, RequestTypes DEF ProbeFails
    <3> QED
      BY <1>9, <3>1, <3>2, <3>3 DEF ProbeEnds
  <2>3. misses' \in 0 .. 1
    BY <1>9 DEF TypeOK, ProbeEnds, ProbeMisses, ProbeWithin, ProbeExceeds,
                ProbeFails
  <2>4. probing' = FALSE
    BY <1>9 DEF ProbeEnds, ProbeMisses, ProbeWithin, ProbeExceeds, ProbeFails
  <2> QED
    BY <1>0, <1>9, <2>2, <2>3, <2>4 DEF TypeOK, ProbeEnds
<1>10. CASE \E s \in Streams, n \in 1 .. MaxChunk : Consume(s, n)
  <2> PICK s \in Streams, n \in 1 .. MaxChunk : Consume(s, n)
    BY <1>10
  <2>1. {"output_limit", "raw_log_error"} \subseteq Kinds
    BY DEF Kinds
  <2>2. /\ requested' \in Kinds \cup {"none"}
        /\ cleanup' \in {"none", "grace", "table", "read", "killing", "done"}
    BY <2>1, RequestTypes DEF TypeOK, Consume, Drop, RawLogFails, Keep
  <2>3. truncated' \subseteq Streams /\ lost' \subseteq Streams
    BY DEF TypeOK, Consume, Drop, RawLogFails, Keep
  <2>4. kept' \in [Streams -> Nat] /\ OutputBounded'
    <3>1. CASE Keep(s, n)
      <4>1. kept' = [kept EXCEPT ![s] = kept[s] + Accepted(s, n)]
        BY <3>1 DEF Keep
      <4> DEFINE a == Accepted(s, n)
      <4>2. a \in Nat /\ kept[s] + a <= Limit[s] /\ Total + a <= TotalLimit
        BY AcceptedFits
      <4> HIDE DEF a
      <4>3. kept \in [Streams -> Nat] /\ kept' = [kept EXCEPT ![s] = kept[s] + a]
        BY <4>1 DEF TypeOK, a
      <4>4. kept' \in [Streams -> Nat]
        BY <4>2, <4>3
      <4>5. \A t \in Streams : kept'[t] <= Limit[t]
        BY <4>2, <4>3 DEF OutputBounded
      <4>6. Total' = Total + a
        BY <4>2, <4>3 DEF Total, Streams
      <4> QED
        BY <4>2, <4>4, <4>5, <4>6 DEF OutputBounded, Limit
    <3>2. CASE Drop(s) \/ RawLogFails(s)
      BY <1>0, <3>2 DEF Drop, RawLogFails, TypeOK
    <3> QED
      BY <3>1, <3>2 DEF Consume
  <2> QED
    BY <2>2, <2>3, <2>4 DEF TypeOK, Consume
<1>11. CASE UNCHANGED vars
  BY <1>0, <1>11 DEF TypeOK
<1> QED
  BY <1>1, <1>2, <1>3, <1>4, <1>5, <1>6, <1>7, <1>8, <1>9, <1>10, <1>11 DEF Next

\* Every variable keeps its type, whatever the processes and the limits.
THEOREM TypeCorrect == Spec => []TypeOK
<1>1. OutputInv => TypeOK
  BY DEF OutputInv
<1> QED
  BY OutputInit, OutputStep, <1>1, PTL DEF Spec

\* What is kept of the output stays within both limits (consume(),
\* process-supervisor.ts:788-792), for every limit and every chunk size.
THEOREM OutputBoundedHolds == Spec => []OutputBounded
<1>1. OutputInv => OutputBounded
  BY DEF OutputInv
<1> QED
  BY OutputInit, OutputStep, <1>1, PTL DEF Spec

-----------------------------------------------------------------------------
(* The verdict: the first cause decides, and explains what is missing *)

\* Whether the output has gaps, the close event came or the result is there
\* decides what may still be requested.
VerdictInv ==
    /\ lost # {} => requested # "none"
    /\ settled /\ requested = "none" => HasPid
    /\ result # "none" => settled
    /\ result = "natural" => requested = "none"

\* A request is final, and after the close event there is none.
RequestIsFinal ==
    requested # "none" \/ settled => requested' = requested

\* Each step requests an end at most once, and a stream only loses output
\* under a request.
LEMMA VerdictStep ==
    ASSUME VerdictInv, [Next]_vars
    PROVE  RequestIsFinal /\ (settled => settled')
BY Zenon
   DEF Next, VerdictInv, RequestIsFinal, Request, Start, SpawnError, Close,
       Resolve, Fork, Exit, KillSurvivor, GraceEnds, TableRead, TableFails,
       RootKilled, WallTimer, IdleTimer, Ends, Cancel, ProbeStarts, ProbeEnds,
       ProbeMisses, ProbeWithin, ProbeExceeds, ProbeFails, Consume, Drop,
       RawLogFails, Keep

\* A process that exists never becomes unborn.
LEMMA BornStays ==
    ASSUME TypeOK, [Next]_vars, NEW p \in Processes, proc[p] # "unborn"
    PROVE  proc'[p] # "unborn"
<1>1. CASE proc' = proc
  BY <1>1
<1>2. CASE \E S : proc' = Killed(S)
  BY <1>2 DEF Killed
<1>3. CASE \E q \in Processes, state \in {"alive", "dead"} :
              proc' = [proc EXCEPT ![q] = state]
  BY <1>3 DEF TypeOK
<1>4. \/ proc' = proc
      \/ \E S : proc' = Killed(S)
      \/ \E q \in Processes, state \in {"alive", "dead"} :
            proc' = [proc EXCEPT ![q] = state]
  <2>1. CASE Start
    BY <2>1, SupervisorAssumption DEF Start
  <2>2. CASE \E q, r \in Processes : Fork(q, r)
    BY <2>2 DEF Fork
  <2>3. CASE \E q \in Processes : Exit(q)
    BY <2>3 DEF Exit
  <2>4. CASE \/ GraceEnds \/ TableFails \/ RootKilled
             \/ \E q \in Processes : KillSurvivor(q)
    BY Zenon, <2>4 DEF GraceEnds, TableFails, RootKilled, KillSurvivor
  <2>5. CASE \/ SpawnError \/ Close \/ Resolve \/ TableRead
             \/ WallTimer \/ IdleTimer \/ Cancel
             \/ ProbeStarts \/ ProbeEnds \/ UNCHANGED vars
             \/ \E s \in Streams, n \in 1 .. MaxChunk : Consume(s, n)
    BY Zenon, <2>5 DEF SpawnError, Close, Resolve, TableRead, WallTimer,
       IdleTimer, Ends, Cancel, ProbeStarts, ProbeEnds, Consume
  <2> QED
    BY Zenon, <2>1, <2>2, <2>3, <2>4, <2>5 DEF Next
<1> QED
  BY <1>1, <1>2, <1>3, <1>4

LEMMA VerdictInit == Init => VerdictInv
BY DEF Init, VerdictInv

\* Chunks are only lost while or because an end is requested.
LEMMA VerdictKeeps == TypeOK /\ VerdictInv /\ [Next]_vars => VerdictInv'
<1> SUFFICES ASSUME TypeOK, VerdictInv, [Next]_vars PROVE VerdictInv'
  OBVIOUS
<1>1. RequestIsFinal /\ (settled => settled')
  BY VerdictStep
<1>2. HasPid => HasPid'
  BY BornStays, SupervisorAssumption DEF HasPid
<1>3. requested = "none" \/ requested' = requested
  BY <1>1 DEF RequestIsFinal
<1>4. CASE Close
  BY <1>2, <1>4 DEF Close, VerdictInv
<1>5. CASE Resolve
  <2>1. requested # "natural"
    BY DEF TypeOK, Kinds
  <2> QED
    BY <1>2, <1>5, <2>1 DEF Resolve, Verdict, VerdictInv
<1>6. CASE \E s \in Streams, n \in 1 .. MaxChunk : Consume(s, n)
  <2> PICK s \in Streams, n \in 1 .. MaxChunk : Consume(s, n)
    BY <1>6
  <2>1. ~settled /\ UNCHANGED <<settled, result>>
    BY DEF Consume
  <2>2. lost' # {} => requested' # "none"
    <3>1. CASE Drop(s)
      BY <3>1 DEF Drop
    <3>2. CASE RawLogFails(s)
      BY <2>1, <3>2 DEF RawLogFails, Request
    <3>3. CASE Keep(s, n) /\ ChunkFits(s, n)
      <4>1. Accepted(s, n) = n /\ ~(n < n)
        BY <3>3, SupervisorAssumption DEF ChunkFits
      <4>2. lost' = lost
        BY <3>3, <4>1 DEF Keep
      <4> QED
        BY <1>3, <4>2 DEF VerdictInv
    <3>4. CASE Keep(s, n) /\ ~ChunkFits(s, n)
      BY <2>1, <3>4 DEF Keep, Request
    <3> QED
      BY <3>1, <3>2, <3>3, <3>4 DEF Consume
  <2> QED
    BY <1>2, <1>3, <2>1, <2>2 DEF VerdictInv
<1>7. CASE UNCHANGED <<settled, result, lost>>
  BY <1>1, <1>2, <1>3, <1>7 DEF VerdictInv, RequestIsFinal
<1>8. \/ Close \/ Resolve \/ UNCHANGED <<settled, result, lost>>
      \/ \E s \in Streams, n \in 1 .. MaxChunk : Consume(s, n)
  BY Zenon
     DEF Next, Start, SpawnError, Fork, Exit, KillSurvivor, GraceEnds,
         TableRead, TableFails, RootKilled, WallTimer, IdleTimer, Ends,
         Cancel, ProbeStarts, ProbeEnds
<1> QED
  BY <1>4, <1>5, <1>6, <1>7, <1>8

LEMMA VerdictAlways == Spec => [](TypeOK /\ VerdictInv)
<1>1. OutputInv => TypeOK
  BY DEF OutputInv
<1> QED
  BY OutputInit, OutputStep, <1>1, VerdictInit, VerdictKeeps, PTL DEF Spec

\* Missing output always has a termination that explains it
\* (process-supervisor.ts:775-808).
THEOREM LossIsReportedHolds == Spec => []LossIsReported
<1>1. VerdictInv => LossIsReported
  BY DEF VerdictInv, LossIsReported
<1> QED
  BY <1>1, VerdictAlways, PTL

\* Both halves of the output's account hold together
\* (process-supervisor.ts:775-808).
THEOREM OutputAccountedHolds == Spec => []OutputAccounted
<1>1. OutputBounded /\ LossIsReported => OutputAccounted
  BY DEF OutputAccounted
<1> QED
  BY <1>1, OutputBoundedHolds, LossIsReportedHolds, PTL

\* The first cause decides (process-supervisor.ts:698-702, 816, 830).
THEOREM VerdictKeptHolds == Spec => VerdictKept
<1>1. VerdictInv /\ [Next]_vars
        => [requested # "none" \/ settled => requested' = requested]_vars
  BY VerdictStep DEF RequestIsFinal
<1> QED
  BY <1>1, VerdictAlways, PTL DEF Spec, VerdictKept

-----------------------------------------------------------------------------
(* Nobody survives *)

\* How far the cleanup is tells which processes are dead.
CleanupInv ==
    /\ ~started => requested = "none" /\ ~settled /\ ~HasPid /\ ~probing
    /\ ~HasPid => Alive = {}
    /\ requested = "none" => cleanup = "none"
    /\ cleanup = "none" /\ requested # "none" => ~HasPid
    /\ platform = "posix" => cleanup \in {"none", "grace", "done"}
    /\ platform = "win32" => cleanup # "grace"
    /\ \A p \in snapshot : proc[p] # "unborn"
    /\ cleanup \in {"none", "table"} => snapshot = {}
    /\ cleanup = "read" => targets = snapshot
    /\ cleanup = "killing" => \A p \in snapshot \ targets : proc[p] = "dead"
    /\ cleanup = "done" =>
         Alive \subseteq IF platform = "posix" THEN {} ELSE Processes \ snapshot
    /\ result = "none" \/ (settled /\ result = Verdict
                            /\ cleanup \in {"none", "done"})

\* A kill ends what it names and touches nothing else.
LEMMA KilledProcesses ==
    ASSUME TypeOK, NEW S, proc' = Killed(S)
    PROVE  /\ Alive' = Alive \ S
           /\ \A p \in Processes : proc[p] # "alive" => proc'[p] = proc[p]
           /\ \A p \in Processes \cap S : proc'[p] # "alive"
           /\ HasPid' = HasPid
BY SupervisorAssumption DEF TypeOK, Killed, Alive, HasPid

\* A tree holds its root, if that is alive, and only living processes.
LEMMA TreeHoldsRoot ==
    ASSUME NEW p \in Alive
    PROVE  p \in TreeOf(p) /\ TreeOf(p) \subseteq Alive
BY DEF TreeOf

LEMMA CleanupInit == Init => CleanupInv
BY SupervisorAssumption DEF Init, CleanupInv, HasPid, Alive

\* Nothing the cleanup depends on changes.
LEMMA QuietKeeps ==
    ASSUME CleanupInv, probing' => probing \/ started,
           UNCHANGED <<platform, started, proc, requested, cleanup, snapshot,
                       targets, settled, result>>
    PROVE  CleanupInv'
BY DEF CleanupInv, HasPid, Alive, Verdict

\* A request after start() begins the cleanup, if it is the first.
LEMMA RequestKeeps ==
    ASSUME TypeOK, CleanupInv, started, NEW kind \in Kinds,
           Request(kind, HasPid),
           UNCHANGED <<platform, started, proc, snapshot, targets, settled,
                       result>>
    PROVE  CleanupInv'
<1>1. CASE UNCHANGED <<requested, cleanup>>
  BY Zenon, <1>1, QuietKeeps
<1>2. CASE /\ requested = "none" /\ ~settled
           /\ requested' = kind /\ cleanup' = FirstWait(HasPid)
  <2>1. kind # "none"
    BY DEF Kinds
  <2>2. cleanup = "none" /\ snapshot = {} /\ result = "none"
    BY <1>2 DEF CleanupInv
  <2>3. /\ Alive' = Alive /\ (HasPid' <=> HasPid) /\ (~HasPid => Alive = {})
        /\ platform \in {"posix", "win32"}
    BY DEF Alive, HasPid, CleanupInv, TypeOK
  <2> QED
    BY <1>2, <2>1, <2>2, <2>3 DEF CleanupInv, FirstWait
<1> QED
  BY <1>1, <1>2 DEF Request

\* Each step of the processes and of the cleanup keeps the account of it.
LEMMA CleanupKeeps ==
    TypeOK /\ VerdictInv /\ CleanupInv /\ [Next]_vars => CleanupInv'
<1> SUFFICES ASSUME TypeOK, VerdictInv, CleanupInv, [Next]_vars PROVE CleanupInv'
  OBVIOUS
<1> USE DEF CleanupInv
<1>1. CASE Start
  <2>1. PICK spawned \in BOOLEAN, excessive \in BOOLEAN :
          /\ proc' = IF spawned THEN [proc EXCEPT ![Root] = "alive"] ELSE proc
          /\ IF excessive THEN Request("output_limit", spawned)
             ELSE UNCHANGED <<requested, cleanup>>
    BY <1>1 DEF Start
  <2>2. /\ requested = "none" /\ cleanup = "none" /\ ~settled
        /\ snapshot = {} /\ result = "none" /\ Alive = {}
    BY <1>1 DEF Start
  <2>3. \/ requested' = requested /\ cleanup' = cleanup
        \/ requested' = "output_limit" /\ cleanup' = FirstWait(spawned)
    BY Zenon, <2>1, <2>2 DEF Request
  <2>4. HasPid' <=> spawned
    BY <1>1, <2>1, SupervisorAssumption DEF Start, HasPid, TypeOK
  <2>5. ~spawned => Alive' = {}
    BY <2>1, <2>2 DEF Alive
  <2> QED
    <3>1. CASE spawned
      BY <1>1, <2>2, <2>3, <2>4, <3>1 DEF Start, FirstWait, TypeOK
    <3>2. CASE ~spawned
      BY <1>1, <2>2, <2>3, <2>4, <2>5, <3>2 DEF Start, FirstWait, TypeOK
    <3> QED
      BY <3>1, <3>2
<1>2. CASE SpawnError
  <2>1. Alive' = Alive /\ (HasPid' <=> HasPid)
    BY <1>2 DEF SpawnError, Alive, HasPid
  <2>2. result = "none"
    BY <1>2 DEF SpawnError, VerdictInv
  <2> QED
    BY <1>2, <2>1, <2>2 DEF SpawnError
<1>3. ASSUME NEW p \in Processes, NEW q \in Processes, Fork(p, q)
      PROVE  CleanupInv'
  <2>1. HasPid /\ HasPid' /\ started
    BY <1>3, BornStays, SupervisorAssumption DEF Fork, HasPid
  <2>2. Alive # {} /\ Alive' = Alive \cup {q} /\ q \notin snapshot
    BY <1>3 DEF Fork, Alive, TypeOK
  <2>3. \A r \in snapshot : proc'[r] = proc[r]
    BY <1>3, <2>2 DEF Fork, TypeOK
  <2> QED
    BY <1>3, <2>1, <2>2, <2>3 DEF Fork, TypeOK, Verdict
<1>4. ASSUME NEW p \in Processes, Exit(p)
      PROVE  CleanupInv'
  <2>1. Alive' = Alive \ {p} /\ (HasPid' <=> HasPid)
    BY <1>4, SupervisorAssumption DEF Exit, Alive, HasPid, TypeOK
  <2>2. \A r \in Processes : proc'[r] = proc[r] \/ proc'[r] = "dead"
    BY <1>4 DEF Exit, TypeOK
  <2> QED
    <3>1. UNCHANGED <<platform, started, requested, cleanup, snapshot, targets,
                      settled, result, probing, Verdict>>
      BY <1>4 DEF Exit, Verdict
    <3>2. snapshot \subseteq Processes /\ proc' \in [Processes -> {"unborn", "alive", "dead"}]
      BY <1>4 DEF Exit, TypeOK
    <3> QED
      BY <2>1, <2>2, <3>1, <3>2
<1>5. CASE GraceEnds
  <2>1. /\ HasPid' <=> HasPid
        /\ \A r \in Processes : proc[r] # "unborn" => proc'[r] # "unborn"
        /\ Alive' = {}
    BY <1>5, KilledProcesses, BornStays DEF GraceEnds, Alive
  <2>2. platform # "win32" /\ result = "none" /\ snapshot \subseteq Processes
    BY <1>5 DEF GraceEnds, TypeOK
  <2> QED
    BY <1>5, <2>1, <2>2 DEF GraceEnds
<1>6. CASE TableRead
  <2>1. snapshot' \subseteq Alive /\ targets' = snapshot'
    BY <1>6, Zenon DEF TableRead, TreeOf
  <2>2. Alive' = Alive /\ HasPid' = HasPid
    BY <1>6 DEF TableRead, Alive, HasPid
  <2> QED
    BY <1>6, <2>1, <2>2 DEF TableRead, TypeOK, Verdict, Alive
<1>7. CASE TableFails
  BY <1>7, KilledProcesses DEF TableFails, TypeOK, Verdict, Alive
<1>8. CASE RootKilled
  <2>1. /\ HasPid' <=> HasPid
        /\ \A r \in Processes : proc[r] # "unborn" => proc'[r] # "unborn"
        /\ Alive' \subseteq Alive
    BY <1>8, KilledProcesses, BornStays DEF RootKilled
  <2>2. platform # "posix" /\ result = "none" /\ targets = snapshot
    BY <1>8 DEF RootKilled
  <2> QED
    BY <1>8, <2>1, <2>2 DEF RootKilled, TypeOK
<1>9. ASSUME NEW p \in Processes, KillSurvivor(p)
      PROVE  CleanupInv'
  <2>1. /\ Alive' = Alive \ TreeOf(p)
        /\ \A r \in Processes : proc[r] # "alive" => proc'[r] = proc[r]
        /\ HasPid' = HasPid
    BY <1>9, KilledProcesses DEF KillSurvivor
  <2>2. proc'[p] = "dead"
    <3>1. p \in snapshot /\ proc[p] # "unborn" /\ proc'[p] # "unborn"
      BY <1>9, BornStays DEF KillSurvivor, TypeOK
    <3>2. p \notin Alive'
      BY <2>1, TreeHoldsRoot
    <3>3. proc'[p] \in {"unborn", "alive", "dead"}
      BY <1>9, KilledType DEF KillSurvivor
    <3> QED
      BY <3>1, <3>2, <3>3 DEF Alive
  <2>3. platform # "posix" /\ result = "none"
    BY <1>9 DEF KillSurvivor
  <2>4. \A r \in snapshot \ targets' : proc'[r] = "dead"
    BY <1>9, <2>1, <2>2 DEF KillSurvivor, TypeOK
  <2>5. \A r \in snapshot : proc'[r] # "unborn"
    BY <1>9, BornStays DEF TypeOK
  <2>6. targets' = {} => Alive' \subseteq Processes \ snapshot
    BY <2>4 DEF Alive
  <2> QED
    BY <1>9, <2>1, <2>3, <2>4, <2>5, <2>6 DEF KillSurvivor, Verdict
<1>10. CASE Close \/ Resolve
  BY <1>10 DEF Close, Resolve, HasPid, Alive, Verdict
<1>11. CASE \/ WallTimer \/ IdleTimer \/ Cancel
            \/ ProbeStarts \/ ProbeEnds
            \/ \E s \in Streams, n \in 1 .. MaxChunk : Consume(s, n)
  <2> DEFINE Still == UNCHANGED <<platform, started, proc, snapshot, targets,
                                  settled, result>>
  <2>1. Still
    BY Zenon, <1>11 DEF WallTimer, IdleTimer, Ends, Cancel, ProbeStarts,
                        ProbeEnds, Consume
  <2>2. \/ UNCHANGED <<requested, cleanup>>
        \/ started /\ \E kind \in Kinds : Request(kind, HasPid)
    <3>1. /\ {"timeout", "idle_timeout", "cancelled", "resource_limit"}
                \subseteq Kinds
          /\ {"resource_probe_error", "output_limit", "raw_log_error"}
                \subseteq Kinds
      BY DEF Kinds
    <3>2. HasPid => started
      BY Zenon
    <3>3. requested # "none" => started
      BY Zenon
    <3>4. CASE WallTimer \/ IdleTimer \/ Cancel
      BY Zenon, <3>1, <3>4 DEF WallTimer, IdleTimer, Ends, Cancel
    <3>5. CASE ProbeStarts
      BY Zenon, <3>5 DEF ProbeStarts
    <3>6. CASE ProbeEnds
      <4>1. started \/ requested = "none"
        BY <3>3
      <4> QED
        BY <3>1, <3>6, <4>1, <3>2
           DEF ProbeEnds, ProbeMisses, ProbeWithin, ProbeExceeds, ProbeFails
    <3>7. CASE \E s \in Streams, n \in 1 .. MaxChunk : Consume(s, n)
      BY Zenon, <3>1, <3>2, <3>7 DEF Consume, Drop, RawLogFails, Keep
    <3> QED
      BY Zenon, <1>11, <3>4, <3>5, <3>6, <3>7
  <2> QED
    <3>1. probing' => probing \/ started
      BY Zenon, <1>11 DEF WallTimer, IdleTimer, Ends, Cancel, ProbeStarts,
                          ProbeEnds, Consume
    <3> QED
      BY Zenon, <2>1, <2>2, <3>1, QuietKeeps, RequestKeeps
<1>12. CASE UNCHANGED vars
  BY <1>12, QuietKeeps
<1> QED
  BY Zenon, <1>1, <1>2, <1>3, <1>4, <1>5, <1>6, <1>7, <1>8, <1>9, <1>10,
     <1>11, <1>12 DEF Next

\* When the caller learns that the supervisor ended a run, the cleanup has
\* left nobody alive that it knows of (process-supervisor.ts:698-735, 834-837),
\* for any number of processes, forks and exits.
THEOREM NoSurvivorsHolds == Spec => []NoSurvivors
<1>1. TypeOK /\ CleanupInv => NoSurvivors
  BY DEF TypeOK, CleanupInv, NoSurvivors, Verdict, Kinds
<1> QED
  BY VerdictAlways, CleanupInit, CleanupKeeps, <1>1, PTL DEF Spec

-----------------------------------------------------------------------------
(* ACP *)

\* What is told is told once, when the handshake is over; a request waits only during it.
AcpOK(r) ==
    /\ r \in [step : {"new", "initialize", "session", "prompt", "closing", "crashed"},
              proc : {"none", "alive", "stopping", "over"}, how : {"none", "exit", "timeout", "cancelled"},
              sending : BOOLEAN, waiting : BOOLEAN, asked : Nat, denied : Nat,
              told : Seq({"succeeded", "cancelled", "failed"}), outcome : {"none", "succeeded", "cancelled", "failed"},
              active : BOOLEAN, verdict : {"none", "rejected", "succeeded", "cancelled", "failed"}]
    /\ r.sending \/ r.waiting => r.step \in Acp!Handshake
    /\ r.step # "closing" => r.told = <<>> /\ r.verdict = "none"
    /\ r.step = "closing" =>
         r.told = <<r.outcome>> /\ r.verdict \in {"none", "rejected", r.outcome} /\ ~r.active

AcpInv == AcpOK(run)

\* The run begins in the invariant.
LEMMA AcpInit == Acp!Init => AcpInv
BY DEF Acp!Init, AcpInv, AcpOK, Acp!None, Acp!Handshake

\* request() leaves the handshake in the invariant ...
LEMMA AcpRequest ==
    ASSUME NEW r, AcpOK(r), r.step # "closing", NEW step \in Acp!Handshake
    PROVE  AcpOK(Acp!Request(r, step))
BY ZenonT(30) DEF AcpOK, Acp!Request, Acp!Handshake

\* ... and so do the end of the run as the adapter sees it, ...
LEMMA AcpCloses ==
    ASSUME NEW r, AcpOK(r), r.step \in Acp!Handshake, NEW state \in {"succeeded", "cancelled", "failed"}
    PROVE  AcpOK(Acp!Closes(r, state))
<1>1. r.told = <<>> /\ r.step # "closing"
  BY DEF AcpOK, Acp!Handshake
<1>2. Append(r.told, state) = <<state>> /\ <<state>> \in Seq({"succeeded", "cancelled", "failed"})
  BY <1>1
<1> DEFINE told == <<state>>
<1>3. Acp!Closes(r, state) = [r EXCEPT !.step = "closing", !.waiting = FALSE, !.sending = FALSE, !.active = FALSE,
                                       !.told = told, !.outcome = state]
  BY <1>2, Zenon DEF Acp!Closes
<1> QED
  BY <1>1, <1>2, <1>3, ZenonT(30) DEF AcpOK, Acp!Handshake

\* ... the cancellation of the process, ...
LEMMA AcpStopped ==
    ASSUME NEW r, AcpOK(r)
    PROVE  AcpOK(Acp!Stopped(r)) /\ Acp!Stopped(r).step = r.step
<1>1. CASE r.proc = "alive"
  BY <1>1, ZenonT(30) DEF AcpOK, Acp!Stopped
<1>2. CASE r.proc # "alive"
  BY <1>2, Zenon DEF Acp!Stopped
<1> QED
  BY <1>1, <1>2

\* ... a rejection nobody handles, ...
LEMMA AcpCrashed ==
    ASSUME NEW r, AcpOK(r), r.step \in Acp!Handshake
    PROVE  AcpOK(Acp!Crashed(r))
BY ZenonT(30) DEF AcpOK, Acp!Crashed, Acp!Handshake

\* ... one the handshake handles, ...
LEMMA AcpRejected ==
    ASSUME NEW r, AcpOK(r), r.step \in Acp!Handshake, NEW why
    PROVE  AcpOK(Acp!Rejected(r, why))
BY AcpCloses, AcpStopped, Zenon DEF Acp!Rejected

\* ... and the rejection of whatever waits.
LEMMA AcpRejectAll ==
    ASSUME NEW r, AcpOK(r), NEW why
    PROVE  AcpOK(Acp!RejectAll(r, why))
<1>1. r.waiting \in BOOLEAN /\ r.sending \in BOOLEAN /\ (r.waiting => r.step \in Acp!Handshake)
  BY DEF AcpOK
<1>2. CASE r.waiting /\ r.sending
  BY <1>1, <1>2, AcpCrashed DEF Acp!RejectAll
<1>3. CASE r.waiting /\ ~r.sending
  BY <1>1, <1>3, AcpRejected DEF Acp!RejectAll
<1>4. CASE ~r.waiting
  BY <1>1, <1>4 DEF Acp!RejectAll
<1> QED
  BY <1>1, <1>2, <1>3, <1>4

\* Every step of the adapter keeps the invariant.
LEMMA AcpKeeps == AcpInv /\ Acp!Next => AcpInv'
<1> SUFFICES ASSUME AcpOK(run), Acp!Next PROVE AcpOK(run')
  BY Zenon DEF AcpInv
<1>1. CASE Acp!AcpStart
  <2>1. AcpOK([run EXCEPT !.proc = "alive", !.active = TRUE])
    BY <1>1, ZenonT(30) DEF Acp!AcpStart, AcpOK
  <2>2. [run EXCEPT !.proc = "alive", !.active = TRUE].step = "new"
    BY <1>1, ZenonT(30) DEF Acp!AcpStart, AcpOK
  <2> QED
    BY <1>1, <2>1, <2>2, AcpRequest DEF Acp!AcpStart, Acp!Handshake
<1>2. CASE Acp!Written
  BY <1>2, ZenonT(30) DEF Acp!Written, AcpOK
<1>3. CASE Acp!WriteFails
  BY <1>3, AcpCrashed, ZenonT(30) DEF Acp!WriteFails, AcpOK
<1>4. CASE Acp!Result
  <2>1. run.step \in Acp!Handshake
    BY <1>4 DEF Acp!Result
  <2>2. run.step # "closing" /\ (run.step # "prompt" => Acp!After[run.step] \in Acp!Handshake)
    BY <2>1 DEF Acp!Handshake, Acp!After
  <2> QED
    BY <1>4, <2>1, <2>2, AcpRequest, AcpCloses, AcpRejected, Zenon DEF Acp!Result
<1>5. CASE Acp!Asks \/ Acp!Denies
  <2>1. \E n \in Nat : run' = [run EXCEPT !.asked = n] \/ run' = [run EXCEPT !.denied = n]
    BY <1>5 DEF Acp!Asks, Acp!Denies, AcpOK
  <2> QED
    BY <2>1, ZenonT(30) DEF AcpOK
<1>6. CASE Acp!Cancel
  BY <1>6, AcpRejectAll, AcpStopped, Zenon DEF Acp!Cancel
<1>7. CASE Acp!ProcessEnds
  <2>1. PICK how \in {"none", "exit", "timeout", "cancelled"} :
              run' = Acp!RejectAll([run EXCEPT !.proc = "over", !.how = how], "closed")
    BY <1>7 DEF Acp!ProcessEnds, AcpOK
  <2>2. AcpOK([run EXCEPT !.proc = "over", !.how = how])
    BY ZenonT(30) DEF AcpOK
  <2> QED
    BY <2>1, <2>2, AcpRejectAll, Zenon
<1>8. CASE Acp!Settle
  BY <1>8, ZenonT(30) DEF Acp!Settle, AcpOK, Acp!None
<1>9. CASE Acp!SettleRejected
  BY <1>9, ZenonT(30) DEF Acp!SettleRejected, AcpOK
<1> QED
  BY <1>1, <1>2, <1>3, <1>4, <1>5, <1>6, <1>7, <1>8, <1>9, Zenon DEF Acp!Next, Acp!Own

-----------------------------------------------------------------------------
(* OpenRouter *)

\* What was spent and what remains never exceed the allowance; a call is made only while
\* something remains.
OpenRouterInv ==
    /\ run \in [step : {"new", "calling", "reading", "over"}, round : Nat, remaining : Nat, spent : Nat,
                reasoning : {"off", "low"}, cancelled : BOOLEAN, known : BOOLEAN, late : BOOLEAN,
                answer : {"none"} \cup [truncated : BOOLEAN, problem : BOOLEAN],
                verdict : {"none", "failed", "succeeded", "cancelled", "timed_out"}]
    /\ run.spent + run.remaining <= MaxOutputTokens
    /\ run.step \in {"new", "calling"} => run.remaining >= 1
    /\ run.step = "reading" => run.answer \in [truncated : BOOLEAN, problem : BOOLEAN]

\* The run begins with its allowance.
LEMMA OpenRouterInit == OpenRouter!Init => OpenRouterInv
BY AllowanceAssumption DEF OpenRouter!Init, OpenRouterInv, OpenRouter!None

\* Every step of the adapter keeps the invariant.
LEMMA OpenRouterKeeps == OpenRouterInv /\ OpenRouter!Next => OpenRouterInv'
<1> SUFFICES ASSUME OpenRouterInv, OpenRouter!Next PROVE OpenRouterInv'
  OBVIOUS
<1> USE AllowanceAssumption DEF OpenRouterInv, OpenRouter!None, OpenRouter!Larger, OpenRouter!Ends
<1>1. CASE OpenRouter!OpenRouterStart \/ OpenRouter!CallFails \/ OpenRouter!AsksForLowReasoning
  BY <1>1 DEF OpenRouter!OpenRouterStart, OpenRouter!CallFails, OpenRouter!AsksForLowReasoning
<1>2. CASE OpenRouter!Answers
  <2>1. PICK used \in 0..run.remaining, known, cut, problem \in BOOLEAN :
              run' = [run EXCEPT !.step = "reading", !.known = known, !.spent = @ + used,
                                 !.remaining = IF known THEN OpenRouter!Larger(0, @ - used) ELSE 0,
                                 !.answer = [truncated |-> cut, problem |-> problem]]
    <3>1. run.step = "calling" => OpenRouter!MaxTokens = run.remaining
      BY SMT DEF OpenRouter!MaxTokens
    <3> QED
      BY <1>2, <3>1, Zenon DEF OpenRouter!Answers
  <2>2. run.remaining \in Nat /\ run.spent \in Nat
    OBVIOUS
  <2> DEFINE left == IF known THEN run.remaining - used ELSE 0
             answer == [truncated |-> cut, problem |-> problem]
  <2>3. run' = [run EXCEPT !.step = "reading", !.known = known, !.spent = run.spent + used,
                           !.remaining = left, !.answer = answer]
    <3>1. (IF known THEN OpenRouter!Larger(0, run.remaining - used) ELSE 0) = left
      BY <2>2, SMT
    <3> QED
      BY <2>1, <3>1, Zenon
  <2>4. left \in Nat /\ run.spent + used \in Nat /\ run.spent + used + left <= MaxOutputTokens
    BY <2>2, SMT
  <2>5. answer \in [truncated : BOOLEAN, problem : BOOLEAN]
    OBVIOUS
  <2> HIDE DEF left, answer
  <2> QED
    BY <2>2, <2>3, <2>4, <2>5, ZenonT(30)
<1>3. CASE OpenRouter!Judge
  <2>1. \/ \E verdict \in {"failed", "succeeded"} : run' = [run EXCEPT !.answer = "none", !.step = "over", !.verdict = verdict]
        \/ run.remaining > 0 /\ run' = [run EXCEPT !.answer = "none", !.step = "calling", !.round = @ + 1]
    BY <1>3, SMTT(60) DEF OpenRouter!Judge
  <2>2. CASE \E verdict \in {"failed", "succeeded"} : run' = [run EXCEPT !.answer = "none", !.step = "over", !.verdict = verdict]
    BY <2>2, ZenonT(30)
  <2>3. CASE run.remaining > 0 /\ run' = [run EXCEPT !.answer = "none", !.step = "calling", !.round = @ + 1]
    <3>1. run.round + 1 \in Nat /\ run.remaining >= 1
      BY <2>3, SMT
    <3> QED
      BY <2>3, <3>1, ZenonT(30)
  <2> QED
    BY <2>1, <2>2, <2>3
<1>4. CASE OpenRouter!Cancel \/ OpenRouter!DeadlinePasses
  BY <1>4 DEF OpenRouter!Cancel, OpenRouter!DeadlinePasses
<1>5. CASE OpenRouter!Aborted
  <2>1. \E why \in {"cancelled", "timed_out"} : run' = [run EXCEPT !.step = "over", !.verdict = why]
    BY <1>5 DEF OpenRouter!Aborted
  <2> QED
    BY <2>1, ZenonT(30)
<1> QED
  BY <1>1, <1>2, <1>3, <1>4, <1>5 DEF OpenRouter!Next, OpenRouter!Own

-----------------------------------------------------------------------------
(* JSON lines *)

\* The verdict exists only at the end; what will be told after the last bytes were read is a
\* success only if the process exited with 0 and nothing reported an error.
JsonlInv ==
    /\ run \in [recoverable : BOOLEAN, vault : BOOLEAN, step : {"new", "preparing", "open", "reading", "telling", "over"},
                proc : {"none", "alive", "stopping", "over"},
                how : {"none", "exit0", "exit1", "limit", "timeout", "cancelled"}, dir : BOOLEAN, env : BOOLEAN, error : BOOLEAN,
                message : BOOLEAN, recovered : BOOLEAN, active : BOOLEAN, 
                told : {"none", "succeeded", "failed", "timed_out", "cancelled"},
                verdict : {"none", "succeeded", "failed", "timed_out", "cancelled", "refused", "rejected"}]
    /\ run.proc \in {"stopping", "over"} => run.how # "none"
    /\ Jsonl!Alive <=> run.step = "open"
    /\ run.step \in {"new", "preparing"} => run.proc = "none"
    /\ run.step \in {"reading", "telling"} => run.proc = "over"
    /\ run.step = "telling" => ~run.dir /\ (run.told = "succeeded" => run.how = "exit0" /\ ~run.error)
    /\ run.step # "over" => run.verdict = "none"
    /\ Jsonl!SuccessIsClean

\* The run begins in the invariant.
LEMMA JsonlInit == Jsonl!Init => JsonlInv
BY DEF Jsonl!Init, JsonlInv, Jsonl!None, Jsonl!Alive, Jsonl!SuccessIsClean

\* Every step of the adapter keeps the invariant.
LEMMA JsonlKeeps == JsonlInv /\ Jsonl!Next => JsonlInv'
<1> SUFFICES ASSUME JsonlInv, Jsonl!Next PROVE JsonlInv'
  OBVIOUS
<1> USE DEF JsonlInv, Jsonl!None, Jsonl!Alive, Jsonl!SuccessIsClean
<1>1. CASE Jsonl!Refused
  BY <1>1, ZenonT(30) DEF Jsonl!Refused
<1>2. CASE Jsonl!Accepted
  BY <1>2, ZenonT(30) DEF Jsonl!Accepted
<1>3. CASE Jsonl!Prepared
  <2>1. CASE run' = [run EXCEPT !.step = "open", !.env = run.vault, !.proc = "alive", !.active = TRUE]
    BY <1>3, <2>1, ZenonT(30) DEF Jsonl!Prepared
  <2>2. CASE run' = [run EXCEPT !.step = "over", !.env = run.vault, !.verdict = "refused"]
    BY <1>3, <2>2, ZenonT(30) DEF Jsonl!Prepared
  <2> QED
    BY <1>3, <2>1, <2>2, Zenon DEF Jsonl!Prepared
<1>4. CASE Jsonl!Reports
  <2>1. CASE run' = [run EXCEPT !.error = TRUE]
    BY <1>4, <2>1, ZenonT(30) DEF Jsonl!Reports
  <2>2. CASE run' = [run EXCEPT !.message = TRUE]
    BY <1>4, <2>2, ZenonT(30) DEF Jsonl!Reports
  <2> QED
    BY <1>4, <2>1, <2>2, Zenon DEF Jsonl!Reports
<1>5. CASE Jsonl!Cancel
  <2>1. CASE run.proc = "alive" /\ run' = [run EXCEPT !.proc = "stopping", !.how = "cancelled"]
    BY <2>1, ZenonT(30)
  <2>2. CASE run' = run
    BY <2>2
  <2> QED
    BY <1>5, <2>1, <2>2, Zenon DEF Jsonl!Cancel, Jsonl!Stopped
<1>6. CASE Jsonl!ProcessEnds
  <2>1. PICK how \in {"exit0", "exit1", "limit", "timeout", run.how} :
              run' = [run EXCEPT !.proc = "over", !.how = how, !.step = "reading"]
    BY <1>6 DEF Jsonl!ProcessEnds
  <2>2. how # "none" /\ run.step = "open"
    BY <1>6, <2>1 DEF Jsonl!ProcessEnds
  <2> QED
    BY <2>1, <2>2, ZenonT(30)
<1>7. CASE Jsonl!Tail
  <2>1. PICK error, message, recovered \in BOOLEAN :
              run' = [run EXCEPT !.step = "telling", !.error = run.error \/ error, !.message = message,
                                 !.recovered = recovered, !.dir = FALSE,
                                 !.told = IF (run.error \/ error) /\ run.how = "exit0" THEN "failed" ELSE Jsonl!Outcome(run.how)]
    BY <1>7, Zenon DEF Jsonl!Tail
  <2>2. run.step = "reading"
    BY <1>7 DEF Jsonl!Tail
  <2>3. run.how \in {"exit0", "exit1", "limit", "timeout", "cancelled"} /\ run.error \in BOOLEAN
    BY <2>2, Zenon
  <2> DEFINE reported == run.error \/ error
             state == IF reported /\ run.how = "exit0" THEN "failed" ELSE Jsonl!Outcome(run.how)
  <2>4. /\ state \in {"succeeded", "failed", "timed_out", "cancelled"}
        /\ state = "succeeded" => run.how = "exit0" /\ ~reported
    BY <2>3, SMTT(30) DEF Jsonl!Outcome
  <2>5. run' = [run EXCEPT !.step = "telling", !.error = reported, !.message = message,
                           !.recovered = recovered, !.dir = FALSE, !.told = state]
    BY <2>1, Zenon
  <2>6. reported \in BOOLEAN
    BY <2>3
  <2> HIDE DEF state, reported
  <2> QED
    BY <2>2, <2>3, <2>4, <2>5, <2>6, ZenonT(30)
<1>8. CASE Jsonl!Settle
  BY <1>8, ZenonT(30) DEF Jsonl!Settle
<1>9. CASE Jsonl!SettleRejected
  BY <1>9, ZenonT(30) DEF Jsonl!SettleRejected
<1> QED
  BY <1>1, <1>2, <1>3, <1>4, <1>5, <1>6, <1>7, <1>8, <1>9, Zenon DEF Jsonl!Next, Jsonl!Own

-----------------------------------------------------------------------------
(* The login that Codex runs share *)

\* Who has passed the first look has a login of the account of the source, which never
\* changes; who is through with its second look has a newer one than the source, unless
\* the source was written again since.
LoginTypeOK ==
    /\ source \in [account : Accounts, at : Nat]
    /\ homes \in [Runs -> [login : [account : Accounts \cup {Logins!None}, at : Nat],
                           at : {"none", "running", "comparing", "replacing", "removing", "removed"}]]
    /\ overtaken \subseteq Runs

LoginInv ==
    /\ LoginTypeOK
    /\ \A r \in Runs : /\ homes[r].at \in {"comparing", "replacing"} => homes[r].login.account = source.account
                       /\ homes[r].at = "none" => homes[r] = Logins!NoHome
                       /\ homes[r].at = "replacing" /\ homes[r].login.at <= source.at => r \in overtaken

\* The login begins in the invariant.
LEMMA LoginInit == Logins!Init => LoginInv
BY DEF Logins!Init, LoginInv, LoginTypeOK, Logins!NoHome, Logins!Login, Logins!None

\* Every step of every run keeps the invariant.
LEMMA LoginKeeps == LoginInv /\ Logins!Next => LoginInv'
<1>0. ASSUME LoginInv, Logins!OthersRefresh PROVE LoginInv'
  BY <1>0 DEF LoginInv, LoginTypeOK, Logins!OthersRefresh, Logins!Overtakes, Logins!NoHome, Logins!Login, Logins!None
<1> SUFFICES ASSUME LoginInv, NEW r \in Runs,
                    \/ Logins!OpensHome(r) \/ Logins!Refreshes(r) \/ Logins!Looks(r)
                    \/ Logins!LooksAgain(r) \/ Logins!Replaces(r) \/ Logins!RemovesHome(r)
             PROVE  LoginInv'
  BY <1>0 DEF Logins!Next
<1> USE DEF LoginInv, LoginTypeOK, Logins!NoHome, Logins!Login, Logins!None, Logins!IsOpen
<1>1. CASE Logins!OpensHome(r)
  BY <1>1 DEF Logins!OpensHome
<1>2. CASE Logins!Refreshes(r)
  BY <1>2 DEF Logins!Refreshes
<1>3. CASE Logins!Looks(r)
  BY <1>3 DEF Logins!Looks
<1>4. CASE Logins!LooksAgain(r)
  BY <1>4 DEF Logins!LooksAgain
<1>5. CASE Logins!Replaces(r)
  BY <1>5 DEF Logins!Replaces, Logins!Overtakes
<1>6. CASE Logins!RemovesHome(r)
  BY <1>6 DEF Logins!RemovesHome
<1> QED
  BY <1>1, <1>2, <1>3, <1>4, <1>5, <1>6

-----------------------------------------------------------------------------
(* The Codex App Server: who may still answer or execute a tool call *)

\* A session is a record of its fields.
IsSession(r) ==
    r = [kind |-> r.kind, step |-> r.step, proc |-> r.proc, how |-> r.how, home |-> r.home, active |-> r.active, inTurn |-> r.inTurn,
         rpc |-> r.rpc, failed |-> r.failed, terminal |-> r.terminal, calls |-> r.calls, host |-> r.host,
         executed |-> r.executed, answers |-> r.answers, deciding |-> r.deciding, cancel |-> r.cancel,
         todo |-> r.todo, verdict |-> r.verdict]

Decisions == [call : Calls, says : {"approved", "denied"}, at : {"asked", "accepted"}]

\* The types of those that matter to tool calls.
CallTypes ==
    /\ run.calls \in [Calls -> {"none", "asking", "open", "executing", "answered", "unanswered"}]
    /\ run.host \in [Calls -> {"none", "open", "approved", "denied"}]
    /\ run.executed \in [Calls -> Nat] /\ run.answers \in [Calls -> Nat]
    /\ run.deciding \in [People -> {Codex!Idle} \cup Decisions]
    /\ run.todo \subseteq Calls

\* Whose decision is about a call, and who has had it accepted and is about to carry it out.
Decides(p, c) == run.deciding[p] # Codex!Idle /\ run.deciding[p].call = c
CarriesOut(p, c) == Decides(p, c) /\ run.deciding[p].at = "accepted"
Carried(c) == \E p \in People : CarriesOut(p, c)

\* What is known of a call: how far the adapter and the domain session are with it, how
\* often it was executed and answered, whether cancel() still has it on its list and a
\* decision is being carried out, and whether cancel() was called.
\*   Before its approval was asked for, a call is nobody's business but its own; one that
\* waits for its decision has had none; a decision is carried out once.  Whoever may
\* still answer the call has its place among the answers there may be.
CallOK(at, host, executed, answers, listed, carried, cancelled) ==
    /\ host = "none" =>
         /\ ~listed /\ ~carried /\ at # "open"
         /\ executed = IF at \in {"executing", "answered"} THEN 1 ELSE 0
         /\ answers = IF at = "answered" THEN 1 ELSE 0
    /\ host = "open" => at = "open" /\ executed = 0 /\ answers = 0 /\ ~carried
    /\ host \in {"approved", "denied"} =>
         /\ at \in {"open", "executing", "answered"}
         /\ at = "open" => answers = 0 /\ carried
         /\ carried => executed = 0 /\ at # "executing"
         /\ executed <= 1
         /\ executed = 1 => host = "approved"
    /\ answers + (IF listed THEN 1 ELSE 0) + (IF carried \/ at = "executing" THEN 1 ELSE 0)
         <= IF cancelled THEN 2 ELSE 1
    /\ listed => cancelled

\* Nobody decides a call the session was not asked about; who carries a decision out is
\* one person, whose decision the session has taken.
DecidersOK(c) ==
    /\ run.host[c] = "none" => \A p \in People : ~Decides(p, c)
    /\ \A p \in People : CarriesOut(p, c) => run.deciding[p].says = run.host[c]
    /\ \A p, q \in People : CarriesOut(p, c) /\ CarriesOut(q, c) => p = q

CallInv(c) ==
    /\ CallOK(run.calls[c], run.host[c], run.executed[c], run.answers[c],
              c \in run.todo, Carried(c), run.cancel # "no")
    /\ DecidersOK(c)

\* A session, and every call of it, is in order.
CodexInv == IsSession(run) /\ CallTypes /\ \A c \in Calls : CallInv(c)

\* Two sessions agree in what concerns tool calls.
Same(r, s) ==
    /\ s.calls = r.calls /\ s.host = r.host /\ s.executed = r.executed /\ s.answers = r.answers
    /\ s.deciding = r.deciding /\ s.todo = r.todo
    /\ s.cancel = "no" <=> r.cancel = "no"

\* Everything but the tool calls, their approvals and the denials of cancel().
Quiet ==
    \/ Codex!Start \/ Codex!StartRefused \/ Codex!Drop \/ Codex!Fallback \/ Codex!Garbage \/ Codex!TurnCompleted
    \/ Codex!TurnStarted \/ Codex!TailIsNothing
    \/ Codex!SendInput \/ Codex!Interrupt \/ Codex!GraceEnds \/ Codex!ProcessEnds \/ Codex!Settle \/ Codex!SettleRejected
    \/ \E m \in Codex!Methods :
         Codex!Expire(m) \/ Codex!LaunchAnswer(m) \/ Codex!LaunchRefused(m) \/ Codex!LateAnswer(m) \/ Codex!OtherAnswer(m)

\* These steps leave what concerns tool calls as it is ...
LEMMA QuietIsSame ==
    ASSUME IsSession(run), Quiet
    PROVE  IsSession(run') /\ Same(run, run')
<1> USE DEF IsSession, Same
<1>1. CASE Codex!Start \/ Codex!StartRefused \/ Codex!Drop \/ Codex!Fallback
  BY <1>1, ZenonT(30) DEF Codex!Start, Codex!StartRefused, Codex!Drop, Codex!Fallback, Codex!Sent
<1>2. CASE \/ Codex!Garbage \/ Codex!TurnStarted \/ Codex!TurnCompleted \/ Codex!TailIsNothing
           \/ Codex!SendInput
  BY <1>2, ZenonT(30) DEF Codex!Garbage, Codex!ProtocolFailure, Codex!Stopped, Codex!TurnCompleted, Codex!TurnStarted,
                          Codex!TailIsNothing, Codex!Read, Codex!SendInput, Codex!Sent
<1>3. CASE Codex!Interrupt \/ Codex!GraceEnds
  BY <1>3, ZenonT(30) DEF Codex!Interrupt, Codex!GraceEnds, Codex!Sent, Codex!Stopped
<1>4. CASE Codex!ProcessEnds \/ Codex!Settle \/ Codex!SettleRejected
  BY <1>4, ZenonT(30) DEF Codex!ProcessEnds, Codex!Settle, Codex!SettleRejected
<1>5. ASSUME NEW m, Codex!Expire(m) \/ Codex!LateAnswer(m) PROVE IsSession(run') /\ Same(run, run')
  BY <1>5, ZenonT(30) DEF Codex!Expire, Codex!Unhealthy, Codex!LateAnswer, Codex!Read, Codex!ProtocolFailure, Codex!Stopped
<1>6. ASSUME NEW m, Codex!LaunchAnswer(m) \/ Codex!LaunchRefused(m) \/ Codex!OtherAnswer(m)
      PROVE  IsSession(run') /\ Same(run, run')
  BY <1>6, ZenonT(30) DEF Codex!LaunchAnswer, Codex!Sent, Codex!LaunchRefused, Codex!Unhealthy, Codex!Stopped,
                          Codex!OtherAnswer, Codex!Read
<1> QED
  BY <1>1, <1>2, <1>3, <1>4, <1>5, <1>6, Zenon DEF Quiet

\* What a step leaves alone of a call it leaves alone.
LEMMA CallStays ==
    ASSUME NEW c \in Calls, CallInv(c),
           run'.calls[c] = run.calls[c], run'.host[c] = run.host[c],
           run'.executed[c] = run.executed[c], run'.answers[c] = run.answers[c],
           c \in run'.todo <=> c \in run.todo, run.cancel # "no" => run'.cancel # "no",
           \A p \in People : Decides(p, c)' <=> Decides(p, c),
           \A p \in People : Decides(p, c) => run'.deciding[p] = run.deciding[p],
           run.answers[c] \in Nat
    PROVE  CallInv(c)'
<1>1. \A p \in People : CarriesOut(p, c)' <=> CarriesOut(p, c)
  BY DEF CarriesOut
<1>2. Carried(c)' <=> Carried(c)
  BY <1>1 DEF Carried
<1>3. CallOK(run.calls[c], run.host[c], run.executed[c], run.answers[c],
             c \in run.todo, Carried(c), run.cancel # "no")'
  <2> HIDE DEF Carried
  <2> QED
    BY <1>2 DEF CallInv, CallOK
<1>4. DecidersOK(c)'
  <2>1. \A p \in People : CarriesOut(p, c) => run'.deciding[p].says = run.deciding[p].says
    BY DEF CarriesOut
  <2> QED
    BY <1>1, <2>1, Zenon DEF CallInv, DecidersOK
<1> QED
  BY <1>3, <1>4 DEF CallInv

\* ... and so the invariant.
LEMMA QuietKeepsCodex ==
    ASSUME CodexInv, IsSession(run'), Same(run, run')
    PROVE  CodexInv'
<1>1. CallTypes'
  BY Zenon DEF CodexInv, CallTypes, Same
<1>2. ASSUME NEW c \in Calls PROVE CallInv(c)'
  <2>1. \A p \in People : Decides(p, c)' <=> Decides(p, c)
    BY Zenon DEF Same, Decides
  <2>2. CallInv(c) /\ run.answers[c] \in Nat
    BY DEF CodexInv, CallTypes
  <2> QED
    BY <2>1, <2>2, CallStays, Zenon DEF Same
<1> QED
  BY <1>1, <1>2 DEF CodexInv

\* A session begins in the invariant.
LEMMA CodexInit == Codex!Init => CodexInv
<1> SUFFICES ASSUME NEW kind, run = Codex!NewRun(kind) PROVE CodexInv
  BY DEF Codex!Init
<1>1. IsSession(run)
  BY ZenonT(30) DEF IsSession, Codex!NewRun
<1>2. /\ run.calls = [c \in Calls |-> "none"] /\ run.host = [c \in Calls |-> "none"]
      /\ run.executed = [c \in Calls |-> 0] /\ run.answers = [c \in Calls |-> 0]
      /\ run.deciding = [p \in People |-> Codex!Idle] /\ run.cancel = "no" /\ run.todo = {}
  BY ZenonT(30) DEF Codex!NewRun, Codex!None
<1>3. CallTypes
  BY <1>2 DEF CallTypes
<1>4. ASSUME NEW c \in Calls PROVE CallInv(c)
  BY <1>2 DEF CallInv, CallOK, DecidersOK, Carried, CarriesOut, Decides
<1> QED
  BY <1>1, <1>3, <1>4 DEF CodexInv

\* The fields of a session that concern tool calls, after a step.
Becomes(calls, host, executed, answers, deciding, todo, cancel) ==
    /\ run'.calls = calls /\ run'.host = host /\ run'.executed = executed /\ run'.answers = answers
    /\ run'.deciding = deciding /\ run'.todo = todo /\ run'.cancel = cancel

\* A step that moves a call and leaves the decisions alone.
LEMMA CallMoves ==
    ASSUME CodexInv, NEW c \in Calls, NEW at, NEW host, NEW executed \in Nat, NEW answers \in Nat, NEW todo,
           Becomes([run.calls EXCEPT ![c] = at], [run.host EXCEPT ![c] = host], [run.executed EXCEPT ![c] = executed],
                   [run.answers EXCEPT ![c] = answers], run.deciding, todo, run.cancel),
           \A d \in Calls \ {c} : d \in todo <=> d \in run.todo,
           CallOK(at, host, executed, answers, c \in todo, Carried(c), run.cancel # "no"),
           host = "none" => run.host[c] = "none",
           Carried(c) => host = run.host[c]
    PROVE  \A d \in Calls : CallInv(d)'
<1>1. \A d \in Calls, p \in People : /\ Decides(p, d)' <=> Decides(p, d)
                                     /\ CarriesOut(p, d)' <=> CarriesOut(p, d)
  BY DEF Becomes, Decides, CarriesOut
<1>2. ASSUME NEW d \in Calls, d # c PROVE CallInv(d)'
  <2>1. CallInv(d) /\ run.answers[d] \in Nat
    BY DEF CodexInv, CallTypes
  <2>2. /\ run'.calls[d] = run.calls[d] /\ run'.host[d] = run.host[d]
        /\ run'.executed[d] = run.executed[d] /\ run'.answers[d] = run.answers[d]
        /\ d \in run'.todo <=> d \in run.todo
        /\ run'.deciding = run.deciding /\ run'.cancel = run.cancel
    BY <1>2 DEF Becomes, CodexInv, CallTypes
  <2> QED
    BY <1>1, <2>1, <2>2, CallStays
<1>3. CallInv(c)'
  <2>1. Carried(c)' <=> Carried(c)
    BY <1>1 DEF Carried
  <2>2. /\ run'.calls[c] = at /\ run'.host[c] = host /\ run'.executed[c] = executed /\ run'.answers[c] = answers
        /\ run'.todo = todo /\ run'.cancel = run.cancel /\ run'.deciding = run.deciding
    BY DEF Becomes, CodexInv, CallTypes
  <2>3. CallOK(run.calls[c], run.host[c], run.executed[c], run.answers[c],
               c \in run.todo, Carried(c), run.cancel # "no")'
    BY <2>1, <2>2 DEF CallOK
  <2>4. DecidersOK(c)'
    <3>1. DecidersOK(c)
      BY DEF CodexInv, CallInv
    <3>2. \A p \in People : CarriesOut(p, c) => host = run.host[c]
      BY DEF Carried
    <3> QED
      BY <1>1, <2>2, <3>1, <3>2, Zenon DEF DecidersOK
  <2> QED
    BY <2>3, <2>4 DEF CallInv
<1> QED
  BY <1>2, <1>3

\* The provider asks for a call.
LEMMA ToolCallKeeps ==
    ASSUME CodexInv, NEW c \in Calls, Codex!ToolCall(c)
    PROVE  CodexInv'
<1>1. /\ run.host = [run.host EXCEPT ![c] = run.host[c]]
      /\ run.executed = [run.executed EXCEPT ![c] = run.executed[c]]
      /\ run.answers = [run.answers EXCEPT ![c] = run.answers[c]]
  BY DEF CodexInv, CallTypes
<1>2. /\ run.executed[c] \in Nat /\ run.answers[c] \in Nat
      /\ run.host[c] \in {"none", "open", "approved", "denied"}
  BY DEF CodexInv, CallTypes
<1>3. CallTypes /\ CallOK(run.calls[c], run.host[c], run.executed[c], run.answers[c],
                          c \in run.todo, Carried(c), run.cancel # "no")
  BY DEF CodexInv, CallInv
<1>4. /\ IsSession(run') /\ run.calls[c] = "none"
      /\ \/ Becomes([run.calls EXCEPT ![c] = "asking"], run.host, run.executed, run.answers,
                    run.deciding, run.todo, run.cancel)
         \/ Becomes([run.calls EXCEPT ![c] = "executing"], run.host, [run.executed EXCEPT ![c] = 1], run.answers,
                    run.deciding, run.todo, run.cancel)
  BY ZenonT(30) DEF CodexInv, IsSession, Codex!ToolCall, Codex!Read, Codex!None, Becomes
<1>5. CallTypes'
  BY <1>3, <1>4 DEF CallTypes, Becomes
<1>6. /\ CallOK("asking", run.host[c], run.executed[c], run.answers[c], c \in run.todo, Carried(c), run.cancel # "no")
      /\ CallOK("executing", run.host[c], 1, run.answers[c], c \in run.todo, Carried(c), run.cancel # "no")
  BY <1>3, <1>4, <1>2 DEF CallOK
<1>7. \A d \in Calls : CallInv(d)'
  BY <1>4, <1>6, <1>1, <1>2, CallMoves
<1> QED
  BY <1>4, <1>5, <1>7 DEF CodexInv

\* The domain session was asked for its approval, ...
LEMMA ApprovalRequestedKeeps ==
    ASSUME CodexInv, NEW c \in Calls, Codex!ApprovalRequested(c)
    PROVE  CodexInv'
<1>1. /\ run.host = [run.host EXCEPT ![c] = run.host[c]]
      /\ run.executed = [run.executed EXCEPT ![c] = run.executed[c]]
      /\ run.answers = [run.answers EXCEPT ![c] = run.answers[c]]
  BY DEF CodexInv, CallTypes
<1>2. /\ run.executed[c] \in Nat /\ run.answers[c] \in Nat
      /\ run.host[c] \in {"none", "open", "approved", "denied"}
  BY DEF CodexInv, CallTypes
<1>3. CallTypes /\ CallOK(run.calls[c], run.host[c], run.executed[c], run.answers[c],
                          c \in run.todo, Carried(c), run.cancel # "no")
  BY DEF CodexInv, CallInv
<1>4. /\ IsSession(run') /\ run.calls[c] = "asking"
      /\ Becomes([run.calls EXCEPT ![c] = "open"], [run.host EXCEPT ![c] = "open"], run.executed, run.answers,
                 run.deciding, run.todo, run.cancel)
  BY ZenonT(30) DEF CodexInv, IsSession, Codex!ApprovalRequested, Becomes
<1>5. CallTypes'
  BY <1>3, <1>4 DEF CallTypes, Becomes
<1>6. run.host[c] = "none"
  BY <1>3, <1>4, <1>2 DEF CallOK
<1>7. ~Carried(c)
  BY <1>3, <1>6 DEF CallOK
<1>8. CallOK("open", "open", run.executed[c], run.answers[c], c \in run.todo, Carried(c), run.cancel # "no")
  BY <1>3, <1>4, <1>6, <1>7, <1>2 DEF CallOK
<1>9. \A d \in Calls : CallInv(d)'
  BY <1>4, <1>6, <1>7, <1>8, <1>1, <1>2, CallMoves
<1> QED
  BY <1>4, <1>5, <1>9 DEF CodexInv

\* ... or refused to be.
LEMMA ApprovalNotRequestedKeeps ==
    ASSUME CodexInv, NEW c \in Calls, Codex!ApprovalNotRequested(c)
    PROVE  CodexInv'
<1>1. /\ run.host = [run.host EXCEPT ![c] = run.host[c]]
      /\ run.executed = [run.executed EXCEPT ![c] = run.executed[c]]
      /\ run.answers = [run.answers EXCEPT ![c] = run.answers[c]]
  BY DEF CodexInv, CallTypes
<1>2. /\ run.executed[c] \in Nat /\ run.answers[c] \in Nat
      /\ run.host[c] \in {"none", "open", "approved", "denied"}
  BY DEF CodexInv, CallTypes
<1>3. CallTypes /\ CallOK(run.calls[c], run.host[c], run.executed[c], run.answers[c],
                          c \in run.todo, Carried(c), run.cancel # "no")
  BY DEF CodexInv, CallInv
<1>4. /\ IsSession(run') /\ run.calls[c] = "asking"
      /\ Becomes([run.calls EXCEPT ![c] = "unanswered"], run.host, run.executed, run.answers,
                 run.deciding, run.todo, run.cancel)
  BY ZenonT(30) DEF CodexInv, IsSession, Codex!ApprovalNotRequested, Codex!ProtocolFailure, Codex!Stopped, Becomes
<1>5. CallTypes'
  BY <1>3, <1>4 DEF CallTypes, Becomes
<1>6. CallOK("unanswered", run.host[c], run.executed[c], run.answers[c], c \in run.todo, Carried(c), run.cancel # "no")
  BY <1>3, <1>4, <1>2 DEF CallOK
<1>7. \A d \in Calls : CallInv(d)'
  BY <1>4, <1>6, <1>1, <1>2, CallMoves
<1> QED
  BY <1>4, <1>5, <1>7 DEF CodexInv

\* execute() of the domain session is over.
LEMMA ToolDoneKeeps ==
    ASSUME CodexInv, NEW c \in Calls, Codex!ToolDone(c)
    PROVE  CodexInv'
<1>1. /\ run.host = [run.host EXCEPT ![c] = run.host[c]]
      /\ run.executed = [run.executed EXCEPT ![c] = run.executed[c]]
      /\ run.answers = [run.answers EXCEPT ![c] = run.answers[c]]
  BY DEF CodexInv, CallTypes
<1>2. /\ run.executed[c] \in Nat /\ run.answers[c] \in Nat
      /\ run.host[c] \in {"none", "open", "approved", "denied"}
  BY DEF CodexInv, CallTypes
<1>3. CallTypes /\ CallOK(run.calls[c], run.host[c], run.executed[c], run.answers[c],
                          c \in run.todo, Carried(c), run.cancel # "no")
  BY DEF CodexInv, CallInv
<1>4. /\ IsSession(run') /\ run.calls[c] = "executing"
      /\ Becomes([run.calls EXCEPT ![c] = "answered"], run.host, run.executed, [run.answers EXCEPT ![c] = run.answers[c] + 1],
                 run.deciding, run.todo, run.cancel)
  BY ZenonT(30) DEF CodexInv, IsSession, Codex!ToolDone, Codex!Answered, Becomes
<1>5. CallTypes'
  BY <1>3, <1>4 DEF CallTypes, Becomes
<1>6. CallOK("answered", run.host[c], run.executed[c], run.answers[c] + 1, c \in run.todo, Carried(c), run.cancel # "no")
  BY <1>3, <1>4, <1>2 DEF CallOK
<1>7. \A d \in Calls : CallInv(d)'
  BY <1>4, <1>6, <1>1, <1>2, CallMoves
<1> QED
  BY <1>4, <1>5, <1>7 DEF CodexInv

\* cancel() answers a call of its list.
LEMMA CancelDeniesKeeps ==
    ASSUME CodexInv, NEW c \in Calls, Codex!CancelDenies(c)
    PROVE  CodexInv'
<1> DEFINE host == IF run.host[c] = "open" THEN "denied" ELSE run.host[c]
<1>1. /\ run.host = [run.host EXCEPT ![c] = run.host[c]]
      /\ run.executed = [run.executed EXCEPT ![c] = run.executed[c]]
      /\ run.answers = [run.answers EXCEPT ![c] = run.answers[c]]
  BY DEF CodexInv, CallTypes
<1>2. /\ run.executed[c] \in Nat /\ run.answers[c] \in Nat
      /\ run.host[c] \in {"none", "open", "approved", "denied"}
  BY DEF CodexInv, CallTypes
<1>3. CallTypes /\ CallOK(run.calls[c], run.host[c], run.executed[c], run.answers[c],
                          c \in run.todo, Carried(c), run.cancel # "no")
  BY DEF CodexInv, CallInv
<1>4. /\ IsSession(run') /\ c \in run.todo
      /\ Becomes([run.calls EXCEPT ![c] = "answered"], [run.host EXCEPT ![c] = host], run.executed,
                 [run.answers EXCEPT ![c] = run.answers[c] + 1], run.deciding, run.todo \ {c}, run.cancel)
  BY ZenonT(30) DEF CodexInv, IsSession, Codex!CancelDenies, Codex!Answered, Becomes
<1>5. CallTypes'
  BY <1>3, <1>4 DEF CallTypes, Becomes
<1>6. /\ host = "none" => run.host[c] = "none"
      /\ Carried(c) => host = run.host[c]
  BY <1>3 DEF CallOK
<1>7. CallOK("answered", host, run.executed[c], run.answers[c] + 1, c \in run.todo \ {c}, Carried(c), run.cancel # "no")
  BY <1>3, <1>4, <1>2 DEF CallOK
<1> HIDE DEF host
<1>8. \A d \in Calls : CallInv(d)'
  BY <1>4, <1>6, <1>7, <1>1, <1>2, CallMoves
<1> QED
  BY <1>4, <1>5, <1>8 DEF CodexInv

\* cancel() lists the open calls.
LEMMA CancelKeeps ==
    ASSUME CodexInv, Codex!Cancel
    PROVE  CodexInv'
<1>1. /\ IsSession(run') /\ run.cancel = "no"
      /\ Becomes(run.calls, run.host, run.executed, run.answers, run.deciding, {c \in Calls : run.calls[c] = "open"}, "denying")
  BY ZenonT(30) DEF CodexInv, IsSession, Codex!Cancel, Codex!Open, Becomes
<1>2. CallTypes'
  BY <1>1 DEF CodexInv, CallTypes, Becomes
<1>3. ASSUME NEW c \in Calls PROVE CallInv(c)'
  <2>1. CallOK(run.calls[c], run.host[c], run.executed[c], run.answers[c],
               c \in run.todo, Carried(c), run.cancel # "no")
    BY DEF CodexInv, CallInv
  <2>2. CallTypes /\ run.host[c] \in {"none", "open", "approved", "denied"} /\ run.answers[c] \in Nat
    BY DEF CodexInv, CallTypes
  <2>3. CallOK(run.calls[c], run.host[c], run.executed[c], run.answers[c], run.calls[c] = "open", Carried(c), TRUE)
    BY <1>1, <2>1, <2>2 DEF CallOK
  <2>4. Carried(c)' <=> Carried(c)
    BY <1>1 DEF Becomes, Carried, CarriesOut, Decides
  <2>5. DecidersOK(c)'
    <3>1. \A p \in People : (Decides(p, c)' <=> Decides(p, c)) /\ (CarriesOut(p, c)' <=> CarriesOut(p, c))
      BY <1>1 DEF Becomes, CarriesOut, Decides
    <3>2. DecidersOK(c)
      BY DEF CodexInv, CallInv
    <3> QED
      BY <1>1, <3>1, <3>2, Zenon DEF DecidersOK, Becomes
  <2> QED
    BY <1>1, <2>3, <2>4, <2>5 DEF CallInv, Becomes, CallOK
<1> QED
  BY <1>1, <1>2, <1>3 DEF CodexInv

\* A step that changes one decision, and perhaps the call it is about.
LEMMA DecisionMoves ==
    ASSUME CodexInv, NEW p \in People, NEW c \in Calls, NEW decision \in {Codex!Idle} \cup Decisions,
           run.deciding[p] # Codex!Idle => run.deciding[p].call = c,
           decision # Codex!Idle => decision.call = c,
           run'.deciding = [run.deciding EXCEPT ![p] = decision], run'.todo = run.todo, run'.cancel = run.cancel,
           \A d \in Calls \ {c} : /\ run'.calls[d] = run.calls[d] /\ run'.host[d] = run.host[d]
                                 /\ run'.executed[d] = run.executed[d] /\ run'.answers[d] = run.answers[d],
           CallInv(c)'
    PROVE  \A d \in Calls : CallInv(d)'
<1> SUFFICES ASSUME NEW d \in Calls, d # c PROVE CallInv(d)'
  OBVIOUS
<1>1. CallInv(d) /\ run.answers[d] \in Nat
  BY DEF CodexInv, CallTypes
<1>2. /\ run'.calls[d] = run.calls[d] /\ run'.host[d] = run.host[d]
      /\ run'.executed[d] = run.executed[d] /\ run'.answers[d] = run.answers[d]
  OBVIOUS
<1>3. ASSUME NEW q \in People
      PROVE  /\ Decides(q, d)' <=> Decides(q, d)
             /\ Decides(q, d) => run'.deciding[q] = run.deciding[q]
  <2>1. run'.deciding[q] = IF q = p THEN decision ELSE run.deciding[q]
    BY DEF CodexInv, CallTypes
  <2> QED
    BY <2>1, Zenon DEF Decides
<1> QED
  BY <1>1, <1>2, <1>3, CallStays

\* Somebody decides; the domain session has not heard of it.
LEMMA DecideKeeps ==
    ASSUME CodexInv, NEW c \in Calls, NEW p \in People, Codex!Decide(p, c)
    PROVE  CodexInv'
<1>1. PICK decision : /\ decision \in Decisions /\ decision.call = c /\ decision.at = "asked"
                      /\ IsSession(run') /\ run.calls[c] = "open" /\ run.deciding[p] = Codex!Idle
                      /\ Becomes(run.calls, run.host, run.executed, run.answers,
                                 [run.deciding EXCEPT ![p] = decision], run.todo, run.cancel)
  <2>1. PICK says \in {"approved", "denied"} :
             run' = [run EXCEPT !.deciding[p] = [call |-> c, says |-> says, at |-> "asked"]]
    BY DEF Codex!Decide
  <2> DEFINE decision == [call |-> c, says |-> says, at |-> "asked"]
  <2>2. decision \in Decisions /\ decision.call = c /\ decision.at = "asked"
    BY DEF Decisions
  <2>3. IsSession(run') /\ Becomes(run.calls, run.host, run.executed, run.answers,
                                   [run.deciding EXCEPT ![p] = decision], run.todo, run.cancel)
    BY <2>1, ZenonT(30) DEF CodexInv, IsSession, Becomes
  <2> QED
    BY <2>2, <2>3, Zenon DEF Codex!Decide, Codex!Open
<1>2. CallTypes'
  BY <1>1 DEF CodexInv, CallTypes, Becomes
<1>3. CallTypes /\ CallOK(run.calls[c], run.host[c], run.executed[c], run.answers[c],
                          c \in run.todo, Carried(c), run.cancel # "no")
  BY DEF CodexInv, CallInv
<1>4. run.host[c] # "none"
  BY <1>1, <1>3 DEF CallOK
<1>5. ASSUME NEW q \in People PROVE CarriesOut(q, c)' <=> CarriesOut(q, c)
  <2>1. run'.deciding[q] = IF q = p THEN decision ELSE run.deciding[q]
    BY <1>1, <1>3 DEF Becomes, CallTypes
  <2> QED
    BY <1>1, <2>1 DEF CarriesOut, Decides
<1>6. ASSUME NEW q \in People, CarriesOut(q, c) PROVE run'.deciding[q] = run.deciding[q]
  <2>1. q # p
    BY <1>1, <1>6 DEF CarriesOut, Decides
  <2> QED
    BY <1>1, <1>3, <2>1 DEF Becomes, CallTypes
<1>7. DecidersOK(c)'
  <2>1. DecidersOK(c) /\ run'.host = run.host
    BY <1>1 DEF CodexInv, CallInv, Becomes
  <2> QED
    BY <1>4, <1>5, <1>6, <2>1, Zenon DEF DecidersOK
<1>8. CallInv(c)'
  <2>1. Carried(c)' <=> Carried(c)
    BY <1>5 DEF Carried
  <2> QED
    BY <1>1, <1>3, <1>7, <2>1 DEF CallInv, CallOK, Becomes
<1>9. \A d \in Calls : CallInv(d)'
  <2>1. /\ run'.deciding = [run.deciding EXCEPT ![p] = decision] /\ run'.todo = run.todo /\ run'.cancel = run.cancel
        /\ run'.calls = run.calls /\ run'.host = run.host /\ run'.executed = run.executed /\ run'.answers = run.answers
    BY <1>1 DEF Becomes
  <2> QED
    BY <1>1, <1>8, <2>1, DecisionMoves
<1> QED
  BY <1>1, <1>2, <1>9 DEF CodexInv

\* The domain session takes the decision, or has one already.
LEMMA HostDecidesKeeps ==
    ASSUME CodexInv, NEW p \in People, Codex!HostDecides(p)
    PROVE  CodexInv'
<1>1. PICK decision : decision = run.deciding[p]
  OBVIOUS
<1>2. /\ decision \in Decisions /\ decision.call \in Calls /\ decision.says \in {"approved", "denied"}
      /\ decision.at = "asked" /\ run.deciding[p] # Codex!Idle
  BY <1>1 DEF CodexInv, CallTypes, Codex!HostDecides, Codex!Idle, Decisions
<1>3. PICK c \in Calls : c = decision.call
  BY <1>2
<1>4. CallTypes /\ CallOK(run.calls[c], run.host[c], run.executed[c], run.answers[c],
                          c \in run.todo, Carried(c), run.cancel # "no")
  BY DEF CodexInv, CallInv
<1>5. /\ run.calls = [run.calls EXCEPT ![c] = run.calls[c]] /\ run.host = [run.host EXCEPT ![c] = run.host[c]]
      /\ run.executed = [run.executed EXCEPT ![c] = run.executed[c]]
      /\ run.answers = [run.answers EXCEPT ![c] = run.answers[c]]
      /\ run.executed[c] \in Nat /\ run.answers[c] \in Nat
  BY <1>4 DEF CallTypes
<1>6. CASE run.host[c] = "open"
  <2> DEFINE accepted == [decision EXCEPT !.at = "accepted"]
  <2>1. accepted \in Decisions /\ accepted.call = c /\ accepted.says = decision.says /\ accepted.at = "accepted"
        /\ accepted # Codex!Idle
    BY <1>2, <1>3 DEF Decisions, Codex!Idle
  <2>2. /\ IsSession(run')
        /\ Becomes(run.calls, [run.host EXCEPT ![c] = decision.says], run.executed, run.answers,
                   [run.deciding EXCEPT ![p] = accepted], run.todo, run.cancel)
    BY <1>1, <1>3, <1>6, ZenonT(30) DEF CodexInv, IsSession, Codex!HostDecides, Becomes
  <2> HIDE DEF accepted
  <2>3. CallTypes'
    BY <1>2, <1>4, <2>1, <2>2 DEF CallTypes, Becomes
  <2>4. ASSUME NEW q \in People PROVE CarriesOut(q, c)' <=> q = p
    <3>1. run'.deciding[q] = IF q = p THEN accepted ELSE run.deciding[q]
      BY <1>4, <2>2 DEF Becomes, CallTypes
    <3>2. ~CarriesOut(q, c)
      BY <1>4, <1>6 DEF CallOK, Carried
    <3> QED
      BY <2>1, <3>1, <3>2 DEF CarriesOut, Decides
  <2>5. /\ run'.host[c] = decision.says /\ run'.deciding[p] = accepted /\ run'.calls = run.calls
        /\ run'.executed = run.executed /\ run'.answers = run.answers /\ run'.todo = run.todo /\ run'.cancel = run.cancel
    BY <1>4, <2>2 DEF Becomes, CallTypes
  <2>6. CallInv(c)'
    <3>1. DecidersOK(c)'
      BY <1>2, <2>1, <2>4, <2>5 DEF DecidersOK
    <3>2. Carried(c)'
      BY <2>4 DEF Carried
    <3> QED
      BY <1>2, <1>4, <1>5, <1>6, <2>5, <3>1, <3>2 DEF CallInv, CallOK
  <2>7. \A d \in Calls : CallInv(d)'
    <3>1. /\ \A d \in Calls \ {c} : /\ run'.calls[d] = run.calls[d] /\ run'.host[d] = run.host[d]
                                   /\ run'.executed[d] = run.executed[d] /\ run'.answers[d] = run.answers[d]
          /\ run'.deciding = [run.deciding EXCEPT ![p] = accepted]
          /\ run'.todo = run.todo /\ run'.cancel = run.cancel
      BY <1>4, <2>1, <2>2, <2>6 DEF Becomes, CallTypes
    <3> QED
      BY <1>1, <1>3, <2>1, <2>2, <2>6, <3>1, DecisionMoves
  <2> QED
    BY <2>2, <2>3, <2>7 DEF CodexInv
<1>7. CASE run.host[c] # "open"
  <2>1. /\ IsSession(run')
        /\ Becomes(run.calls, run.host, run.executed, run.answers,
                   [run.deciding EXCEPT ![p] = Codex!Idle], run.todo, run.cancel)
    BY <1>1, <1>3, <1>7, ZenonT(30) DEF CodexInv, IsSession, Codex!HostDecides, Becomes
  <2>2. CallTypes'
    BY <1>4, <2>1 DEF CallTypes, Becomes
  <2>3. ASSUME NEW q \in People
        PROVE  /\ CarriesOut(q, c)' <=> CarriesOut(q, c)
               /\ Decides(q, c)' => Decides(q, c)
               /\ CarriesOut(q, c) => run'.deciding[q] = run.deciding[q]
    <3>1. run'.deciding[q] = IF q = p THEN Codex!Idle ELSE run.deciding[q]
      BY <1>4, <2>1 DEF Becomes, CallTypes
    <3> QED
      BY <1>1, <1>2, <3>1 DEF CarriesOut, Decides
  <2>4. CallInv(c)'
    <3>1. DecidersOK(c) /\ run'.host = run.host
      BY <2>1 DEF CodexInv, CallInv, Becomes
    <3>2. DecidersOK(c)'
      BY <2>3, <3>1, Zenon DEF DecidersOK
    <3>3. Carried(c)' <=> Carried(c)
      BY <2>3 DEF Carried
    <3> QED
      BY <1>4, <2>1, <3>2, <3>3 DEF CallInv, CallOK, Becomes
  <2>5. \A d \in Calls : CallInv(d)'
    <3>1. /\ \A d \in Calls \ {c} : /\ run'.calls[d] = run.calls[d] /\ run'.host[d] = run.host[d]
                                   /\ run'.executed[d] = run.executed[d] /\ run'.answers[d] = run.answers[d]
          /\ run'.deciding = [run.deciding EXCEPT ![p] = Codex!Idle]
          /\ run'.todo = run.todo /\ run'.cancel = run.cancel
      BY <1>4, <2>1, <2>4 DEF Becomes, CallTypes
    <3> QED
      BY <1>1, <1>3, <2>1, <2>4, <3>1, DecisionMoves
  <2> QED
    BY <2>1, <2>2, <2>5 DEF CodexInv
<1> QED
  BY <1>6, <1>7

\* The decision is carried out, by the only one who may.
LEMMA CarryOutKeeps ==
    ASSUME CodexInv, NEW p \in People, Codex!CarryOut(p)
    PROVE  CodexInv'
<1>1. PICK decision : decision = run.deciding[p]
  OBVIOUS
<1>2. /\ decision \in Decisions /\ decision.call \in Calls /\ decision.says \in {"approved", "denied"}
      /\ decision.at = "accepted" /\ run.deciding[p] # Codex!Idle
  BY <1>1 DEF CodexInv, CallTypes, Codex!CarryOut, Codex!Idle, Decisions
<1>3. PICK c \in Calls : c = decision.call
  BY <1>2
<1>4. CallTypes /\ CallOK(run.calls[c], run.host[c], run.executed[c], run.answers[c],
                          c \in run.todo, Carried(c), run.cancel # "no")
  BY DEF CodexInv, CallInv
<1>5. /\ run.calls = [run.calls EXCEPT ![c] = run.calls[c]] /\ run.host = [run.host EXCEPT ![c] = run.host[c]]
      /\ run.executed = [run.executed EXCEPT ![c] = run.executed[c]]
      /\ run.answers = [run.answers EXCEPT ![c] = run.answers[c]]
      /\ run.executed[c] \in Nat /\ run.answers[c] \in Nat
  BY <1>4 DEF CallTypes
<1>6. CarriesOut(p, c) /\ DecidersOK(c) /\ Carried(c)
  BY <1>1, <1>2, <1>3 DEF CodexInv, CallInv, CarriesOut, Decides, Carried
<1>7. run.host[c] = decision.says
  BY <1>1, <1>6 DEF DecidersOK
<1>8. ASSUME run'.deciding = [run.deciding EXCEPT ![p] = Codex!Idle], run'.host = run.host
      PROVE  DecidersOK(c)' /\ ~Carried(c)'
  <2>1. ASSUME NEW q \in People PROVE ~CarriesOut(q, c)' /\ (Decides(q, c)' => Decides(q, c))
    <3>1. run'.deciding[q] = IF q = p THEN Codex!Idle ELSE run.deciding[q]
      BY <1>4, <1>8 DEF CallTypes
    <3>2. CarriesOut(q, c) => q = p
      BY <1>6 DEF DecidersOK
    <3> QED
      BY <3>1, <3>2 DEF CarriesOut, Decides
  <2> QED
    BY <1>6, <1>8, <2>1 DEF DecidersOK, Carried
<1>9. CASE decision.says = "approved"
  <2>1. /\ IsSession(run')
        /\ Becomes([run.calls EXCEPT ![c] = "executing"], run.host, [run.executed EXCEPT ![c] = run.executed[c] + 1],
                   run.answers, [run.deciding EXCEPT ![p] = Codex!Idle], run.todo, run.cancel)
    BY <1>1, <1>3, <1>9, ZenonT(30) DEF CodexInv, IsSession, Codex!CarryOut, Becomes
  <2>2. CallTypes'
    BY <1>4, <2>1 DEF CallTypes, Becomes
  <2>3. CallOK("executing", run.host[c], run.executed[c] + 1, run.answers[c], c \in run.todo, FALSE, run.cancel # "no")
    BY <1>2, <1>4, <1>5, <1>6, <1>7, <1>9 DEF CallOK
  <2>4. CallInv(c)'
    <3>1. /\ run'.calls[c] = "executing" /\ run'.host = run.host /\ run'.executed[c] = run.executed[c] + 1
          /\ run'.answers = run.answers /\ run'.todo = run.todo /\ run'.cancel = run.cancel
          /\ run'.deciding = [run.deciding EXCEPT ![p] = Codex!Idle]
      BY <1>4, <2>1 DEF Becomes, CallTypes
    <3> QED
      BY <1>8, <2>3, <3>1 DEF CallInv, CallOK
  <2>5. \A d \in Calls : CallInv(d)'
    <3>1. /\ \A d \in Calls \ {c} : /\ run'.calls[d] = run.calls[d] /\ run'.host[d] = run.host[d]
                                   /\ run'.executed[d] = run.executed[d] /\ run'.answers[d] = run.answers[d]
          /\ run'.deciding = [run.deciding EXCEPT ![p] = Codex!Idle]
          /\ run'.todo = run.todo /\ run'.cancel = run.cancel
      BY <1>4, <2>1, <2>4 DEF Becomes, CallTypes
    <3> QED
      BY <1>1, <1>3, <2>1, <2>4, <3>1, DecisionMoves
  <2> QED
    BY <2>1, <2>2, <2>5 DEF CodexInv
<1>10. CASE decision.says = "denied"
  <2>1. /\ IsSession(run')
        /\ Becomes([run.calls EXCEPT ![c] = "answered"], run.host, run.executed,
                   [run.answers EXCEPT ![c] = run.answers[c] + 1], [run.deciding EXCEPT ![p] = Codex!Idle], run.todo, run.cancel)
    BY <1>1, <1>3, <1>10, ZenonT(30) DEF CodexInv, IsSession, Codex!CarryOut, Codex!Answered, Becomes
  <2>2. CallTypes'
    BY <1>4, <2>1 DEF CallTypes, Becomes
  <2>3. CallOK("answered", run.host[c], run.executed[c], run.answers[c] + 1, c \in run.todo, FALSE, run.cancel # "no")
    BY <1>2, <1>4, <1>5, <1>6, <1>7, <1>10 DEF CallOK
  <2>4. CallInv(c)'
    <3>1. /\ run'.calls[c] = "answered" /\ run'.host = run.host /\ run'.executed = run.executed
          /\ run'.answers[c] = run.answers[c] + 1 /\ run'.todo = run.todo /\ run'.cancel = run.cancel
          /\ run'.deciding = [run.deciding EXCEPT ![p] = Codex!Idle]
      BY <1>4, <2>1 DEF Becomes, CallTypes
    <3> QED
      BY <1>8, <2>3, <3>1 DEF CallInv, CallOK
  <2>5. \A d \in Calls : CallInv(d)'
    <3>1. /\ \A d \in Calls \ {c} : /\ run'.calls[d] = run.calls[d] /\ run'.host[d] = run.host[d]
                                   /\ run'.executed[d] = run.executed[d] /\ run'.answers[d] = run.answers[d]
          /\ run'.deciding = [run.deciding EXCEPT ![p] = Codex!Idle]
          /\ run'.todo = run.todo /\ run'.cancel = run.cancel
      BY <1>4, <2>1, <2>4 DEF Becomes, CallTypes
    <3> QED
      BY <1>1, <1>3, <2>1, <2>4, <3>1, DecisionMoves
  <2> QED
    BY <2>1, <2>2, <2>5 DEF CodexInv
<1> QED
  BY <1>2, <1>9, <1>10

\* Every step of a session keeps the invariant.
LEMMA CodexKeeps == CodexInv /\ Codex!Next => CodexInv'
<1> SUFFICES ASSUME CodexInv, Codex!Next PROVE CodexInv'
  OBVIOUS
<1>1. CASE Quiet
  BY <1>1, QuietIsSame, QuietKeepsCodex DEF CodexInv
<1>2. CASE Codex!Cancel
  BY <1>2, CancelKeeps
<1>3. CASE \E c \in Calls : Codex!CancelDenies(c)
  BY <1>3, CancelDeniesKeeps
<1>4. CASE \E p \in People : Codex!HostDecides(p) \/ Codex!CarryOut(p)
  BY <1>4, HostDecidesKeeps, CarryOutKeeps
<1>5. CASE \E c \in Calls : \/ Codex!ToolCall(c) \/ Codex!ToolDone(c)
                            \/ Codex!ApprovalRequested(c) \/ Codex!ApprovalNotRequested(c)
                            \/ \E p \in People : Codex!Decide(p, c)
  BY <1>5, ToolCallKeeps, ToolDoneKeeps, ApprovalRequestedKeeps, ApprovalNotRequestedKeeps, DecideKeeps
<1> QED
  BY <1>1, <1>2, <1>3, <1>4, <1>5, Zenon DEF Codex!Next, Codex!Own, Codex!Environment, Quiet

\* The invariant says what is promised of tool calls.
LEMMA CodexSettlesOnce == CodexInv => Codex!ToolCallsSettleOnce
<1> SUFFICES ASSUME CodexInv, NEW c \in Calls
             PROVE  /\ run.executed[c] <= 1
                    /\ run.executed[c] = 1 => run.host[c] \in {"none", "approved"}
                    /\ run.answers[c] <= 1 \/ (run.answers[c] = 2 /\ run.cancel # "no" /\ run.host[c] # "open")
  BY Zenon DEF Codex!ToolCallsSettleOnce, Codex!None
<1>1. /\ CallOK(run.calls[c], run.host[c], run.executed[c], run.answers[c],
                c \in run.todo, Carried(c), run.cancel # "no")
      /\ run.executed[c] \in Nat /\ run.answers[c] \in Nat /\ run.host[c] \in {"none", "open", "approved", "denied"}
  BY DEF CodexInv, CallInv, CallTypes
<1> QED
  BY <1>1 DEF CallOK

-----------------------------------------------------------------------------
(* Together *)

\* The invariant of whichever system moves.
ProvidersInv ==
    /\ part = "codex" => CodexInv
    /\ part = "acp" => AcpInv
    /\ part = "openrouter" => OpenRouterInv
    /\ part = "jsonl" => JsonlInv
    /\ part = "login" => LoginInv

\* Each of the systems begins in its invariant, ...
LEMMA ProvidersInit == MCInit => ProvidersInv
BY CodexInit, AcpInit, OpenRouterInit, JsonlInit, LoginInit DEF MCInit, ProvidersInv

\* ... keeps it, ...
LEMMA ProvidersKeep == ProvidersInv /\ [MCNext]_allVars => ProvidersInv'
<1> SUFFICES ASSUME ProvidersInv, [MCNext]_allVars PROVE ProvidersInv'
  OBVIOUS
<1>1. CASE Supervised(Next)
  BY <1>1 DEF Supervised, ProvidersInv
<1>2. CASE UNCHANGED allVars
  <2>1. CodexInv => CodexInv'
    BY <1>2, QuietKeepsCodex DEF allVars, CodexInv, Same, IsSession
  <2>2. (AcpInv => AcpInv') /\ (OpenRouterInv => OpenRouterInv')
    BY <1>2, Zenon DEF allVars, AcpInv, OpenRouterInv
  <2>3. JsonlInv => JsonlInv'
    <3>1. run' = run
      BY <1>2 DEF allVars
    <3> QED
      BY <3>1 DEF JsonlInv, Jsonl!Alive, Jsonl!SuccessIsClean
  <2>4. LoginInv => LoginInv'
    BY <1>2, Zenon DEF allVars, loginVars, LoginInv, LoginTypeOK
  <2> QED
    BY <1>2, <2>1, <2>2, <2>3, <2>4 DEF allVars, ProvidersInv
<1> QED
  BY <1>1, <1>2, CodexKeeps, AcpKeeps, OpenRouterKeeps, JsonlKeeps, LoginKeeps DEF MCNext, ProvidersInv, Adapter, LoginIsShared

\* ... and so has it always.
LEMMA ProvidersAlways == MCSpec => []ProvidersInv
BY ProvidersInit, ProvidersKeep, PTL DEF MCSpec

\* Codex: a tool call is executed at most once, one that needed an approval only after
\* it was given, and answered once, but for a call cancel() answers while its decision
\* is carried out (codex-app-server-adapter.ts:767-811).  ACP: the end is told once and
\* is the verdict.  OpenRouter: all paid calls together keep to the allowance.  JSON
\* lines: a success is an exit with code 0 and no reported error.
THEOREM AdaptersKeepTheirWordHolds == MCSpec => []AdaptersKeepTheirWord
<1>1. ProvidersInv => AdaptersKeepTheirWord
  <2>1. AcpInv => Acp!TellsOnce
    <3> SUFFICES ASSUME AcpOK(run) PROVE Acp!TellsOnce
      BY DEF AcpInv
    <3>1. CASE run.step # "closing"
      BY <3>1 DEF AcpOK, Acp!TellsOnce, Acp!None
    <3>2. CASE run.step = "closing"
      BY <3>2 DEF AcpOK, Acp!TellsOnce, Acp!None
    <3> QED
      BY <3>1, <3>2
  <2>2. OpenRouterInv => OpenRouter!WithinAllowance
    <3> SUFFICES ASSUME OpenRouterInv PROVE OpenRouter!WithinAllowance
      OBVIOUS
    <3>1. run.spent \in Nat /\ run.remaining \in Nat /\ run.spent + run.remaining <= MaxOutputTokens
      BY Zenon DEF OpenRouterInv
    <3> QED
      BY <3>1, AllowanceAssumption DEF OpenRouter!WithinAllowance
  <2> QED
    BY <2>1, <2>2, CodexSettlesOnce DEF ProvidersInv, AdaptersKeepTheirWord, JsonlInv
<1> QED
  BY ProvidersAlways, <1>1, PTL

\* The login stays the account's it was, whatever the runs refresh and however their
\* looks and replacements interleave; a run puts back an older token only if the source
\* was written again between its second look and its rename
\* (codex-app-server-adapter.ts:151-207).
THEOREM LoginStaysOwnHolds == MCSpec => LoginStaysOwn
<1> DEFINE Step == /\ source'.account = source.account
                   /\ source'.at < source.at =>
                        \E r \in overtaken : homes[r].at = "replacing" /\ source' = homes[r].login
<1>1. ProvidersInv /\ [MCNext]_allVars => [Step]_(Logins!loginVars)
  <2> SUFFICES ASSUME ProvidersInv, MCNext, part = "login", Logins!Next PROVE Step
    BY DEF MCNext, Supervised, Adapter, LoginIsShared, allVars, loginVars, Logins!loginVars
  <2>1. LoginInv /\ Logins!Next
    BY DEF ProvidersInv
  <2>2. CASE source' = source
    BY <2>1, <2>2 DEF LoginInv, LoginTypeOK
  <2>3. CASE Logins!OthersRefresh
    BY <2>1, <2>3 DEF Logins!OthersRefresh, Logins!Login, LoginInv, LoginTypeOK
  <2>4. ASSUME source' # source, NEW r \in Runs, Logins!Replaces(r) PROVE Step
    <3>1. source' = homes[r].login /\ homes[r].at = "replacing"
      BY <2>4 DEF Logins!Replaces
    <3> QED
      BY <2>1, <3>1 DEF LoginInv, LoginTypeOK
  <2> QED
    BY <2>1, <2>2, <2>3, <2>4, Zenon DEF Logins!Next, Logins!OpensHome, Logins!Refreshes, Logins!Looks,
                                        Logins!LooksAgain, Logins!RemovesHome
<1> QED
  BY ProvidersAlways, <1>1, PTL DEF MCSpec, LoginStaysOwn, Logins!LoginStaysOwn

=============================================================================
