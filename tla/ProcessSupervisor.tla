------------------------- MODULE ProcessSupervisor -------------------------
(***************************************************************************)
(* The class ProcessSupervisor of                                          *)
(* src/server/src/agents/process-supervisor.ts for one supervised process: *)
(* the provider process and the processes it forks, the request that ends  *)
(* them (cancel, timers, limits), the cleanup of the process tree on POSIX *)
(* and on Windows, the bounded output and the result the caller awaits.    *)
(*                                                                         *)
(* Any process may exit at any time; SIGTERM is one of the reasons it may  *)
(* and needs no state.  Descendants stay in the process group of the root  *)
(* and process numbers are not used again.                                 *)
(***************************************************************************)
EXTENDS Naturals, FiniteSets

CONSTANTS
    Processes,      \* the provider process and all it may fork
    Root,           \* the provider process
    MaxChunk,       \* bound: the size of one chunk of output
    StdoutLimit,    \* limits.stdoutBytes
    StderrLimit,    \* limits.stderrBytes
    TotalLimit      \* limits.totalOutputBytes

ASSUME SupervisorAssumption ==
    /\ IsFiniteSet(Processes)
    /\ Root \in Processes
    /\ MaxChunk \in Nat \ {0}
    /\ StdoutLimit \in Nat \ {0}
    /\ StderrLimit \in Nat \ {0}
    /\ TotalLimit \in Nat \ {0}

VARIABLES
    platform,    \* process.platform
    started,     \* start() has returned
    proc,        \* "unborn", "alive" or "dead" for each process
    parent,      \* the process each was forked by
    piped,       \* the processes that hold the pipes of the root
    requested,   \* requestedTermination
    cleanup,     \* how far terminationCleanup is
    snapshot,    \* windowsTree, once the process table was read
    targets,     \* the part of windowsTree the kill loop has not reached
    settled,     \* the close event has been handled
    result,      \* the termination the completion was resolved with
    kept,        \* the bytes of output kept per stream
    truncated,   \* the streams flagged as truncated
    lost,        \* history: the streams with bytes missing in the result
    probing,     \* resourceProbeRunning
    misses       \* resourceRootVisibilityMisses

processVars == <<proc, parent, piped>>
cleanupVars == <<cleanup, snapshot, targets>>
outputVars == <<kept, truncated, lost>>
probeVars == <<probing, misses>>
vars == <<platform, started, processVars, requested, cleanupVars, settled,
          result, outputVars, probeVars>>

Streams == {"stdout", "stderr"}

\* ProcessTermination without the natural ends; memory and child process
\* limits are one kind.
Kinds == {"cancelled", "timeout", "idle_timeout", "output_limit",
          "resource_limit", "resource_probe_error", "raw_log_error",
          "spawn_error"}

TypeOK ==
    /\ platform \in {"posix", "win32"}
    /\ started \in BOOLEAN
    /\ settled \in BOOLEAN
    /\ probing \in BOOLEAN
    /\ proc \in [Processes -> {"unborn", "alive", "dead"}]
    /\ parent \in [Processes -> Processes]
    /\ piped \subseteq Processes
    /\ requested \in Kinds \cup {"none"}
    /\ cleanup \in {"none", "grace", "table", "read", "killing", "done"}
    /\ snapshot \subseteq Processes
    /\ targets \subseteq snapshot
    /\ result \in Kinds \cup {"none", "natural"}
    /\ kept \in [Streams -> Nat]
    /\ truncated \subseteq Streams
    /\ lost \subseteq Streams
    /\ misses \in 0 .. 1

Init ==
    /\ platform \in {"posix", "win32"}
    /\ started = FALSE
    /\ proc = [p \in Processes |-> "unborn"]
    /\ parent = [p \in Processes |-> Root]
    /\ piped = {}
    /\ requested = "none"
    /\ cleanup = "none"
    /\ snapshot = {}
    /\ targets = {}
    /\ settled = FALSE
    /\ result = "none"
    /\ kept = [s \in Streams |-> 0]
    /\ truncated = {}
    /\ lost = {}
    /\ probing = FALSE
    /\ misses = 0

Alive == {p \in Processes : proc[p] = "alive"}

\* child.pid is set.
HasPid == proc[Root] # "unborn"

\* p and what a walk over the children of living processes reaches from it:
\* the tree of the process table, and what taskkill /t ends.
TreeOf(p) ==
    {q \in Alive :
        \A S \in SUBSET Alive :
            (/\ p \in S
             /\ \A c \in Alive : parent[c] \in S => c \in S) => q \in S}

Killed(S) == [p \in Processes |->
                 IF p \in S /\ proc[p] = "alive" THEN "dead" ELSE proc[p]]

Smaller(a, b) == IF a < b THEN a ELSE b

-----------------------------------------------------------------------------
(* requestTermination() *)

\* Where the cleanup waits first: on Windows for the process table, on POSIX
\* for the grace period that follows SIGTERM to the group.
FirstWait(pid) ==
    IF platform = "posix" THEN "grace" ELSE IF pid THEN "table" ELSE "done"

\* Mutant: a later request replaces the first one, also after the close event.
RequestAgain(kind, pid) ==
    /\ requested' = kind
    /\ cleanup' = IF requested = "none" THEN FirstWait(pid) ELSE cleanup

\* The first request decides; after the close event there is none.
Request(kind, pid) ==
    IF requested # "none" \/ settled
    THEN UNCHANGED <<requested, cleanup>>
    ELSE /\ requested' = kind
         /\ cleanup' = FirstWait(pid)

\* Mutant: the signal goes to the provider process, not to its group.
GraceEndsForRoot ==
    /\ cleanup = "grace"
    /\ cleanup' = "done"
    /\ proc' = Killed({Root})
    /\ UNCHANGED <<platform, started, parent, piped, requested, snapshot,
                   targets, settled, result, outputVars, probeVars>>

\* The grace period is over: SIGKILL to the process group.
GraceEnds ==
    /\ cleanup = "grace"
    /\ cleanup' = "done"
    /\ proc' = Killed(Processes)
    /\ UNCHANGED <<platform, started, parent, piped, requested, snapshot,
                   targets, settled, result, outputVars, probeVars>>

\* The Windows process table is read while the root is in it.
TableRead ==
    /\ cleanup = "table"
    /\ proc[Root] = "alive"
    /\ cleanup' = "read"
    /\ snapshot' = TreeOf(Root)
    /\ targets' = TreeOf(Root)
    /\ UNCHANGED <<platform, started, processVars, requested, settled, result,
                   outputVars, probeVars>>

\* The command fails or the root is not in the table: taskkill /t on the
\* root, which finds nothing when the root has exited.
TableFails ==
    /\ cleanup = "table"
    /\ cleanup' = "done"
    /\ proc' = Killed(TreeOf(Root))
    /\ UNCHANGED <<platform, started, parent, piped, requested, snapshot,
                   targets, settled, result, outputVars, probeVars>>

\* The result of the table arrives: child.kill() ends the root alone.
RootKilled ==
    /\ cleanup = "read"
    /\ cleanup' = "killing"
    /\ proc' = Killed({Root})
    /\ UNCHANGED <<platform, started, parent, piped, requested, snapshot,
                   targets, settled, result, outputVars, probeVars>>

\* One round of the loop over the snapshot, deepest processes first.
KillSurvivor(p) ==
    /\ cleanup = "killing"
    /\ p \in targets
    /\ \A q \in targets \ {p} : parent[q] # p
    /\ proc' = Killed(TreeOf(p))
    /\ targets' = targets \ {p}
    /\ cleanup' = IF targets = {p} THEN "done" ELSE "killing"
    /\ UNCHANGED <<platform, started, parent, piped, requested, snapshot,
                   settled, result, outputVars, probeVars>>

-----------------------------------------------------------------------------
(* start() and the operating system *)

\* spawn() succeeds or reports its failure later; an initial input over the
\* limit is refused at once.
Start ==
    /\ ~started
    /\ started' = TRUE
    /\ \E spawned, excessive \in BOOLEAN :
        /\ proc' = IF spawned THEN [proc EXCEPT ![Root] = "alive"] ELSE proc
        /\ piped' = IF spawned THEN {Root} ELSE {}
        /\ IF excessive THEN Request("output_limit", spawned)
           ELSE UNCHANGED <<requested, cleanup>>
    /\ UNCHANGED <<platform, parent, snapshot, targets, settled, result,
                   outputVars, probeVars>>

\* The error event of a failed spawn: it starts no cleanup.
SpawnError ==
    /\ started /\ ~HasPid
    /\ requested = "none"
    /\ requested' = "spawn_error"
    /\ UNCHANGED <<platform, started, processVars, cleanupVars, settled,
                   result, outputVars, probeVars>>

\* A process forks another, which may or may not inherit the pipes.
Fork(p, q) ==
    /\ p \in Alive
    /\ proc[q] = "unborn" /\ q # Root
    /\ proc' = [proc EXCEPT ![q] = "alive"]
    /\ parent' = [parent EXCEPT ![q] = p]
    /\ piped' \in {piped} \cup (IF p \in piped THEN {piped \cup {q}} ELSE {})
    /\ UNCHANGED <<platform, started, requested, cleanupVars, settled, result,
                   outputVars, probeVars>>

\* A process exits by itself.
Exit(p) ==
    /\ p \in Alive
    /\ proc' = [proc EXCEPT ![p] = "dead"]
    /\ UNCHANGED <<platform, started, parent, piped, requested, cleanupVars,
                   settled, result, outputVars, probeVars>>

\* The close event: the root has ended and nobody holds its pipes.  The
\* timers stop here.
Close ==
    /\ started /\ ~settled
    /\ IF HasPid THEN proc[Root] = "dead" /\ piped \cap Alive = {}
       ELSE requested # "none"
    /\ settled' = TRUE
    /\ UNCHANGED <<platform, started, processVars, requested, cleanupVars,
                   result, outputVars, probeVars>>

Verdict == IF requested = "none" THEN "natural" ELSE requested

\* Mutant: the close handler does not await the cleanup.
ResolveEarly ==
    /\ settled /\ result = "none"
    /\ result' = Verdict
    /\ UNCHANGED <<platform, started, processVars, requested, cleanupVars,
                   settled, outputVars, probeVars>>

\* The close handler goes on once the cleanup has finished.
Resolve ==
    /\ settled /\ result = "none"
    /\ cleanup \in {"none", "done"}
    /\ result' = Verdict
    /\ UNCHANGED <<platform, started, processVars, requested, cleanupVars,
                   settled, outputVars, probeVars>>

-----------------------------------------------------------------------------
(* The reasons to end a process *)

Ends(kind) ==
    /\ started /\ ~settled
    /\ Request(kind, HasPid)
    /\ UNCHANGED <<platform, started, processVars, snapshot, targets, settled,
                   result, outputVars, probeVars>>

WallTimer == Ends("timeout")
IdleTimer == Ends("idle_timeout")

\* The caller may still cancel after the close event.
Cancel ==
    /\ started
    /\ Request("cancelled", HasPid)
    /\ UNCHANGED <<platform, started, processVars, snapshot, targets, settled,
                   result, outputVars, probeVars>>

\* The resource timer starts a sample unless one runs or the end is decided.
ProbeStarts ==
    /\ started /\ HasPid
    /\ ~probing /\ ~settled /\ requested = "none"
    /\ probing' = TRUE
    /\ UNCHANGED <<platform, started, processVars, requested, cleanupVars,
                   settled, result, outputVars, misses>>

\* A sample does not see the root: tolerated once in a row.
ProbeMisses ==
    /\ misses = 0
    /\ proc[Root] = "alive"
    /\ probing' = FALSE
    /\ misses' = 1
    /\ UNCHANGED <<requested, cleanup>>

\* A sample within the limits.
ProbeWithin ==
    /\ probing' = FALSE
    /\ misses' = 0
    /\ UNCHANGED <<requested, cleanup>>

\* A sample over the limits.
ProbeExceeds ==
    /\ probing' = FALSE
    /\ misses' = 0
    /\ Request("resource_limit", HasPid)

\* The sample fails, or misses the root again or after its exit.
ProbeFails ==
    /\ probing' = FALSE
    /\ Request("resource_probe_error", HasPid)
    /\ UNCHANGED misses

\* The answer of a sample may come after the end was decided.
ProbeEnds ==
    /\ probing
    /\ ProbeMisses \/ ProbeWithin \/ ProbeExceeds \/ ProbeFails
    /\ UNCHANGED <<platform, started, processVars, snapshot, targets, settled,
                   result, outputVars>>

-----------------------------------------------------------------------------
(* consume() *)

Limit == [s \in Streams |-> IF s = "stdout" THEN StdoutLimit ELSE StderrLimit]
Total == kept["stdout"] + kept["stderr"]

\* Mutant: only the limit of the stream counts.
AcceptedOfStream(s, n) == Smaller(n, Limit[s] - kept[s])

\* The bytes of a chunk of n that both limits leave room for.
Accepted(s, n) ==
    Smaller(n, Smaller(Limit[s] - kept[s], TotalLimit - Total))

ChunkFits(s, n) == Accepted(s, n) = n

\* What comes after the output limit is dropped without a flag.
Drop(s) ==
    /\ requested = "output_limit"
    /\ lost' = lost \cup {s}
    /\ UNCHANGED <<requested, cleanup, kept, truncated>>

\* The raw log cannot be written: the chunk is dropped.
RawLogFails(s) ==
    /\ requested # "output_limit"
    /\ lost' = lost \cup {s}
    /\ Request("raw_log_error", HasPid)
    /\ UNCHANGED <<kept, truncated>>

\* The chunk is kept as far as the limits allow.
Keep(s, n) ==
    /\ requested # "output_limit"
    /\ kept' = [kept EXCEPT ![s] = @ + Accepted(s, n)]
    /\ lost' = IF Accepted(s, n) < n THEN lost \cup {s} ELSE lost
    /\ IF ChunkFits(s, n)
       THEN UNCHANGED <<requested, cleanup, truncated>>
       ELSE truncated' = truncated \cup {s} /\ Request("output_limit", HasPid)

Consume(s, n) ==
    /\ HasPid /\ ~settled
    /\ Drop(s) \/ RawLogFails(s) \/ Keep(s, n)
    /\ UNCHANGED <<platform, started, processVars, snapshot, targets, settled,
                   result, probeVars>>

-----------------------------------------------------------------------------
Next ==
    \/ Start \/ SpawnError \/ Close \/ Resolve
    \/ \E p, q \in Processes : Fork(p, q)
    \/ \E p \in Processes : Exit(p) \/ KillSurvivor(p)
    \/ GraceEnds \/ TableRead \/ TableFails \/ RootKilled
    \/ WallTimer \/ IdleTimer \/ Cancel
    \/ ProbeStarts \/ ProbeEnds
    \/ \E s \in Streams, n \in 1 .. MaxChunk : Consume(s, n)

Spec == Init /\ [][Next]_vars

-----------------------------------------------------------------------------
\* No orphans (process-supervisor.ts:834-836, "prevents ... racing a surviving
\* descendant"): when the caller learns that the supervisor ended a run, the
\* process group is empty on POSIX, and on Windows nothing of the process
\* table that was read is alive, also when the root exited early.
NoSurvivors ==
    result \in Kinds =>
        Alive \subseteq IF platform = "posix" THEN {} ELSE Processes \ snapshot

\* The bytes handed to the caller stay within the limit of each stream and
\* within the total of both.
OutputBounded ==
    /\ \A s \in Streams : kept[s] <= Limit[s]
    /\ Total <= TotalLimit

\* Output that is missing is never presented as the output of a run that
\* ended by itself: the termination names a reason, also where a chunk was
\* dropped without its stream being flagged.
LossIsReported == result = "natural" => lost = {}

\* No more output than the limits allow, and none missing without a reason.
OutputAccounted == OutputBounded /\ LossIsReported

\* The first cause decides: no later timer, limit, failure or cancel replaces
\* the termination, and none overrides a run that has closed by itself.
VerdictKept ==
    [][requested # "none" \/ settled => requested' = requested]_vars

=============================================================================
