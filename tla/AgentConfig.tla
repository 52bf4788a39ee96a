---------------------------- MODULE AgentConfig ----------------------------
(***************************************************************************)
(* The two files that decide which agents may run: the configuration       *)
(* profile with its copy for bad days (agents/config-profile-store.ts) and *)
(* the list of approved program versions (agents/version-approvals.ts),    *)
(* behind routes of app.ts.  Any number of windows edit them.              *)
(*                                                                         *)
(* Either file bears the time of its last change; a change names the time  *)
(* its window has seen and is refused when another one stands there.       *)
(* Changes of one store run one after the other.  The profile is written   *)
(* twice, and the server may stop in between; a profile that cannot be     *)
(* read is replaced by its copy.                                           *)
(***************************************************************************)
EXTENDS Integers, FiniteSets

CONSTANTS
    Windows,
    MaxTime,        \* bound: the clock
    MaxRequests,    \* bound: changes waiting
    MaxVersions,    \* bound: changes carried out
    MaxFaults       \* bound: stops, failing writes and files damaged from outside

ASSUME AgentConfigBounds == {MaxTime, MaxRequests, MaxVersions, MaxFaults} \subseteq Nat

VARIABLES
    kind,           \* the store: "profile" or "approvals"
    primary,        \* profile.json, or the file of the approvals
    lastGood,       \* profile.last-known-good.json
    seen,           \* what each window has loaded
    waiting,        \* changes that have not begun
    job,            \* the change that is carried out, or NoJob
    clock, faults,
    versions,       \* history: number of the last version
    latest,         \* history: the latest time a version was given
    clash,          \* history: a version was given a time that was not later than all before
    answered        \* history: number of the last version whose change was answered

stores == <<primary, lastGood>>
history == <<versions, latest, clash, answered>>
vars == <<kind, stores, seen, waiting, job, clock, faults, history>>

\* A content stands as its number, in the order in which contents were made.
Version(at, n) == [at |-> at, n |-> n]
Missing == Version(0, -1)
Broken == Version(0, -2)
Empty == Version(0, 0)      \* an empty list of approvals bears no time
Versions == [at : Nat, n : Nat]
Files == Versions \cup {Missing, Broken}
Readable(f) == f \notin {Missing, Broken}

Requests == [op : {"save", "reset"}, base : Files, asked : Nat]
NoJob == [op |-> "none", step |-> "none", new |-> Missing, base |-> Missing, over |-> Missing]
Jobs == [op : {"save", "reset"}, step : {"primary", "copy"}, new : Versions, base : Files, over : Files]

-----------------------------------------------------------------------------

Init ==
    /\ kind \in {"profile", "approvals"}
    /\ primary = Missing /\ lastGood = Missing
    /\ seen = [w \in Windows |-> Missing] /\ waiting = {} /\ job = NoJob
    /\ clock = 1 /\ faults = 0
    /\ versions = 0 /\ latest = 0 /\ clash = FALSE /\ answered = 0

\* load(): what is in force; a profile that cannot be read gives way to its copy, and a list of
\* approvals that is not there is an empty one.
InForce ==
    IF Readable(primary) THEN primary
    ELSE IF kind = "approvals" THEN IF primary = Missing THEN Empty ELSE Broken
    ELSE IF Readable(lastGood) THEN lastGood ELSE primary

\* A change of the profile bears the time at which it was asked for.
Request(op, base) == [op |-> op, base |-> base, asked |-> IF kind = "profile" THEN clock ELSE 0]

\* GET; the server makes a profile if there is none.
Loads(w) ==
    /\ IF Readable(InForce) THEN seen' = [seen EXCEPT ![w] = InForce] /\ UNCHANGED waiting
       ELSE /\ kind = "profile" /\ InForce = Missing /\ UNCHANGED seen
            /\ Cardinality(waiting) < MaxRequests /\ waiting' = waiting \cup {Request("reset", Missing)}
    /\ UNCHANGED <<kind, stores, job, clock, faults, history>>

Sends(q) ==
    /\ Cardinality(waiting) < MaxRequests /\ waiting' = waiting \cup {q}
    /\ UNCHANGED <<kind, stores, seen, job, clock, faults, history>>

\* PUT: a change of what the window has seen, or an approval given or revoked.
SavesProfile(w) == kind = "profile" /\ Readable(seen[w]) /\ Sends(Request("save", seen[w]))
ChangesApprovals(w) == kind = "approvals" /\ Readable(seen[w]) /\ Sends(Request("save", seen[w]))
ResetsProfile == kind = "profile" /\ Sends(Request("reset", Missing))

-----------------------------------------------------------------------------
(* The queue of the store *)

\* Mutant: an older time will do.
NotLater(q) == q.base.at <= InForce.at

\* The change is one of what is in force, as far as the time tells.
Matches(q) == q.base.at = InForce.at

\* compareAndSave() moves a profile's time on even if the clock stands still.
NewTime(q) ==
    IF kind = "approvals" THEN clock
    ELSE IF q.op = "save" /\ q.asked <= InForce.at THEN InForce.at + 1 ELSE q.asked

Begins(q) ==
    /\ job = NoJob
    /\ q.op = "save" => Readable(InForce) /\ Matches(q)
    /\ versions < MaxVersions /\ versions' = versions + 1
    /\ LET new == Version(NewTime(q), versions')
       IN  /\ job' = [op |-> q.op, step |-> "primary", new |-> new, base |-> q.base, over |-> InForce]
           /\ clash' = (clash \/ new.at <= latest)
           /\ latest' = IF new.at > latest THEN new.at ELSE latest
    /\ waiting' = waiting \ {q}
    /\ UNCHANGED <<kind, stores, seen, clock, faults, answered>>

\* A conflict, a revoked approval that is not there, a profile outside its contract.
Refuses(q) ==
    /\ job = NoJob /\ q.op = "save" /\ waiting' = waiting \ {q}
    /\ UNCHANGED <<kind, stores, seen, job, clock, faults, history>>

Ends == job' = NoJob /\ answered' = job.new.n

\* Mutant: the copy is left alone.
ForgetsCopy == lastGood' = lastGood

Copies == lastGood' = job.new

WritesPrimary ==
    /\ job # NoJob /\ job.step = "primary" /\ primary' = job.new
    /\ IF kind = "profile" THEN job' = [job EXCEPT !.step = "copy"] /\ UNCHANGED answered ELSE Ends
    /\ UNCHANGED <<kind, lastGood, seen, waiting, clock, faults, versions, latest, clash>>

WritesCopy ==
    /\ job # NoJob /\ job.step = "copy" /\ Copies /\ Ends
    /\ UNCHANGED <<kind, primary, seen, waiting, clock, faults, versions, latest, clash>>

-----------------------------------------------------------------------------
(* Faults *)

Fault == faults < MaxFaults /\ faults' = faults + 1 /\ UNCHANGED <<kind, seen, clock, history>>

\* A write that fails leaves the file as it was.
WriteFails == Fault /\ job # NoJob /\ job' = NoJob /\ UNCHANGED <<stores, waiting>>
Stops == Fault /\ job' = NoJob /\ waiting' = {} /\ UNCHANGED stores
\* A file is removed or damaged from outside.
Damaged(f) == Fault /\ f \in {Missing, Broken} /\ UNCHANGED <<waiting, job>>
Damages(f) == Damaged(f) /\ ((primary' = f /\ UNCHANGED lastGood) \/ (lastGood' = f /\ UNCHANGED primary))
Ticks == clock < MaxTime /\ clock' = clock + 1 /\ UNCHANGED <<kind, stores, seen, waiting, job, faults, history>>

Next ==
    \/ \E w \in Windows : Loads(w) \/ SavesProfile(w) \/ ChangesApprovals(w)
    \/ ResetsProfile
    \/ \E q \in waiting : Begins(q) \/ Refuses(q)
    \/ WritesPrimary \/ WritesCopy \/ WriteFails \/ Stops \/ Ticks
    \/ \E f \in {Missing, Broken} : Damages(f)

Spec == Init /\ [][Next]_vars

-----------------------------------------------------------------------------
(* Properties *)

TypeOK ==
    /\ kind \in {"profile", "approvals"} /\ primary \in Files /\ lastGood \in Files
    /\ seen \in [Windows -> Files] /\ waiting \subseteq Requests /\ job \in Jobs \cup {NoJob}
    /\ clock \in Nat /\ faults \in Nat /\ versions \in Nat /\ latest \in Nat
    /\ clash \in BOOLEAN /\ answered \in Nat

\* A change that was answered stays in force until a later one: a server that stops, a write that
\* fails and a profile that has become unreadable never bring an older content back, and one of
\* these at a time never leaves the server without a profile (load() falls back on the copy).
AnsweredStands ==
    kind = "profile" =>
        /\ Readable(InForce) => InForce.n >= answered
        /\ answered > 0 /\ faults <= 1 => Readable(InForce)

\* A change replaces the content its window had seen and no other, as long as no two contents
\* bear the same time: the clock may stand still for a whole change, a reset of the profile bears
\* the time at which it was asked for, and a change of the approvals does not move the time on.
ChangesFollowSeen == job.op = "save" /\ ~clash => job.over = job.base

=============================================================================
