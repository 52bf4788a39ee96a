---------------------------- MODULE CodexSession ----------------------------
(***************************************************************************)
(* A run of the Codex App Server adapter                                   *)
(* (src/server/src/agents/codex-app-server-adapter.ts): JSON-RPC over the  *)
(* stdio of a supervised process.  launch() asks `initialize`, a thread    *)
(* and a turn; then the server reports the turn's end by itself, may ask   *)
(* for tool calls of the run's domain session, and may be interrupted.     *)
(* Every request of the adapter has a timer.  The whole state of a session *)
(* is one record.                                                          *)
(***************************************************************************)
EXTENDS Integers, FiniteSets

CONSTANTS
    Calls,          \* tool calls the provider may ask for
    People          \* bound: decisions on approvals that may be in flight together

VARIABLE run

None == "none"
Launching == {"initialize", "thread", "turn"}
Methods == Launching \cup {"steer", "interrupt"}
After == [initialize |-> "thread", thread |-> "turn", turn |-> "open"]
Idle == [at |-> "idle"]

\* A run may ask for no tools at all, be offline or have tools of its domain session, or
\* be none of these.
Kinds == {"plain", "bound", "noTools"}

NewRun(kind) ==
    [kind |-> kind, step |-> "new", proc |-> None, how |-> None, home |-> None, active |-> FALSE, inTurn |-> FALSE,
     rpc |-> [m \in Methods |-> "unsent"],
     failed |-> FALSE, terminal |-> None,
     calls |-> [c \in Calls |-> None], host |-> [c \in Calls |-> None],
     executed |-> [c \in Calls |-> 0], answers |-> [c \in Calls |-> 0],
     deciding |-> [p \in People |-> Idle],
     cancel |-> "no", todo |-> {}, verdict |-> None]

Init == \E kind \in Kinds : run = NewRun(kind)

Alive == run.proc \in {"alive", "stopping"}

\* What has ended may have left a last line, which is read before the verdict.
Reading == Alive \/ run.proc = "tail"
Read(r) == [r EXCEPT !.proc = IF @ = "tail" THEN "over" ELSE @]
Open(c) == run.calls[c] = "open"

\* What process.cancel() makes of the supervised process.
Stopped(r) == IF r.proc = "alive" THEN [r EXCEPT !.proc = "stopping", !.how = "cancelled"] ELSE r

\* The first deviation from the protocol is kept and ends the process.
ProtocolFailure(r) == IF r.failed THEN r ELSE [Stopped(r) EXCEPT !.failed = TRUE]

Sent(r, m) == [r EXCEPT !.rpc[m] = "pending"]
Answered(r, c) == [r EXCEPT !.answers[c] = @ + 1, !.calls[c] = "answered"]

-----------------------------------------------------------------------------
(* launch() *)

\* A run without tools belongs to codex exec and never gets here; the others
\* get a home of their own and a process, which the supervisor may refuse.
Start ==
    /\ run.step = "new"
    /\ run' = IF run.kind = "noTools" THEN [run EXCEPT !.step = "exec", !.verdict = "elsewhere"]
              ELSE [Sent(run, "initialize") EXCEPT !.step = "initialize", !.proc = "alive", !.home = "there", !.active = TRUE]

StartRefused ==
    /\ run.step = "new" /\ run.kind # "noTools"
    /\ run' = [run EXCEPT !.step = "dropped", !.home = "removed"]

\* The answer of a launch request lets launch() send the next one.
LaunchAnswer(m) ==
    /\ m \in Launching /\ run.rpc[m] = "pending" /\ Alive
    /\ LET next == [run EXCEPT !.rpc[m] = "settled", !.step = After[m]] IN
       run' = IF m = "turn" THEN [next EXCEPT !.inTurn = TRUE] ELSE Sent(next, After[m])

\* A request that is refused, badly answered or not answered in time.
Unhealthy(r) == [Stopped(r) EXCEPT !.step = "dropping"]

LaunchRefused(m) ==
    /\ m \in Launching /\ run.rpc[m] = "pending" /\ Alive
    /\ run' = Unhealthy([run EXCEPT !.rpc[m] = "settled"])

Expire(m) ==
    /\ run.rpc[m] = "pending"
    /\ LET late == [run EXCEPT !.rpc[m] = "forgotten"] IN
       run' = IF m \in Launching THEN Unhealthy(late) ELSE late

\* launch() gives up: the process is over, the home is removed.
Drop ==
    /\ run.step = "dropping" /\ run.proc = "over"
    /\ run' = [run EXCEPT !.step = "dropped", !.active = FALSE, !.home = "removed",
                          !.rpc = [m \in Methods |-> IF @[m] = "pending" THEN "settled" ELSE @[m]]]

\* PreferredCodexAgentAdapter.start(): a run that was promised to be offline, or
\* its tools, fails, any other falls back to codex exec.
Fallback ==
    /\ run.step = "dropped" /\ run.verdict = None
    /\ run' = [run EXCEPT !.verdict = IF run.kind = "plain" THEN "elsewhere" ELSE "failed"]

-----------------------------------------------------------------------------
(* consume(): what the process writes, the last line once it has ended *)

\* An answer nobody waits for is a deviation: a timer forgets its request.
LateAnswer(m) ==
    /\ run.rpc[m] = "forgotten" /\ Reading
    /\ run' = Read(ProtocolFailure([run EXCEPT !.rpc[m] = "settled"]))

OtherAnswer(m) ==
    /\ m \notin Launching /\ run.rpc[m] = "pending" /\ Reading
    /\ run' = Read([run EXCEPT !.rpc[m] = "settled"])

Garbage == Reading /\ ~run.failed /\ run' = Read(ProtocolFailure(run))

\* The server may name its turn before it answers turn/start; from then on the run
\* has a thread and a turn.
TurnStarted == Reading /\ run.rpc["turn"] # "unsent" /\ ~run.inTurn /\ run' = Read([run EXCEPT !.inTurn = TRUE])

\* The last turn/completed wins, also while the process is being ended.
TurnCompleted ==
    /\ Reading
    /\ \E state \in {"succeeded", "cancelled", "failed"} : run' = Read(Stopped([run EXCEPT !.terminal = state]))

\* A last line that changes nothing, or none.
TailIsNothing == run.proc = "tail" /\ run' = Read(run)

\* A tool call bound to the run's thread and turn: some need an approval of
\* the domain session, which is asked for first.
ToolCall(c) ==
    /\ Reading /\ run.inTurn /\ run.kind = "bound" /\ run.calls[c] = None
    /\ \/ run' = Read([run EXCEPT !.calls[c] = "asking"])
       \/ run' = Read([run EXCEPT !.calls[c] = "executing", !.executed[c] = 1])

\* requestApproval() answers: whatever has become of the run meanwhile.
ApprovalRequested(c) ==
    /\ run.calls[c] = "asking"
    /\ run' = [run EXCEPT !.calls[c] = "open", !.host[c] = "open"]

ApprovalNotRequested(c) ==
    /\ run.calls[c] = "asking"
    /\ run' = ProtocolFailure([run EXCEPT !.calls[c] = "unanswered"])

\* execute() of the domain session returns or throws: both are answered.
ToolDone(c) ==
    /\ run.calls[c] = "executing"
    /\ run' = Answered(run, c)

-----------------------------------------------------------------------------
(* resolveApproval(): the bridge is looked up, the domain session decides, *)
(* and only then the bridge is removed and the call carried out            *)

Decide(p, c) ==
    /\ run.deciding[p] = Idle /\ run.active /\ Open(c)
    /\ \E says \in {"approved", "denied"} : run' = [run EXCEPT !.deciding[p] = [call |-> c, says |-> says, at |-> "asked"]]

\* Mutant: a decision is taken although the call has been decided.
HostTakesAnyDecision(p) ==
    LET d == run.deciding[p] IN
    /\ d.at = "asked"
    /\ run' = [run EXCEPT !.host[d.call] = d.says, !.deciding[p].at = "accepted"]

HostDecides(p) ==
    LET d == run.deciding[p] IN
    /\ d.at = "asked"
    /\ run' = IF run.host[d.call] = "open"
              THEN [run EXCEPT !.host[d.call] = d.says, !.deciding[p].at = "accepted"]
              ELSE [run EXCEPT !.deciding[p] = Idle]

CarryOut(p) ==
    LET d == run.deciding[p]
        decided == [run EXCEPT !.deciding[p] = Idle] IN
    /\ d.at = "accepted"
    /\ run' = IF d.says = "approved" THEN [decided EXCEPT !.calls[d.call] = "executing", !.executed[d.call] = @ + 1]
              ELSE Answered(decided, d.call)

-----------------------------------------------------------------------------
(* cancel(): the open approvals are denied one after the other, the turn   *)
(* is interrupted, and after a grace period the process is ended           *)

Cancel ==
    /\ run.cancel = "no" /\ run.active /\ run.inTurn
    /\ run' = [run EXCEPT !.cancel = "denying", !.todo = {c \in Calls : Open(c)}]

\* A denial the domain session refuses is ignored: the call is answered.
CancelDenies(c) ==
    /\ c \in run.todo
    /\ run' = [Answered(run, c) EXCEPT !.todo = @ \ {c}, !.host[c] = IF @ = "open" THEN "denied" ELSE @]

Interrupt ==
    /\ run.cancel = "denying" /\ run.todo = {}
    /\ run' = [Sent(run, "interrupt") EXCEPT !.cancel = "waiting"]

GraceEnds ==
    /\ run.cancel = "waiting"
    /\ run' = [Stopped(run) EXCEPT !.cancel = "done"]

SendInput ==
    /\ run.rpc["steer"] = "unsent" /\ run.active /\ run.inTurn
    /\ run' = Sent(run, "steer")

-----------------------------------------------------------------------------
(* The process, which the supervisor limits in time, and the completion *)

ProcessEnds ==
    /\ Alive
    /\ \E how \in IF run.proc = "stopping" THEN {run.how} ELSE {"exit", "timeout"} :
         \E left \in IF run.step = "open" THEN {"tail", "over"} ELSE {"over"} :
           run' = [run EXCEPT !.proc = left, !.how = how]

Verdict ==
    CASE run.failed -> "failed"
      [] ~run.failed /\ run.terminal # None -> run.terminal
      [] OTHER -> [cancelled |-> "cancelled", timeout |-> "timed_out", exit |-> "failed"][run.how]

\* Until launch() is through nobody awaits the process's completion.
Settle ==
    /\ run.step = "open" /\ run.proc = "over" /\ run.verdict = None
    /\ LET rejected == [run EXCEPT !.rpc = [m \in Methods |-> IF @[m] = "pending" THEN "settled" ELSE @[m]]] IN
       run' = [rejected EXCEPT !.active = FALSE, !.home = "removed", !.verdict = Verdict]

\* An event the journal refuses rejects the completion: the run stays in
\* `active`, its home with its copy of the login is not removed.
SettleRejected ==
    /\ run.step = "open" /\ run.proc = "over" /\ run.verdict = None
    /\ run' = [run EXCEPT !.verdict = "rejected"]

-----------------------------------------------------------------------------

Own ==
    \/ \E m \in Methods : Expire(m)
    \/ \E c \in Calls : CancelDenies(c)
    \/ Start \/ Drop \/ Fallback \/ Interrupt \/ GraceEnds \/ ProcessEnds \/ TailIsNothing \/ Settle

Environment ==
    \/ StartRefused \/ Garbage \/ TurnStarted \/ TurnCompleted \/ Cancel \/ SendInput \/ SettleRejected
    \/ \E m \in Methods : LaunchAnswer(m) \/ LaunchRefused(m) \/ LateAnswer(m) \/ OtherAnswer(m)
    \/ \E p \in People : HostDecides(p) \/ CarryOut(p)
    \/ \E c \in Calls : ToolCall(c) \/ ToolDone(c) \/ ApprovalRequested(c) \/ ApprovalNotRequested(c) \/ \E p \in People : Decide(p, c)

Next == Own \/ Environment

-----------------------------------------------------------------------------

\* A domain tool is executed at most once for a call, and one that needed an
\* approval only after the session approved it; a call is answered once,
\* except where cancel() answers a call whose approval is just being carried
\* out (resolveApproval, lines 778-787, and cancel, lines 797-811).
ToolCallsSettleOnce ==
    \A c \in Calls :
      /\ run.executed[c] <= 1
      /\ run.executed[c] = 1 => run.host[c] \in {None, "approved"}
      /\ run.answers[c] <= 1 \/ (run.answers[c] = 2 /\ run.cancel # "no" /\ run.host[c] # "open")

Ended == run.verdict # None

=============================================================================
