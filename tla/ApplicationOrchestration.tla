---------------------- MODULE ApplicationOrchestration ----------------------
(***************************************************************************)
(* One application orchestration                                           *)
(* (src/server/src/agents/application-orchestration-service.ts): its       *)
(* record in the store, what the process keeps of it in memory, and the    *)
(* asynchronous code that shares both: run(), started by create(), each    *)
(* runPendingNodes(), started by a continue(), one executeNode() for every *)
(* node they execute, and a call of cancel().                              *)
(*                                                                         *)
(* A step is one effect on the store - mutate() reads, changes and swaps   *)
(* in a loop, so it acts on the record as it stands - with the code that   *)
(* follows it up to the next input or output.  The store does not fail.    *)
(* Usage is abstracted to what exceededBudget() tells.  Conflicts and      *)
(* retryNode() are left out.  The agent runs the nodes start, here called  *)
(* children, belong to the control center, which ends each of them.        *)
(***************************************************************************)
EXTENDS Naturals, FiniteSets

CONSTANTS
    Task,           \* the nodes of the plan
    WaitsFor,       \* the nodes a node waits for
    GateSets,       \* the gated nodes, as create() may find them: each set holds
                    \* the nodes with a gate it could not resolve
    FatalTasks,     \* the nodes whose failureStrategy is fail_fast
    Asking,         \* the nodes that may ask the user back (finalizer)
    Tries,          \* retry.maxAttempts of each node
    Parallel,       \* maxParallelNodes
    Continues,      \* bound: calls of continue()
    None            \* no controller

\* The worker of create() is 0, that of the w-th continue() is w.
Worker == 0 .. Continues

ASSUME ServiceAssumption ==
    /\ WaitsFor \in [Task -> SUBSET Task]
    /\ GateSets \subseteq SUBSET Task
    /\ FatalTasks \subseteq Task
    /\ Asking \subseteq Task
    /\ Tries \in [Task -> Nat \ {0}]
    /\ Parallel \in Nat \ {0}
    /\ Continues \in Nat
    /\ None \notin Worker

VARIABLES
    gated,        \* the nodes with a gate create() could not resolve
    rec,          \* the stored record
    inputs,       \* pendingInputs holds the raw input
    stops,        \* budgetStops holds a reason
    controller,   \* the worker whose AbortController is registered
    worker,       \* run() and the runPendingNodes()
    exec,         \* the executeNode() of each worker and node, and its child
    canceller,    \* the call of cancel()
    alive         \* the process that created the orchestration still runs

service == <<gated, rec, inputs, stops, controller, worker, exec, canceller, alive>>

TerminalStates == {"succeeded", "failed", "cancelled", "orphaned"}
Ended == {"succeeded", "transient", "failed", "cancelled"}

\* The places of executeNode() that hold a place of the semaphore.
Holding == {"begin", "spend", "queue", "enqueue", "note", "noted", "poll", "lapsed",
            "account", "answer", "stopAnswer", "stopThrow", "catchCancelled", "catchBlocked"}
Answers == {"succeeded", "transient", "failed", "cancelled", "policy_blocked"}

RecordStates ==
    [status : {"queued", "running", "waiting_for_gate", "cancelling"} \union TerminalStates,
     node : [Task -> {"pending", "queued", "running", "retrying", "skipped", "succeeded",
                      "failed", "cancelled", "policy_blocked", "orphaned"}],
     over : SUBSET Task,
     blamed : SUBSET Task]

WorkerStates ==
    [pc : {"none", "resolving", "stopping", "start", "loop", "level", "finish", "failing",
           "settling", "ended"},
     aborted : BOOLEAN,
     remaining : SUBSET Task,
     report : {"none", "waiting_for_gate"} \union TerminalStates]

ExecutionStates ==
    [pc : {"idle", "acquire", "decide", "stopRetry", "delay", "returned"} \union Holding,
     try : Nat,
     out : {"none", "skipped"} \union Answers,
     child : {"none", "active", "told"} \union Ended]

ServiceTypeOK ==
    /\ rec \in RecordStates
    /\ gated \in GateSets
    /\ {inputs, stops, alive} \subseteq BOOLEAN
    /\ controller \in Worker \union {None}
    /\ worker \in [Worker -> WorkerStates]
    /\ exec \in [Worker -> [Task -> ExecutionStates]]
    /\ canceller \in {"idle", "checked", "told", "done"}

Unstarted == [pc |-> "idle", try |-> 0, out |-> "none", child |-> "none"]

ServiceInit ==
    /\ gated \in GateSets
    /\ rec = [status |-> "queued", node |-> [n \in Task |-> "pending"],
              over |-> {}, blamed |-> {}]
    /\ inputs = TRUE
    /\ stops = FALSE
    /\ controller = 0
    /\ worker = [w \in Worker |-> [pc |-> IF w = 0 THEN "start" ELSE "none",
                                   aborted |-> FALSE,
                                   remaining |-> IF w = 0 THEN Task ELSE {},
                                   report |-> "none"]]
    /\ exec = [w \in Worker |-> [n \in Task |-> Unstarted]]
    /\ canceller = "idle"
    /\ alive = TRUE

-----------------------------------------------------------------------------
(* The budget *)

\* Whether a delta of node n exceeds a budget, that of the node or that of
\* the plan, which the next delta of any other node may then exceed as well.
\* What is exceeded stays so.
Excesses(n) == IF n \in rec.over THEN {TRUE} ELSE BOOLEAN

\* recordUsage(): an excess fails the record at once.
Spent(n, excess) ==
    IF ~excess THEN rec
    ELSE [rec EXCEPT !.status = "failed",
                     !.node[n] = "policy_blocked",
                     !.over = @ \union {n},
                     !.blamed = @ \union {n}]

\* nodeStartBudgetFailure(): a budget that is exactly used up refuses too.
Refusals(n) == IF n \in rec.over THEN {TRUE} ELSE BOOLEAN

\* The mutation of stopForBudget(): what has not started is skipped, for a
\* reason recordUsage() will read as an excess of the node.
Stopped ==
    LET skipped == {n \in Task : rec.node[n] \in {"pending", "queued"}}
    IN [rec EXCEPT !.status = "failed",
                   !.node = [n \in Task |-> IF n \in skipped THEN "skipped" ELSE @[n]],
                   !.blamed = @ \union skipped]

\* center.cancel() for every run the record names; a child between enqueue()
\* and the mutation that notes it is not among them.
Tell(e) ==
    [w \in Worker |-> [n \in Task |->
        IF e[w][n].child = "active" /\ e[w][n].pc # "note"
        THEN [e[w][n] EXCEPT !.child = "told"]
        ELSE e[w][n]]]

-----------------------------------------------------------------------------
(* executeNode() *)

Go(w, n, pc) == exec' = [exec EXCEPT ![w][n].pc = pc]

\* Nobody looks any more at a child that has ended.
Forgotten(child) == IF child \in Ended THEN "none" ELSE child

Answer(w, n, out) ==
    exec' = [exec EXCEPT ![w][n].pc = "decide", ![w][n].out = out,
                         ![w][n].child = Forgotten(@)]

\* Where an exception ends: the catch clause looks at the signal.
Caught(w) == IF worker[w].aborted THEN "catchCancelled" ELSE "catchBlocked"

At(w, n, pc) == alive /\ exec[w][n].pc = pc

RecOnly == UNCHANGED <<gated, inputs, stops, controller, worker, canceller, alive>>
ExecOnly == rec' = rec /\ RecOnly

PlaceFree ==
    Cardinality({x \in Worker \X Task : exec[x[1]][x[2]].pc \in Holding}) < Parallel

\* semaphore.acquire(), refused to an aborted signal; then what has stopped
\* the orchestration.
Acquire(w, n) ==
    /\ At(w, n, "acquire")
    /\ IF worker[w].aborted THEN Go(w, n, "catchCancelled")
       ELSE PlaceFree /\ IF stops THEN Answer(w, n, "policy_blocked") ELSE Go(w, n, "begin")
    /\ ExecOnly

\* A budget may refuse the start.
Begin(w, n) ==
    /\ At(w, n, "begin")
    /\ \E refused \in Refusals(n) :
         IF refused THEN stops' = TRUE /\ Go(w, n, "stopAnswer")
         ELSE Go(w, n, "spend") /\ UNCHANGED stops
    /\ UNCHANGED <<gated, rec, inputs, controller, worker, canceller, alive>>

\* recordUsage() of the iteration; nobody looks at what it returns.
SpendIteration(w, n) ==
    /\ At(w, n, "spend")
    /\ \E excess \in Excesses(n) : rec' = Spent(n, excess)
    /\ Go(w, n, "queue")
    /\ RecOnly

\* An input has no provenance or no fitting artifact, or they are too large.
InputsMissing(w, n) == Go(w, n, Caught(w)) /\ UNCHANGED rec

\* The inputs are read; then the node is queued, and its reason is cleared.
QueueNode(w, n) ==
    /\ At(w, n, "queue")
    /\ \/ /\ rec' = [rec EXCEPT !.node[n] = "queued",
                                !.blamed = @ \ {n}]
          /\ Go(w, n, "enqueue")
       \/ InputsMissing(w, n)
    /\ RecOnly

\* center.enqueue() accepts the run, or the node is to be retried; what is
\* read for the checkpoint before may fail.
EnqueueChild(w, n) ==
    /\ At(w, n, "enqueue")
    /\ \/ /\ exec' = [exec EXCEPT ![w][n].pc = "note", ![w][n].child = "active"]
          /\ UNCHANGED rec
       \/ /\ rec' = [rec EXCEPT !.node[n] = "retrying"]
          /\ Answer(w, n, "transient")
       \/ Go(w, n, Caught(w)) /\ UNCHANGED rec
    /\ RecOnly

NoteChild(w, n) ==
    /\ At(w, n, "note")
    /\ rec' = [rec EXCEPT !.node[n] = "running"]
    /\ Go(w, n, "noted")
    /\ RecOnly

Live(w, n) == exec[w][n].child \in {"active", "told"}

\* The child, when it still runs, is asked to stop.
TellChild(w, n, pc) ==
    exec' = [exec EXCEPT ![w][n].pc = pc,
                         ![w][n].child = IF @ = "active" THEN "told" ELSE @]

\* Mutant: waitForTerminal() only throws.
PollStartsSilent(w, n) ==
    /\ At(w, n, "noted")
    /\ Go(w, n, IF worker[w].aborted THEN "catchCancelled" ELSE "poll")
    /\ ExecOnly

\* waitForTerminal() looks at the signal before the child.
PollStarts(w, n) ==
    /\ At(w, n, "noted")
    /\ IF worker[w].aborted THEN TellChild(w, n, "catchCancelled") ELSE Go(w, n, "poll")
    /\ ExecOnly

\* An abort while it polls is seen at the head of the loop, or it rejects the
\* delay, and then the child is not told here.
PollAborted(w, n) ==
    /\ At(w, n, "poll") /\ Live(w, n) /\ worker[w].aborted
    /\ TellChild(w, n, "catchCancelled") \/ Go(w, n, "catchCancelled")
    /\ ExecOnly

PollTerminal(w, n) ==
    /\ At(w, n, "poll") /\ ~Live(w, n)
    /\ Go(w, n, "account")
    /\ ExecOnly

\* The usage of the running child exceeds a budget.
PollExceeds(w, n) ==
    /\ At(w, n, "poll") /\ Live(w, n)
    /\ rec' = Spent(n, TRUE)
    /\ stops' = TRUE
    /\ Go(w, n, "stopThrow")
    /\ UNCHANGED <<gated, inputs, controller, worker, canceller, alive>>

\* The wall time of the node is over; afterwards the child is looked at once.
PollDeadline(w, n) ==
    /\ At(w, n, "poll") /\ Live(w, n)
    /\ TellChild(w, n, "lapsed")
    /\ ExecOnly

PollLapsed(w, n) ==
    /\ At(w, n, "lapsed")
    /\ Go(w, n, IF Live(w, n) THEN Caught(w) ELSE "account")
    /\ ExecOnly

-----------------------------------------------------------------------------

\* recordUsage() of the ended child: an excess, or a reason left by a stop,
\* stops the orchestration.
Account(w, n) ==
    /\ At(w, n, "account")
    /\ \E excess \in Excesses(n) :
         /\ rec' = Spent(n, excess)
         /\ IF n \in rec'.blamed
            THEN stops' = TRUE /\ Go(w, n, "stopAnswer")
            ELSE UNCHANGED stops /\ Go(w, n, "answer")
    /\ UNCHANGED <<gated, inputs, controller, worker, canceller, alive>>

\* The output is none the workflow can use, or an artifact cannot be stored.
NoProposals(w, n) == Go(w, n, Caught(w)) /\ UNCHANGED rec

\* Every output becomes a proposed artifact; a finalizer may ask instead.
AnswerSuccess(w, n) ==
    /\ At(w, n, "answer") /\ exec[w][n].child = "succeeded"
    /\ \/ rec' = [rec EXCEPT !.node[n] = "succeeded"] /\ Answer(w, n, "succeeded")
       \/ /\ n \in Asking
          /\ rec' = [rec EXCEPT !.node[n] = "failed"]
          /\ Answer(w, n, "failed")
       \/ NoProposals(w, n)
    /\ RecOnly

AnswerFailure(w, n) ==
    /\ At(w, n, "answer") /\ exec[w][n].child # "succeeded"
    /\ rec' = [rec EXCEPT !.node[n] = IF exec[w][n].child = "cancelled" THEN "cancelled"
                                      ELSE "retrying"]
    /\ Answer(w, n, exec[w][n].child)
    /\ RecOnly

\* stopForBudget(), after budgetStops has been set, on the way to an answer,
\* to an exception, or out of the decision not to retry.
Stop(w, n) ==
    /\ \E pc \in {"stopAnswer", "stopThrow", "stopRetry"} :
         /\ At(w, n, pc)
         /\ exec' = Tell([exec EXCEPT
                      ![w][n].pc = CASE pc = "stopAnswer" -> "decide"
                                     [] pc = "stopThrow" -> Caught(w)
                                     [] pc = "stopRetry" -> "returned",
                      ![w][n].out = IF pc = "stopThrow" THEN @ ELSE "policy_blocked",
                      ![w][n].child = Forgotten(@)])
    /\ rec' = Stopped
    /\ RecOnly

Catch(w, n) ==
    /\ \E s \in {"cancelled", "policy_blocked"} :
         /\ At(w, n, IF s = "cancelled" THEN "catchCancelled" ELSE "catchBlocked")
         /\ rec' = [rec EXCEPT !.node[n] = s]
         /\ Answer(w, n, s)
    /\ RecOnly

ChildEnds(w, n) ==
    /\ alive /\ Live(w, n)
    /\ \E s \in IF exec[w][n].pc \in {"note", "noted", "poll", "lapsed"} THEN Ended
                ELSE {"none"} :
         exec' = [exec EXCEPT ![w][n].child = s]
    /\ ExecOnly

-----------------------------------------------------------------------------
(* What the worker makes of an answer *)

Downstream(n) ==
    {m \in Task : \A S \in SUBSET Task :
       (\A k \in Task : n \in WaitsFor[k] \/ WaitsFor[k] \cap S # {} => k \in S) => m \in S}

\* decideRetry()
TriesAgain(w, n) == exec[w][n].out = "transient" /\ exec[w][n].try < Tries[n]

\* The runner: a failure skips nodes that are pending in its coordinator.
RunnerTakes(n, out) ==
    LET skipped == {m \in worker[0].remaining \ {n} :
                      /\ out # "succeeded"
                      /\ exec[0][m].pc = "idle"
                      /\ n \in FatalTasks \/ m \in Downstream(n)}
    IN /\ exec' = [exec EXCEPT ![0] = [m \in Task |->
                     IF m = n THEN [@[m] EXCEPT !.pc = "returned", !.out = out]
                     ELSE IF m \in skipped THEN [@[m] EXCEPT !.out = "skipped"]
                     ELSE @[m]]]
       /\ worker' = [worker EXCEPT ![0].remaining = @ \ (skipped \union {n})]

\* executeNode() of the runner retries, or reports to the coordinator.
RunnerDecides(n) ==
    /\ At(0, n, "decide")
    /\ IF TriesAgain(0, n) THEN Go(0, n, "delay") /\ UNCHANGED worker
       ELSE RunnerTakes(n, IF exec[0][n].out = "transient" THEN "failed" ELSE exec[0][n].out)
    /\ UNCHANGED <<gated, rec, inputs, stops, controller, canceller, alive>>

\* executePendingNodeWithRetries() looks at the budget before it waits.
PendingDecides(w, n) ==
    /\ w # 0 /\ At(w, n, "decide")
    /\ CASE exec[w][n].out \notin {"failed", "transient"} ->
              /\ Go(w, n, "returned")
              /\ worker' = [worker EXCEPT ![w].remaining =
                              IF exec[w][n].out = "succeeded" THEN @ \ {n} ELSE @]
              /\ UNCHANGED <<rec, stops>>
         [] TriesAgain(w, n) ->
              /\ \E refused \in Refusals(n) :
                   IF refused THEN stops' = TRUE /\ Go(w, n, "stopRetry")
                   ELSE Go(w, n, "delay") /\ UNCHANGED stops
              /\ UNCHANGED <<rec, worker>>
         [] OTHER ->
              /\ rec' = [rec EXCEPT !.node[n] = "failed"]
              /\ Go(w, n, "returned")
              /\ UNCHANGED <<worker, stops>>
    /\ UNCHANGED <<gated, inputs, controller, canceller, alive>>

\* The delay before the next attempt ends, or the abort rejects it.
RetryDelay(w, n) ==
    /\ At(w, n, "delay")
    /\ IF worker[w].aborted
       THEN IF w = 0 THEN RunnerTakes(n, "cancelled")
            ELSE /\ exec' = [exec EXCEPT ![w][n].pc = "returned", ![w][n].out = "cancelled"]
                 /\ UNCHANGED worker
       ELSE /\ exec' = [exec EXCEPT ![w][n].pc = "acquire", ![w][n].try = @ + 1,
                                    ![w][n].child = "none"]
            /\ UNCHANGED worker
    /\ UNCHANGED <<gated, rec, inputs, stops, controller, canceller, alive>>

-----------------------------------------------------------------------------
(* run() and runPendingNodes() *)

Is(w, pc) == alive /\ worker[w].pc = pc

\* run() marks the record, whatever has become of it.
RunStarts ==
    /\ Is(0, "start")
    /\ rec' = [rec EXCEPT !.status = "running"]
    /\ worker' = [worker EXCEPT ![0].pc = "loop"]
    /\ UNCHANGED <<gated, inputs, stops, controller, exec, canceller, alive>>

PendingReads(w) ==
    /\ w # 0 /\ Is(w, "start")
    /\ worker' = [worker EXCEPT
                    ![w].pc = "loop",
                    ![w].remaining = {n \in Task : rec.node[n] \notin {"succeeded", "skipped"}}]
    /\ UNCHANGED <<gated, rec, inputs, stops, controller, exec, canceller, alive>>

\* The runner asks its coordinator, the other the record.
CanStart(w) ==
    {n \in worker[w].remaining :
       IF w = 0
       THEN n \notin gated /\ \A d \in WaitsFor[n] : exec[0][d].out = "succeeded"
       ELSE \A d \in WaitsFor[n] : rec.node[d] = "succeeded"}

\* What the loop finds before it starts a level.
Halted(w) ==
    \/ worker[w].aborted
    \/ w # 0 /\ (rec.status = "failed" \/ stops)

\* The first attempt: what a continuation executes has not been tried before,
\* in the workflows there are.
LevelStarts(w) ==
    /\ Is(w, "loop")
    /\ ~Halted(w) /\ CanStart(w) # {}
    /\ worker' = [worker EXCEPT ![w].pc = "level"]
    /\ exec' = [exec EXCEPT ![w] = [n \in Task |->
                  IF n \in CanStart(w)
                  THEN [@[n] EXCEPT !.pc = "acquire", !.try = 1]
                  ELSE @[n]]]
    /\ UNCHANGED <<gated, rec, inputs, stops, controller, canceller, alive>>

LevelEnds(w) ==
    /\ Is(w, "level")
    /\ \A n \in Task : exec[w][n].pc \in {"idle", "returned"}
    /\ worker' = [worker EXCEPT ![w].pc =
                    IF \E n \in Task : /\ w # 0 /\ exec[w][n].pc = "returned"
                                       /\ exec[w][n].out # "succeeded"
                    THEN "failing" ELSE "loop"]
    /\ exec' = [exec EXCEPT ![w] = [n \in Task |-> [@[n] EXCEPT !.pc = "idle", !.try = 0]]]
    /\ UNCHANGED <<gated, rec, inputs, stops, controller, canceller, alive>>

\* The report of the runner.
RunnerReports ==
    /\ Is(0, "loop")
    /\ Halted(0) \/ CanStart(0) = {}
    /\ worker' = [worker EXCEPT
         ![0].pc = "finish",
         ![0].report =
           IF worker[0].aborted THEN "cancelled"
           ELSE IF worker[0].remaining # {} THEN "waiting_for_gate"
           ELSE IF \A n \in Task : exec[0][n].out = "succeeded" THEN "succeeded"
           ELSE IF \E n \in Task : exec[0][n].out = "cancelled" THEN "cancelled"
           ELSE "failed"]
    /\ UNCHANGED <<gated, rec, inputs, stops, controller, exec, canceller, alive>>

LoopEnds(w) ==
    /\ w # 0 /\ Is(w, "loop")
    /\ \/ worker[w].remaining = {} /\ worker' = [worker EXCEPT ![w].pc = "finish"]
       \/ /\ worker[w].remaining # {}
          /\ Halted(w) \/ CanStart(w) = {}
          /\ worker' = [worker EXCEPT ![w].pc = "failing"]
    /\ UNCHANGED <<gated, rec, inputs, stops, controller, exec, canceller, alive>>

\* The finally clause, after the last mutation: who is registered settles.
Leaves(w) ==
    /\ worker' = [worker EXCEPT ![w].pc = IF controller = w THEN "settling" ELSE "ended"]
    /\ controller' = IF controller = w THEN None ELSE controller

Reported(n) == IF exec[0][n].out = "none" THEN "pending" ELSE exec[0][n].out

\* Mutant: the report alone decides.
FinishRunAsReported ==
    /\ Is(0, "finish")
    /\ rec' = [rec EXCEPT !.status = worker[0].report, !.node = [n \in Task |-> Reported(n)]]
    /\ stops' = FALSE
    /\ Leaves(0)
    /\ UNCHANGED <<gated, inputs, exec, canceller, alive>>

\* The last mutation of run().  While run() is on, the reason of the record
\* is a budget if one is exceeded.
FinishRun ==
    /\ Is(0, "finish")
    /\ rec' = IF stops \/ rec.over # {}
              THEN [rec EXCEPT !.status = "failed"]
              ELSE [rec EXCEPT !.status = worker[0].report,
                               !.node = [n \in Task |-> Reported(n)]]
    /\ stops' = FALSE
    /\ Leaves(0)
    /\ UNCHANGED <<gated, inputs, exec, canceller, alive>>

\* The last mutation of runPendingNodes() does not look at the record.
FinishPending(w) ==
    /\ w # 0 /\ Is(w, "finish")
    /\ rec' = [rec EXCEPT !.status = "succeeded"]
    /\ Leaves(w)
    /\ UNCHANGED <<gated, inputs, stops, exec, canceller, alive>>

FailClosed(w) ==
    /\ Is(w, "failing")
    /\ rec' = [rec EXCEPT !.status = IF @ \in TerminalStates THEN @ ELSE "failed"]
    /\ Leaves(w)
    /\ UNCHANGED <<gated, inputs, stops, exec, canceller, alive>>

\* clearTransientIfSettled()
Settle(w) ==
    /\ Is(w, "settling")
    /\ worker' = [worker EXCEPT ![w].pc = "ended"]
    /\ inputs' = (inputs /\ rec.status = "waiting_for_gate")
    /\ stops' = (stops /\ rec.status \notin TerminalStates)
    /\ UNCHANGED <<gated, rec, controller, exec, canceller, alive>>

-----------------------------------------------------------------------------
(* The calls of the user, and a restart *)

\* continue() reads the record; continuationBudgetFailure() may stop it.
ContinueChecks(w) ==
    /\ w # 0 /\ Is(w, "none")
    /\ \A v \in 1 .. (w - 1) : worker[v].pc # "none"
    /\ rec.status = "waiting_for_gate" /\ inputs
    /\ \/ /\ worker' = [worker EXCEPT ![w].pc = "stopping"]
          /\ stops' = TRUE
       \/ /\ \A n \in Task : rec.node[n] # "succeeded" => n \notin rec.over
          /\ worker' = [worker EXCEPT ![w].pc = "resolving"]
          /\ UNCHANGED stops
    /\ UNCHANGED <<gated, rec, inputs, controller, exec, canceller, alive>>

ContinueStops(w) ==
    /\ Is(w, "stopping")
    /\ rec' = Stopped
    /\ exec' = Tell(exec)
    /\ worker' = [worker EXCEPT ![w].pc = "ended"]
    /\ UNCHANGED <<gated, inputs, stops, controller, canceller, alive>>

\* The gates have been resolved, some of them or all: the record is written
\* as if nothing had happened to it meanwhile.
ContinueResolves(w) ==
    /\ Is(w, "resolving")
    /\ inputs' = TRUE
    /\ \/ /\ rec' = [rec EXCEPT !.status = "waiting_for_gate"]
          /\ worker' = [worker EXCEPT ![w].pc = "ended"]
          /\ UNCHANGED controller
       \/ /\ rec' = [rec EXCEPT !.status = "running"]
          /\ worker' = [worker EXCEPT ![w].pc = "start"]
          /\ controller' = w
    /\ UNCHANGED <<gated, stops, exec, canceller, alive>>

CancelChecks ==
    /\ alive /\ canceller = "idle"
    /\ rec.status \notin TerminalStates
    /\ canceller' = "checked"
    /\ UNCHANGED <<gated, rec, inputs, stops, controller, worker, exec, alive>>

\* The mutation, the abort, and the runs the record names.
CancelMarks ==
    /\ alive /\ canceller = "checked"
    /\ canceller' = "told"
    /\ rec' = [rec EXCEPT !.status = "cancelling"]
    /\ worker' = [w \in Worker |-> [worker[w] EXCEPT !.aborted = @ \/ w = controller]]
    /\ inputs' = FALSE
    /\ exec' = Tell(exec)
    /\ UNCHANGED <<gated, stops, controller, alive>>

\* Mutant: cancel() leaves the rest to the workers.
CancelLeaves ==
    /\ alive /\ canceller = "told"
    /\ canceller' = "done"
    /\ UNCHANGED <<gated, rec, inputs, stops, controller, worker, exec, alive>>

\* Without a worker cancel() itself makes the end.
CancelEnds ==
    /\ alive /\ canceller = "told"
    /\ canceller' = "done"
    /\ rec' = [rec EXCEPT !.status = IF controller = None THEN "cancelled" ELSE @]
    /\ UNCHANGED <<gated, inputs, stops, controller, worker, exec, alive>>

\* The process is replaced by another, whose recoverOrphaned() precedes every
\* operation; of what was in memory nothing is left.
Restart ==
    /\ alive
    /\ alive' = FALSE
    /\ rec' = IF rec.status \in TerminalStates THEN rec
              ELSE [rec EXCEPT
                      !.status = "orphaned",
                      !.node = [n \in Task |-> IF @[n] \in {"queued", "running", "retrying"}
                                               THEN "orphaned" ELSE @[n]]]
    /\ gated' = gated /\ inputs' = FALSE /\ stops' = FALSE /\ controller' = None /\ canceller' = "done"
    /\ worker' = [w \in Worker |-> [worker[w] EXCEPT !.pc = "ended", !.aborted = FALSE,
                                                     !.remaining = {}, !.report = "none"]]
    /\ exec' = [w \in Worker |-> [n \in Task |-> Unstarted]]

-----------------------------------------------------------------------------

Executes(w, n) ==
    \/ Acquire(w, n) \/ Begin(w, n) \/ SpendIteration(w, n) \/ QueueNode(w, n)
    \/ EnqueueChild(w, n) \/ NoteChild(w, n)
    \/ PollStarts(w, n) \/ PollAborted(w, n) \/ PollTerminal(w, n)
    \/ PollExceeds(w, n) \/ PollDeadline(w, n) \/ PollLapsed(w, n)
    \/ Account(w, n) \/ AnswerSuccess(w, n) \/ AnswerFailure(w, n)
    \/ Stop(w, n) \/ Catch(w, n)
    \/ w = 0 /\ RunnerDecides(n)
    \/ PendingDecides(w, n) \/ RetryDelay(w, n)

Works(w) ==
    \/ w = 0 /\ (RunStarts \/ RunnerReports \/ FinishRun)
    \/ PendingReads(w) \/ LevelStarts(w) \/ LevelEnds(w) \/ LoopEnds(w)
    \/ FinishPending(w) \/ FailClosed(w) \/ Settle(w)
    \/ ContinueStops(w) \/ ContinueResolves(w)

Runs ==
    \/ \E w \in Worker, n \in Task : Executes(w, n) \/ ChildEnds(w, n)
    \/ \E w \in Worker : Works(w)
    \/ CancelMarks \/ CancelEnds

ServiceNext ==
    \/ Runs
    \/ \E w \in Worker : ContinueChecks(w)
    \/ CancelChecks
    \/ Restart

ServiceSpec == ServiceInit /\ [][ServiceNext]_service

-----------------------------------------------------------------------------
(* Properties *)

\* No node has two runs at a time that nobody has asked to stop, though run(),
\* every continue() and every attempt enqueue runs for it on their own (lines
\* 572, 694-705, 891); a run that was asked to may still be stopping.  And who
\* has ended leaves no such run behind, whether the end was an answer, an abort
\* during a delay, a stop of the budget or a deadline (lines 1345-1371, 509, 1332).
ChildrenAccounted ==
    alive => /\ \A n \in Task : Cardinality({w \in Worker : exec[w][n].child = "active"}) <= 1
             /\ \A w \in Worker, n \in Task :
                   worker[w].pc \in {"settling", "ended"} => exec[w][n].child # "active"

AtRest == \A w \in Worker : worker[w].pc \in {"none", "ended"}

\* An orchestration that exceeded a budget is never presented as a success,
\* nor as one that may be continued, although the report of the runner and
\* the last mutation of runPendingNodes() do not know of it (lines 716, 790-803).
\* And unless somebody cancels, what waits for a gate can be continued: the input
\* is there, whoever settles when (lines 534, 1877-1880).
RecordTruthful ==
    AtRest =>
        /\ rec.over # {} => rec.status \notin {"succeeded", "waiting_for_gate"}
        /\ alive /\ canceller = "idle" /\ rec.status = "waiting_for_gate" => inputs

\* Every run is in the record and none is forgotten, and the record says of budget,
\* input and nodes what is so.
RecordAndRunsAgree == ServiceTypeOK /\ ChildrenAccounted /\ RecordTruthful

\* Only a call that has checked the record earlier overwrites its final
\* status: whatever the workers still do, they leave it (lines 500-501, 560,
\* 1886).
FinalUnlessStaleCall ==
    [][/\ rec.status \in TerminalStates
       /\ canceller \notin {"checked", "told"}
       /\ \A w \in Worker : worker[w].pc \notin {"resolving", "stopping"}
       => rec'.status = rec.status]_service

Settled == rec.status \in TerminalStates \union {"waiting_for_gate"}

\* Whenever nothing more can happen by itself, the orchestration has ended or
\* waits for the user: no worker, child or cancel() waits for another for
\* ever, however runs end and whenever it is cancelled (lines 476-484,
\* 509-518).  As no step can be repeated for ever, it always comes to that.
ServiceNeverStuck == ~ENABLED Runs => AtRest /\ Settled

=============================================================================
