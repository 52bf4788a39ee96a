----------------------------- MODULE AcpSession -----------------------------
(***************************************************************************)
(* A run of the ACP adapter (src/server/src/agents/acp-adapter.ts) over    *)
(* the JSON-RPC client of acp-jsonrpc.ts: initialize, session/new and      *)
(* session/prompt, one after the other and without a timer of their own,   *)
(* while cancel() and the end of the process reject whatever is waiting.   *)
(***************************************************************************)
EXTENDS Integers, Sequences

VARIABLE run

None == "none"
After == [initialize |-> "session", session |-> "prompt"]

Init == run = [step |-> "new", proc |-> None, how |-> None, sending |-> FALSE, waiting |-> FALSE, asked |-> 0, denied |-> 0,
               told |-> <<>>, outcome |-> None, active |-> FALSE, verdict |-> None]

Alive == run.proc \in {"alive", "stopping"}
Handshake == {"initialize", "session", "prompt"}
Stopped(r) == IF r.proc = "alive" THEN [r EXCEPT !.proc = "stopping", !.how = "cancelled"] ELSE r

\* request(): the waiter is registered before the line is written.
Request(r, step) == [r EXCEPT !.step = step, !.sending = TRUE, !.waiting = TRUE]

\* The run is over for the adapter: one run_completed, then it waits for the
\* process's end.
Closes(r, state) == [r EXCEPT !.step = "closing", !.waiting = FALSE, !.sending = FALSE, !.active = FALSE,
                              !.told = Append(@, state), !.outcome = state]

\* What the handshake makes of a rejection.
Rejected(r, why) == IF why = "cancelled" THEN Closes(r, "cancelled") ELSE Closes(Stopped(r), "failed")

AcpStart ==
    /\ run.step = "new"
    /\ run' = Request([run EXCEPT !.proc = "alive", !.active = TRUE], "initialize")

\* The line is written; until then nobody handles the waiter's rejection.
Written ==
    /\ run.sending
    /\ run' = [run EXCEPT !.sending = FALSE]

\* A rejection nobody handles ends the server, as every unhandled one does.
Crashed(r) == [r EXCEPT !.step = "crashed", !.waiting = FALSE, !.sending = FALSE]

\* request() throws and leaves its waiter behind, which the handshake's
\* rpc.end() rejects right after.
WriteFails ==
    /\ run.sending
    /\ run' = Crashed(run)

Result ==
    /\ run.step \in Handshake /\ run.waiting /\ ~run.sending /\ Alive
    /\ \/ run.step # "prompt" /\ run' = Request(run, After[run.step])
       \/ run.step = "prompt" /\ \E state \in {"succeeded", "cancelled", "failed"} : run' = Closes(run, state)
       \/ run' = Rejected(run, "error or unusable")

\* The server may not ask for anything: permissions are denied, forbidden
\* and unknown methods answered with an error.
Asks ==
    /\ Alive /\ run.asked = run.denied /\ run.asked = 0
    /\ run' = [run EXCEPT !.asked = @ + 1]

Denies ==
    /\ run.denied < run.asked
    /\ run' = [run EXCEPT !.denied = @ + 1]

RejectAll(r, why) ==
    CASE r.waiting /\ r.sending -> Crashed(r)
      [] r.waiting /\ ~r.sending -> Rejected(r, why)
      [] OTHER -> r

Cancel ==
    /\ run.active /\ run.step # "crashed"
    /\ run' = Stopped(RejectAll(run, "cancelled"))

\* The completion of the process rejects what is left.
ProcessEnds ==
    /\ Alive /\ run.step # "crashed"
    /\ \E how \in IF run.proc = "stopping" THEN {run.how} ELSE {"exit", "timeout"} :
         run' = RejectAll([run EXCEPT !.proc = "over", !.how = how], "closed")

Settle ==
    /\ run.step = "closing" /\ run.proc = "over" /\ run.verdict = None
    /\ run' = [run EXCEPT !.verdict = run.outcome]

SettleRejected ==
    /\ run.step = "closing" /\ run.verdict = None
    /\ run' = [run EXCEPT !.verdict = "rejected"]

Own == AcpStart \/ Written \/ Denies \/ ProcessEnds \/ Settle
Next == Own \/ WriteFails \/ Result \/ Asks \/ Cancel \/ SettleRejected

-----------------------------------------------------------------------------

\* Each run tells its end exactly once, and as its verdict says, whichever of
\* the answer, the cancellation and the end of the process came first
\* (start, lines 174-219).
TellsOnce ==
    /\ Len(run.told) <= 1
    /\ run.verdict \notin {None, "rejected"} => run.told = <<run.verdict>>

Ended == run.verdict # None \/ run.step = "crashed"

=============================================================================
