---------------------------- MODULE JsonlSession ----------------------------
(***************************************************************************)
(* A run of an adapter that starts a CLI and reads its JSON lines          *)
(* (src/server/src/agents/generic-jsonl-adapter.ts): the checks before the *)
(* start, the files put into the workspace for a sandboxed provider, the   *)
(* events, and the verdict, which the exit code alone does not decide.     *)
(***************************************************************************)
EXTENDS Integers

VARIABLE run

None == "none"
Outcome(how) == [exit0 |-> "succeeded", exit1 |-> "failed", limit |-> "failed", timeout |-> "timed_out", cancelled |-> "cancelled"][how]

\* recoverable: an opencode run, whose session store can be read afterwards;
\* vault: the provider has a key that is handed over in a file.
Init == \E recoverable, vault \in BOOLEAN :
    run = [recoverable |-> recoverable, vault |-> vault, step |-> "new", proc |-> None, how |-> None, dir |-> FALSE, env |-> FALSE,
           error |-> FALSE, message |-> FALSE, recovered |-> FALSE, active |-> FALSE, told |-> None, verdict |-> None]

Alive == run.proc \in {"alive", "stopping"}
Stopped(r) == IF r.proc = "alive" THEN [r EXCEPT !.proc = "stopping", !.how = "cancelled"] ELSE r

\* launch() refuses versions, prompts, models, profiles, targets, sandboxes,
\* networks and approval modes the manifest does not offer.
Refused ==
    /\ run.step = "new"
    /\ run' = [run EXCEPT !.step = "over", !.verdict = "refused"]

Accepted ==
    /\ run.step = "new"
    /\ run' = [run EXCEPT !.step = "preparing", !.dir = run.recoverable]

\* The key file and the sandbox's plan; a plan that fails leaves the files.
Prepared ==
    /\ run.step = "preparing" /\ run.env = FALSE
    /\ \/ run' = [run EXCEPT !.step = "open", !.env = run.vault, !.proc = "alive", !.active = TRUE]
       \/ run' = [run EXCEPT !.step = "over", !.env = run.vault, !.verdict = "refused"]

\* What the provider writes: an error, a finished message, anything else.
Reports ==
    /\ Alive
    /\ run' = [run EXCEPT !.error = TRUE] \/ run' = [run EXCEPT !.message = TRUE]

\* cancel() before the process exists throws.
Cancel ==
    /\ run.active
    /\ run' = Stopped(run)

ProcessEnds ==
    /\ Alive
    /\ \E how \in IF run.proc = "stopping" THEN {run.how} ELSE {"exit0", "exit1", "limit", "timeout"} :
         run' = [run EXCEPT !.proc = "over", !.how = how, !.step = "reading"]

\* The rest of the output, then the session store when no message was seen.
Tail ==
    /\ run.step = "reading"
    /\ \E error \in BOOLEAN, message \in BOOLEAN, found \in BOOLEAN :
         LET seen == run.message \/ message
             recovers == run.recoverable /\ ~seen /\ found
             reported == run.error \/ error
             state == IF reported /\ run.how = "exit0" THEN "failed" ELSE Outcome(run.how) IN
         run' = [run EXCEPT !.step = "telling", !.error = reported, !.message = seen \/ recovers, !.recovered = recovers,
                            !.dir = FALSE, !.told = state]

Settle ==
    /\ run.step = "telling"
    /\ run' = [run EXCEPT !.step = "over", !.active = FALSE, !.verdict = run.told]

SettleRejected ==
    /\ run.step = "telling"
    /\ run' = [run EXCEPT !.step = "over", !.active = FALSE, !.verdict = "rejected"]

Own == Accepted \/ Prepared \/ ProcessEnds \/ Tail \/ Settle
Next == Own \/ Refused \/ Reports \/ Cancel \/ SettleRejected

-----------------------------------------------------------------------------

\* A run is called succeeded only if the process ended by itself with code 0
\* and the provider reported no error on the way, in the last bytes of its
\* output included; what was recovered stands in for a message nobody saw,
\* and the store it came from is gone (launch, lines 422-449).
SuccessIsClean ==
    /\ run.verdict = "succeeded" => run.how = "exit0" /\ ~run.error
    /\ run.verdict # None /\ run.proc = "over" => ~run.dir /\ ~run.active

Ended == run.verdict # None

=============================================================================
