--------------------------- MODULE OpenRouterCall ---------------------------
(***************************************************************************)
(* A run of the OpenRouter adapter                                         *)
(* (src/server/src/agents/openrouter-http-adapter.ts): paid calls over     *)
(* HTTPS, at most MaxCorrectionRounds of them, which share one allowance   *)
(* of output tokens and one deadline.  cancel() and dispose() abort the    *)
(* call in flight.                                                         *)
(***************************************************************************)
EXTENDS Integers

CONSTANTS
    MaxOutputTokens,        \* the allowance of the run, in units
    MaxCorrectionRounds

VARIABLE run

None == "none"
Larger(a, b) == IF a > b THEN a ELSE b

Init == \E reasoning \in {"off", "low"} :
    run = [step |-> "new", round |-> 1, remaining |-> MaxOutputTokens, spent |-> 0, reasoning |-> reasoning,
           cancelled |-> FALSE, known |-> TRUE, late |-> FALSE, answer |-> None, verdict |-> None]

MaxTokens == Larger(1, run.remaining)
Ends(r, verdict) == [r EXCEPT !.step = "over", !.verdict = verdict]

\* Without a key or with a bad model id no call is made.
OpenRouterStart ==
    /\ run.step = "new"
    /\ run' = [run EXCEPT !.step = "calling"] \/ run' = Ends(run, "failed")

\* Answers that end the run: 429, 401, 403, 5xx, too large, unreadable, empty.
CallFails ==
    /\ run.step = "calling" /\ ~run.cancelled /\ ~run.late
    /\ run' = Ends(run, "failed")

\* An endpoint that cannot do without reasoning is asked once more.
AsksForLowReasoning ==
    /\ run.step = "calling" /\ run.reasoning = "off" /\ ~run.cancelled /\ ~run.late
    /\ run' = [run EXCEPT !.reasoning = "low"]

\* An answer: how many tokens it took (the provider keeps to max_tokens, and
\* may not say), whether it was cut off and whether it keeps the contract.
Answers ==
    /\ run.step = "calling" /\ ~run.cancelled /\ ~run.late
    /\ \E used \in 0..MaxTokens, known, truncated, problem \in BOOLEAN :
         run' = [run EXCEPT !.step = "reading", !.known = known, !.spent = @ + used,
                            !.remaining = IF known THEN Larger(0, @ - used) ELSE 0,
                            !.answer = [truncated |-> truncated, problem |-> problem]]

\* The usage is told and the answer judged: a cut off answer never counts, a
\* complete one at the limit may; a bad one is corrected while rounds and
\* tokens last.
Judge ==
    LET answer == run.answer
        exhausted == run.known /\ run.remaining <= 0
        judged == [run EXCEPT !.answer = None] IN
    /\ run.step = "reading"
    /\ run' = CASE answer.truncated -> Ends(judged, "failed")
                [] ~answer.truncated /\ answer.problem /\ exhausted -> Ends(judged, "failed")
                [] ~answer.truncated /\ ~answer.problem -> Ends(judged, "succeeded")
                [] ~answer.truncated /\ answer.problem /\ ~exhausted ->
                     IF run.round >= MaxCorrectionRounds \/ run.remaining <= 0 THEN Ends(judged, "failed")
                     ELSE [judged EXCEPT !.step = "calling", !.round = @ + 1]

Cancel ==
    /\ run.step \in {"calling", "reading"} /\ ~run.cancelled
    /\ run' = [run EXCEPT !.cancelled = TRUE]

DeadlinePasses ==
    /\ run.step = "calling" /\ ~run.late
    /\ run' = [run EXCEPT !.late = TRUE]

\* The call in flight, or the next one at once, is aborted with the reason of
\* whichever came first.
Aborted ==
    /\ run.step = "calling" /\ (run.cancelled \/ run.late)
    /\ \E why \in (IF run.cancelled THEN {"cancelled"} ELSE {}) \cup (IF run.late THEN {"timed_out"} ELSE {}) :
         run' = Ends(run, why)

Own == OpenRouterStart \/ Judge \/ DeadlinePasses \/ Aborted
Next == Own \/ CallFails \/ AsksForLowReasoning \/ Answers \/ Cancel

-----------------------------------------------------------------------------

\* The paid calls of a run never take more output tokens together than the
\* run was allowed, whether the provider reports what it used or not
\* (execute, lines 243-249, 294).
WithinAllowance == run.spent <= MaxOutputTokens

Ended == run.verdict # None

=============================================================================
