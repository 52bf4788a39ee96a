----------------------------- MODULE MCProviders -----------------------------
(***************************************************************************)
(* What runs a provider, for TLC, one of: the supervisor with a process    *)
(* that forks up to two others, and room for two bytes of stdout or one of *)
(* stderr, two of both; one run of an adapter; the login that two runs of  *)
(* the Codex App Server share.                                             *)
(***************************************************************************)
EXTENDS ProcessSupervisor

CONSTANTS Calls, People, Runs, Accounts, MaxRefresh, MaxOutputTokens, MaxCorrectionRounds

\* An allowance that is configured is used only if it is positive
\* (openrouter-http-adapter.ts:256-258).
ASSUME AllowanceAssumption == MaxOutputTokens \in Nat \ {0}

VARIABLES part, run, source, homes, overtaken

Codex == INSTANCE CodexSession
Acp == INSTANCE AcpSession
OpenRouter == INSTANCE OpenRouterCall
Jsonl == INSTANCE JsonlSession
Logins == INSTANCE CodexLogin

loginVars == <<source, homes, overtaken>>
allVars == <<part, vars, run, loginVars>>

NoProcess == Init /\ platform = "posix"
NoRun == run = OpenRouter!None
NoLogin == source = Logins!Login(Logins!None, 0) /\ homes = [r \in Runs |-> Logins!NoHome] /\ overtaken = {}

MCInit ==
    \/ part = "supervisor" /\ Init /\ NoRun /\ NoLogin
    \/ part = "codex" /\ Codex!Init /\ NoProcess /\ NoLogin
    \/ part = "acp" /\ Acp!Init /\ NoProcess /\ NoLogin
    \/ part = "openrouter" /\ OpenRouter!Init /\ NoProcess /\ NoLogin
    \/ part = "jsonl" /\ Jsonl!Init /\ NoProcess /\ NoLogin
    \/ part = "login" /\ Logins!Init /\ NoProcess /\ NoRun

Supervised(step) == part = "supervisor" /\ step /\ UNCHANGED <<part, run, loginVars>>
Adapter(name, step) == part = name /\ step /\ UNCHANGED <<part, vars, loginVars>>
LoginIsShared == part = "login" /\ Logins!Next /\ UNCHANGED <<part, vars, run>>

MCNext ==
    \/ Supervised(Next)
    \/ Adapter("codex", Codex!Next)
    \/ Adapter("acp", Acp!Next)
    \/ Adapter("openrouter", OpenRouter!Next)
    \/ Adapter("jsonl", Jsonl!Next)
    \/ LoginIsShared

\* Timers fire, the operating system delivers its events and a continuation that can
\* run does; each adapter goes on by itself.  No process has to exit, and what the
\* provider and the user do is open.
MCFairness ==
    /\ WF_allVars(Supervised(Start)) /\ WF_allVars(Supervised(SpawnError))
    /\ WF_allVars(Supervised(WallTimer)) /\ WF_allVars(Supervised(GraceEnds))
    /\ WF_allVars(Supervised(Close)) /\ WF_allVars(Supervised(Resolve))
    /\ WF_allVars(Adapter("codex", Codex!Own))
    /\ WF_allVars(Adapter("acp", Acp!Own))
    /\ WF_allVars(Adapter("openrouter", OpenRouter!Own))
    /\ WF_allVars(Adapter("jsonl", Jsonl!Own))

MCSpec == MCInit /\ [][MCNext]_allVars /\ MCFairness

-----------------------------------------------------------------------------
\* On POSIX every supervised process ends for its caller, however stubborn the
\* processes are: the wall time, the grace period and the kill of the group see to it.
\* Every run of an adapter that begins ends, however late, badly or not at all the
\* provider answers: the timers of launch() and of the deadline, and the supervisor's
\* time limit behind the completion of a process.
RunsEnd ==
    (part # "login" /\ platform = "posix") ~>
        \/ part = "supervisor" /\ result # "none"
        \/ part = "codex" /\ Codex!Ended
        \/ part = "acp" /\ Acp!Ended
        \/ part = "openrouter" /\ OpenRouter!Ended
        \/ part = "jsonl" /\ Jsonl!Ended

\* What a run is said to have come to is what happened, a tool call is settled once, and
\* a run does not spend more than it was allowed.
AdaptersKeepTheirWord ==
    /\ part = "codex" => Codex!ToolCallsSettleOnce
    /\ part = "acp" => Acp!TellsOnce
    /\ part = "openrouter" => OpenRouter!WithinAllowance
    /\ part = "jsonl" => Jsonl!SuccessIsClean

LoginStaysOwn == Logins!LoginStaysOwn

=============================================================================
