----------------------------- MODULE CodexLogin -----------------------------
(***************************************************************************)
(* The login of the Codex App Server adapter                               *)
(* (src/server/src/agents/codex-app-server-adapter.ts, lines 89-207): each *)
(* run works on a copy of auth.json in a home of its own, the server may   *)
(* refresh the token there, and dispose() carries a newer token back into  *)
(* the source, which other runs and the user's own Codex use too.          *)
(*                                                                         *)
(* overtaken is no part of the program: it remembers which of the runs     *)
(* that have taken their second look found the source as it was then.      *)
(***************************************************************************)
EXTENDS Integers, FiniteSets

CONSTANTS
    Runs,
    Accounts,       \* identities a login may belong to
    MaxRefresh      \* bound: refreshes of a token

VARIABLES
    source,         \* auth.json of the user: whose it is and how fresh
    homes,          \* the run homes: the copy and how far dispose() is
    overtaken       \* history: the runs whose second look the source has changed since

loginVars == <<source, homes, overtaken>>

None == "none"
Login(account, at) == [account |-> account, at |-> at]
NoHome == [login |-> Login(None, 0), at |-> None]
IsOpen(r) == homes[r].at \notin {None, "removed"}

Init ==
    /\ \E a \in Accounts : source = Login(a, 0)
    /\ homes = [r \in Runs |-> NoHome]
    /\ overtaken = {}

\* The source changes under those of the runs that are through with their second look.
Overtakes(runs) == overtaken' = overtaken \cup {r \in runs : homes[r].at = "replacing"}

OpensHome(r) ==
    /\ homes[r] = NoHome
    /\ homes' = [homes EXCEPT ![r] = [login |-> source, at |-> "running"]]
    /\ UNCHANGED <<source, overtaken>>

\* The server of the run refreshes its token; refresh times only grow.
Refreshes(r) ==
    /\ IsOpen(r) /\ homes[r].at = "running"
    /\ \E a \in Accounts, at \in 1..MaxRefresh :
         /\ \A s \in Runs : IsOpen(s) => at > homes[s].login.at
         /\ at > source.at
         /\ homes' = [homes EXCEPT ![r].login = Login(a, at)]
    /\ UNCHANGED <<source, overtaken>>

\* The user's own Codex refreshes the token in the source.
OthersRefresh ==
    /\ \E at \in 1..MaxRefresh :
         /\ \A s \in Runs : IsOpen(s) => at > homes[s].login.at
         /\ at > source.at
         /\ source' = Login(source.account, at)
    /\ Overtakes(Runs)
    /\ UNCHANGED homes

\* dispose(): the first look; a login of somebody else is an error, and an
\* older one nothing to do.
Looks(r) ==
    /\ IsOpen(r) /\ homes[r].at = "running"
    /\ homes' = [homes EXCEPT ![r].at = IF homes[r].login.account = source.account /\ homes[r].login.at > source.at
                                        THEN "comparing" ELSE "removing"]
    /\ UNCHANGED <<source, overtaken>>

\* Mutant: there is no second look.
LooksOnce(r) ==
    /\ IsOpen(r) /\ homes[r].at = "comparing"
    /\ homes' = [homes EXCEPT ![r].at = "replacing"]
    /\ overtaken' = overtaken \ {r}
    /\ UNCHANGED source

\* The second look, right before the replacement.
LooksAgain(r) ==
    /\ IsOpen(r) /\ homes[r].at = "comparing"
    /\ homes' = [homes EXCEPT ![r].at = IF homes[r].login.at > source.at THEN "replacing" ELSE "removing"]
    /\ overtaken' = overtaken \ {r}
    /\ UNCHANGED source

\* replaceCodexAuth(): a file beside it, renamed over it; it may fail.
Replaces(r) ==
    /\ IsOpen(r) /\ homes[r].at = "replacing"
    /\ \/ source' = homes[r].login /\ Overtakes(Runs \ {r})
       \/ UNCHANGED <<source, overtaken>>
    /\ homes' = [homes EXCEPT ![r].at = "removing"]

RemovesHome(r) ==
    /\ IsOpen(r) /\ homes[r].at = "removing"
    /\ homes' = [homes EXCEPT ![r].at = "removed"]
    /\ UNCHANGED <<source, overtaken>>

Next ==
    \/ OthersRefresh
    \/ \E r \in Runs : OpensHome(r) \/ Refreshes(r) \/ Looks(r) \/ LooksAgain(r) \/ Replaces(r) \/ RemovesHome(r)

-----------------------------------------------------------------------------

\* The login stays the account's it was, and no run puts back an older token than the
\* one it last found there: if a token goes back, the source was written again between
\* the second look of the run that replaces it and its rename.  (In that window the code
\* does not keep what the comment at lines 159-161 promises.)
LoginStaysOwn ==
    [][/\ source'.account = source.account
       /\ source'.at < source.at =>
            \E r \in overtaken : homes[r].at = "replacing" /\ source' = homes[r].login]_loginVars

=============================================================================
