------------------------------- MODULE MCPages -------------------------------
(***************************************************************************)
(* What several work on at the same time, for TLC, one of: the places of   *)
(* the orchestrations, with five executions of two of them; the vault of   *)
(* the mails, with two calls; the settings, with two identities, the page  *)
(* that edits them and another window; two application cases for two jobs  *)
(* and the page on which their texts are written.                          *)
(***************************************************************************)
EXTENDS AsyncSemaphore, TLC

CONSTANTS
    n1, n2, n3, n4, n5, s1, s2,                                         \* places
    Accounts, NoId, MailCases, Limit, MaxMails, MaxFiles, MaxCalls,     \* mails
    Identities, MaxRevision, MaxRequests,                               \* settings
    Cases, Jobs,                                                        \* application cases
    MaxFaults

FiveCallers == {n1, n2, n3, n4, n5}
TwoSignals == {s1, s2}
ThreeAndTwo == [c \in FiveCallers |-> IF c \in {n1, n2, n3} THEN s1 ELSE s2]

BothDesks == {"accounts", "inbox"}
TextsAndRelease == [w \in {"texts", "release"} |-> IF w = "texts" THEN 1 ELSE 2]

VARIABLES part,
    desk, vault, arrived, calls, shown, alone,
    config, net, faults, copy, runtime, dialog, tick, busy, confirmed, deleted,
    work, cases, asked, list, arts, sel, editor, drafts, draft, match, reviewed, exported, saving, loading

Mail == INSTANCE MailVault WITH Cases <- MailCases, Desks <- BothDesks
Config == INSTANCE Settings
Workshop == INSTANCE WebCases
    WITH None <- Config!None, MaxRequests <- TextsAndRelease, net <- asked, busy <- saving, jobsBusy <- loading

\* A synchronisation takes at most 100 mails (imap-mail-source.ts:19), and no case or job is called "none".
ASSUME PagesAssumption == Limit \in Nat \ {0} /\ MaxMails \in Nat /\ Config!None \notin Cases \cup Jobs

mailVars == <<desk, vault, arrived, calls, shown, alone>>
configVars == <<config, net, copy, runtime, dialog, tick, busy, confirmed, deleted>>
caseVars == <<work, cases, asked, list, arts, sel, editor, drafts, draft, match, reviewed, exported, saving, loading>>
allVars == <<part, vars, faults, mailVars, configVars, caseVars>>

\* The parts that do not move are at one of their beginnings.
MCInit ==
    /\ part \in {"places", "mail", "settings", "cases"}
    /\ Init
    /\ Mail!Init /\ (part # "mail" => desk = "inbox" /\ vault = Mail!Empty)
    /\ Config!Init /\ config.ids = Identities /\ config.target # "windows"
    /\ part # "settings" => config.target = "demo"
    /\ Workshop!Init
    /\ part # "cases" => work = "texts" /\ \A k \in Cases : cases[k] = Workshop!Unknown

MCNext ==
    \/ part = "places" /\ Next /\ UNCHANGED <<part, faults, mailVars, configVars, caseVars>>
    \/ part = "mail" /\ Mail!Next /\ UNCHANGED <<part, vars, configVars, caseVars>>
    \/ part = "settings" /\ Config!Next /\ UNCHANGED <<part, vars, mailVars, caseVars>>
    \/ part = "cases" /\ Workshop!Next /\ UNCHANGED <<part, vars, faults, mailVars, configVars>>

MCSpec == MCInit /\ [][MCNext]_allVars

Interchangeable == Permutations(Identities) \cup Permutations(Cases) \cup Permutations(Jobs)

-----------------------------------------------------------------------------
\* A mail is stored once and none before the cursor is missing; portal access and the
\* identities are what was confirmed and deleted; a text in the editor belongs to the case
\* on the screen (mail-vault.ts, config-store.ts, app.ts of the client).
PagesAreTrue ==
    /\ part = "mail" => Mail!StoredOnce /\ Mail!CursorFollowsMails
    /\ part = "settings" => Config!SettingsStand
    /\ part = "cases" => Workshop!TextStaysWithCase

=============================================================================
