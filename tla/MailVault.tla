----------------------------- MODULE MailVault -----------------------------
(***************************************************************************)
(* The mail vault (services/mail-vault.ts), the mails that come into it    *)
(* (imap-mail-source.ts, local-mail-drop.ts, EML files) and the page       *)
(* "Firmen & Antworten" of the web client (src/web/src/app/app.ts).        *)
(*                                                                         *)
(* The vault is one sealed file.  Every change loads the file, changes it  *)
(* in memory and writes it as a whole, and nothing makes two calls wait    *)
(* for each other.  A synchronisation makes two such changes: one for the  *)
(* mails, and one for the cursor behind which it looks the next time.      *)
(***************************************************************************)
EXTENDS Integers, FiniteSets

CONSTANTS
    Accounts,       \* ids of IMAP accounts
    NoId,           \* the mails without a Message-ID
    Cases,          \* application cases a mail may belong to
    Desks,          \* bound: what the user works on: "accounts" or "inbox"
    Limit,          \* mails a synchronisation takes at most
    MaxMails,       \* bound: mails that arrive in a mailbox, numbered by their UID
    MaxFiles,       \* bound: files in the drop directory
    MaxCalls,       \* bound: calls in flight beyond which the user starts none
    MaxFaults       \* bound: stops of the server

VARIABLES
    desk,           \* what the user works on
    vault,          \* the file: accounts and mails
    arrived,        \* how many mails are in each mailbox and in the drop directory
    calls,          \* requests in flight
    shown,          \* mailAccounts and mailInbox of the client
    faults,
    alone           \* history: no two changes of the vault have overlapped

vars == <<desk, vault, arrived, calls, shown, faults, alone>>

None == "none"
Drop == "local-smtp"
Eml == "manual-eml"
Sources == Accounts \cup {Drop, Eml}
NoAccount == [state |-> "none", on |-> FALSE, cursor |-> 0]
Empty == [accounts |-> [a \in Accounts |-> NoAccount], mails |-> {}]
Max2(m, n) == IF m > n THEN m ELSE n

-----------------------------------------------------------------------------
(* Calls *)

\* A call stands before its next reading of the vault, or it holds what it has read.
Call(op, of) == [op |-> op, of |-> of, at |-> "asked", read |-> FALSE, data |-> Empty, fetched |-> {}, last |-> 0]
Becomes(q, next) == calls' = (calls \ {q}) \cup {next}
Ends(q, at) == Becomes(q, [Call(q.op, q.of) EXCEPT !.at = at])
Told(q) == q.at \in {"answered", "refused"}
Failed(q) == q.at = "refused"
Changes == {"save", "enable", "disable", "delete", "eml", "drop", "sync", "correlate"}

Init ==
    /\ desk \in Desks
    /\ \/ vault = Empty
       \/ \E a \in Accounts : vault = [Empty EXCEPT !.accounts[a] = [state |-> "saved", on |-> TRUE, cursor |-> 0]]
    /\ arrived = [s \in Sources |-> 0] /\ calls = {}
    /\ shown = [accounts |-> vault.accounts, inbox |-> {}] /\ faults = 0 /\ alone = TRUE

Arrives(s) ==
    /\ (IF desk = "inbox" THEN s = Drop /\ arrived[s] < MaxFiles ELSE s \in Accounts /\ arrived[s] < MaxMails)
    /\ arrived' = [arrived EXCEPT ![s] = @ + 1]
    /\ UNCHANGED <<desk, vault, calls, shown, faults, alone>>

-----------------------------------------------------------------------------
(* What a call makes of the data it has read *)

\* parseAndCorrelateMail(): an unambiguous case is proposed, never confirmed.
Parsed(s, n) == [from |-> s, mail |-> n, copy |-> 1, of |-> None]

\* saveMessages(): a mail is known by its Message-ID, and without one only by the id of this
\* import; a file of the drop directory gets its hash as Message-ID.
Known(data, m) ==
    /\ m.mail \in NoId => m.from = Drop
    /\ \E x \in data.mails : x.from = m.from /\ x.mail = m.mail

\* Copies of a mail are numbered, those beyond the second are not told apart.
Added(data, m) ==
    IF Known(data, m) THEN {}
    ELSE {[m EXCEPT !.copy = IF \E x \in data.mails : x.from = m.from /\ x.mail = m.mail THEN 2 ELSE 1]}
WithMails(data, ms) == [data EXCEPT !.mails = @ \cup UNION {Added(data, m) : m \in ms}]

WithAccount(q, account) == [q.data EXCEPT !.accounts[q.of] = account]
WithoutAccount(q) ==
    [WithAccount(q, [NoAccount EXCEPT !.state = "deleted"]) EXCEPT !.mails = {x \in @ : x.from # q.of}]
WithCursor(q) == WithAccount(q, [q.data.accounts[q.of] EXCEPT !.cursor = Max2(@, q.last)])
\* A mail keeps its id when it is given to a case.
Meant(q, data) ==
    LET m == q.of.mail
    IN  IF m \in data.mails THEN {m}
        ELSE {x \in data.mails : x.from = m.from /\ x.mail = m.mail /\ x.copy = m.copy}
WithCase(q) ==
    LET ms == Meant(q, q.data)
    IN  [q.data EXCEPT !.mails = (@ \ ms) \cup {[x EXCEPT !.of = q.of.to] : x \in ms}]

Saves(q) == q.op \in {"eml", "drop"} \/ q.at = "mails"
Changed(q) ==
    CASE Saves(q) -> WithMails(q.data, q.fetched)
      [] q.op = "save" -> WithAccount(q, [NoAccount EXCEPT !.state = "saved"])
      [] q.op = "enable" -> WithAccount(q, [q.data.accounts[q.of] EXCEPT !.on = TRUE])
      [] q.op = "disable" -> WithAccount(q, [q.data.accounts[q.of] EXCEPT !.on = FALSE])
      [] q.op = "delete" -> WithoutAccount(q)
      [] q.op = "sync" /\ q.at = "cursor" -> WithCursor(q)
      [] q.op = "correlate" -> WithCase(q)

\* What the change looks for first: 404 when it is not there, "removed: 0" for a deletion.
Finds(q) ==
    CASE Saves(q) \/ q.op = "save" -> TRUE
      [] q.op = "correlate" -> Meant(q, vault) # {}
      [] OTHER -> vault.accounts[q.of].state = "saved"

\* A mail that is confirmed for this case already is answered without a write.
Confirmed(q) == q.op = "correlate" /\ Finds(q) /\ \A x \in Meant(q, vault) : x.of = q.of.to

-----------------------------------------------------------------------------
(* The server *)

\* syncImapAccount(): first the mails, then the cursor.
AfterWriting(q) == IF q.at = "mails" /\ q.last > 0 THEN "cursor" ELSE "answered"

ReadsVault(q) ==
    /\ q.op \in Changes /\ ~q.read
    /\ q.at \in {"mails", "cursor"} \/ (q.at = "asked" /\ q.op # "sync")
    /\ IF Finds(q) /\ ~Confirmed(q) THEN Becomes(q, [q EXCEPT !.read = TRUE, !.data = vault])
       ELSE Ends(q, IF q.op = "delete" \/ Confirmed(q) THEN "answered" ELSE "refused")
    /\ alone' = (alone /\ \A x \in calls : ~x.read)
    /\ UNCHANGED vault
WritesVault(q) ==
    /\ q.read /\ vault' = Changed(q)
    /\ LET next == AfterWriting(q)
       IN  IF next = "answered" THEN Ends(q, next)
           ELSE Becomes(q, [q EXCEPT !.at = next, !.read = FALSE, !.data = Empty, !.fetched = {}])
    /\ UNCHANGED alone

\* getAccountSecret(): the account must be there and enabled.
ServeSync(q) ==
    /\ q.op = "sync" /\ q.at = "asked"
    /\ LET account == vault.accounts[q.of]
       IN  IF account.state = "saved" /\ account.on
           THEN Becomes(q, [q EXCEPT !.at = "fetching", !.last = account.cursor])
           ELSE Ends(q, "refused")
    /\ UNCHANGED <<vault, alone>>
\* A range of UIDs that ends in "*" always holds the last mail, also when it begins behind it.
Uids(a, cursor) ==
    LET new == {n \in 1..arrived[a] : n > cursor}
    IN  IF new = {} THEN {arrived[a]} \ {0} ELSE {n \in new : n < cursor + 1 + Limit}

\* The UID of the last mail that was taken.
LastTaken(q, uids) == IF uids = {} THEN q.last ELSE CHOOSE n \in uids : \A m \in uids : m <= n

Fetches(q) ==
    /\ q.at = "fetching"
    /\ \/ LET uids == Uids(q.of, q.last)
          IN  Becomes(q, [q EXCEPT !.at = "mails", !.fetched = {Parsed(q.of, n) : n \in uids}, !.last = LastTaken(q, uids)])
       \/ Ends(q, "refused")
    /\ UNCHANGED <<vault, alone>>

ServeCrm(q) ==
    /\ q.op = "crm" /\ q.at = "asked"
    /\ Becomes(q, [q EXCEPT !.at = "answered", !.data = vault]) /\ UNCHANGED <<vault, alone>>
ServeTest(q) ==
    /\ q.op = "test" /\ q.at = "asked" /\ \E at \in {"answered", "refused"} : Ends(q, at)
    /\ UNCHANGED <<vault, alone>>

Serve(q) ==
    /\ ReadsVault(q) \/ WritesVault(q) \/ ServeSync(q) \/ Fetches(q) \/ ServeCrm(q) \/ ServeTest(q)
    /\ UNCHANGED <<desk, arrived, shown, faults>>

\* The vault is written to a temporary file and renamed: a stop leaves it as it was.
Stops ==
    /\ faults < MaxFaults /\ faults' = faults + 1 /\ calls # {}
    /\ calls' = {[Call(q.op, q.of) EXCEPT !.at = "refused"] : q \in calls}
    /\ UNCHANGED <<desk, vault, arrived, shown, alone>>

-----------------------------------------------------------------------------
(* The client *)

Asks(op, of) ==
    /\ Cardinality(calls) < MaxCalls /\ calls' = calls \cup {Call(op, of)}
    /\ UNCHANGED <<desk, vault, arrived, shown, faults, alone>>
ShownAccount(a) == desk = "accounts" /\ shown.accounts[a].state = "saved"

LoadCrm == Asks("crm", None)
SaveMailAccount(a) ==
    /\ desk = "accounts" /\ vault.accounts[a].state = "none" /\ \A q \in calls : q.op # "save"
    /\ Asks("save", a)
SetMailAccountEnabled(a, on) == ShownAccount(a) /\ shown.accounts[a].on # on /\ Asks(IF on THEN "enable" ELSE "disable", a)
DeleteMailAccount(a) == ShownAccount(a) /\ Asks("delete", a)
SyncMail(a) == ShownAccount(a) /\ shown.accounts[a].on /\ Asks("sync", a)
TestMail(a) == ShownAccount(a) /\ Asks("test", a)
\* The file is read before the vault is: its mails come with the request.
WithFetched(op, ms) ==
    /\ Cardinality(calls) < MaxCalls /\ calls' = calls \cup {[Call(op, None) EXCEPT !.fetched = ms]}
    /\ UNCHANGED <<desk, vault, arrived, shown, faults, alone>>
ImportEml(n) == desk = "inbox" /\ WithFetched("eml", {Parsed(Eml, n)})
ImportLocalMailDrop == desk = "inbox" /\ arrived[Drop] > 0 /\ WithFetched("drop", {Parsed(Drop, n) : n \in 1..arrived[Drop]})
ConfirmCorrelation(m, c) == m \in shown.inbox /\ Asks("correlate", [mail |-> m, to |-> c])

Inbox(mails) == {m \in mails : desk = "inbox" /\ m.of = None}
CrmAnswered(q) ==
    /\ q.op = "crm" /\ calls' = calls \ {q}
    /\ shown' = IF Failed(q) THEN shown ELSE [accounts |-> q.data.accounts, inbox |-> Inbox(q.data.mails)]
AccountAnswered(q) ==
    /\ q.op \in {"save", "enable", "disable"} /\ calls' = calls \ {q}
    /\ shown' = IF Failed(q) THEN shown
                ELSE [shown EXCEPT !.accounts[q.of] = [@ EXCEPT !.state = "saved", !.on = q.op = "enable"]]
ChangeAnswered(q) ==
    /\ q.op \in {"delete", "sync", "eml", "drop", "correlate"} /\ UNCHANGED shown
    /\ calls' = (calls \ {q}) \cup (IF Failed(q) THEN {} ELSE {Call("crm", None)})
TestAnswered(q) == q.op = "test" /\ calls' = calls \ {q} /\ UNCHANGED shown
Handles(q) ==
    /\ CrmAnswered(q) \/ AccountAnswered(q) \/ ChangeAnswered(q) \/ TestAnswered(q)
    /\ UNCHANGED <<desk, vault, arrived, faults, alone>>

Next ==
    \/ \E s \in Sources : Arrives(s)
    \/ \E q \in calls : Serve(q) \/ (Told(q) /\ Handles(q))
    \/ Stops
    \/ LoadCrm \/ ImportLocalMailDrop
    \/ ImportEml(MaxMails)
    \/ \E a \in Accounts :
         \/ SaveMailAccount(a) \/ DeleteMailAccount(a) \/ SyncMail(a) \/ TestMail(a)
         \/ \E on \in BOOLEAN : SetMailAccountEnabled(a, on)
    \/ \E m \in shown.inbox, c \in Cases : ConfirmCorrelation(m, c)

Spec == Init /\ [][Next]_vars

-----------------------------------------------------------------------------
(* Properties *)

\* A mail that has a Message-ID, and any file of the drop directory, is stored at most once
\* however often and by however many calls it is fetched ("imports a drop file once even if
\* it has no Message-ID", local-mail-drop.test.ts).
StoredOnce ==
    \A m \in vault.mails : m.mail \notin NoId \/ m.from = Drop =>
        \A x \in vault.mails : x.from = m.from /\ x.mail = m.mail => x = m

\* As long as no two changes of the vault overlapped, every mail up to the cursor of an account
\* has been stored, whenever the server stopped: the next synchronisation does not look for it
\* again.
CursorFollowsMails ==
    alone => \A a \in Accounts, n \in 1..MaxMails :
        n <= vault.accounts[a].cursor => \E m \in vault.mails : m.from = a /\ m.mail = n

=============================================================================
