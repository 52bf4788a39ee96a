--------------------------- MODULE DomainCommands ---------------------------
(* The commands an agent may carry out on an application case through its    *)
(* tools: it proposes a change, a person approves the confirmation and then  *)
(* the execution, each for exactly these arguments, and the execution is     *)
(* recorded under an idempotency key so that it survives a restart           *)
(* (agent-mcp-run-factory.ts, agents/security-mcp-facade.ts,                 *)
(* agents/domain-command-execution-store.ts, services/agent-domain-ports.ts).*)
(*                                                                           *)
(* A call is taken apart at its awaits. The calls of one key that wait for   *)
(* the store stand in a line; a call that fails in it rejects the ones       *)
(* chained behind it before they have run. A write may fail and the server   *)
(* may restart at any point, MaxFaults times in all.                         *)
EXTENDS Naturals, Sequences, FiniteSets

CONSTANTS
    Callers,        \* the tool calls that are in flight at the same time
    Keys,           \* the idempotency keys the agent uses
    Proposals,      \* the proposals the agent makes
    Kind,           \* Kind[p]: what proposal p would change, "application_status",
                    \* "mail_correlation" or "follow_up_reminder"
    MaxProposals,   \* bound: the proposals it makes
    MaxRevision,    \* bound: the revisions of the application case
    MaxApprovals,   \* bound: the approvals a person gives
    MaxFaults       \* bound: failing writes and restarts

VARIABLES
    case,       \* the application case with its events, mails and reminders
    records,    \* the record of each idempotency key on disk
    line,       \* the calls chained at the record of each key
    facade,     \* the tools of the present run: proposals, approvals, capability
    made,       \* the proposals ever made
    spent,      \* the calls whose approval has been used
    given,      \* the approvals given so far
    callers,    \* where each tool call is
    faults      \* the failing writes and restarts so far

commands == <<case, records, line, facade, made, spent, given, callers, faults>>

None == [state |-> "none"]
Idle == [at |-> "idle"]
Command(p, r, k, from) == [proposal |-> p, revision |-> r, key |-> k, from |-> from]
ConfirmCall(p, r, k) == [tool |-> "confirm", proposal |-> p, revision |-> r, key |-> k]
ExecuteCall(c, k) == [tool |-> "execute", command |-> c, key |-> k]

NewSession ==
    [open |-> TRUE, proposals |-> {}, pending |-> {}, tokens |-> {}]

CommandsInit ==
    /\ case = [there |-> TRUE, deleted |-> FALSE, revision |-> 0, state |-> "draft",
               log |-> {}, mails |-> {}, reminders |-> {}]
    /\ records = [k \in Keys |-> None]
    /\ line = [k \in Keys |-> << >>]
    /\ facade = NewSession
    /\ made = {} /\ spent = {} /\ given = 0
    /\ callers = [q \in Callers |-> Idle]
    /\ faults = 0

-----------------------------------------------------------------------------
(* Moving a call *)

At(q, place) == callers[q].at = place
Goes(q, call) == callers' = [callers EXCEPT ![q] = call]
To(q, place) == [callers[q] EXCEPT !.at = place]
Joins(q, place) ==
    /\ Goes(q, To(q, place))
    /\ line' = [line EXCEPT ![callers[q].key] = Append(@, q)]
Walks(q, place) == Goes(q, To(q, place)) /\ UNCHANGED line

IsNext(q) == LET k == callers[q].key IN line[k] # << >> /\ Head(line[k]) = q
Leaves(q, call) ==
    /\ Goes(q, call)
    /\ line' = [line EXCEPT ![callers[q].key] = Tail(@)]

\* transact(): what throws in it rejects every call chained behind it; an
\* execution whose completion is rejected gives its lease back.
Rejected(call) == IF call.at = "complete" THEN [call EXCEPT !.at = "abandon"] ELSE Idle
Throws(q) ==
    LET waiting == line[callers[q].key] IN
    /\ callers' = [p \in Callers |->
                     IF \E n \in 1 .. Len(waiting) : waiting[n] = p
                     THEN Rejected(callers[p]) ELSE callers[p]]
    /\ line' = [line EXCEPT ![callers[q].key] = SelectSeq(@, LAMBDA p : At(p, "complete"))]
    /\ UNCHANGED records

Writes(q, record, call) ==
    \/ /\ records' = [records EXCEPT ![callers[q].key] = record]
       /\ Leaves(q, call)
       /\ UNCHANGED faults
    \/ /\ faults < MaxFaults /\ faults' = faults + 1
       /\ Throws(q)

-----------------------------------------------------------------------------
(* The session of a run: its proposals and the approvals of its calls *)

Propose(p) ==
    /\ facade.open /\ p \notin made /\ Cardinality(made) < MaxProposals
    /\ made' = made \cup {p}
    /\ facade' = [facade EXCEPT !.proposals = @ \cup {p}]
    /\ UNCHANGED <<case, records, line, spent, given, callers, faults>>

Commands == {records[k].command : k \in {j \in Keys : records[j] # None}}
Offered ==
    {ConfirmCall(p, case.revision, k) : p \in facade.proposals, k \in Keys}
      \cup {ExecuteCall(c, k) : c \in Commands, k \in Keys}

RequestApproval(call) ==
    /\ facade.open /\ call \notin facade.pending \cup facade.tokens
    /\ given + Cardinality(facade.pending) < MaxApprovals
    /\ facade' = [facade EXCEPT !.pending = @ \cup {call}]
    /\ UNCHANGED <<case, records, line, made, spent, given, callers, faults>>

ResolveApproval(call, approved) ==
    /\ call \in facade.pending
    /\ facade' = [facade EXCEPT !.pending = @ \ {call},
                                  !.tokens = IF approved THEN @ \cup {call} ELSE @]
    /\ given' = IF approved THEN given + 1 ELSE given
    /\ UNCHANGED <<case, records, line, made, spent, callers, faults>>

RevokeCapability ==
    /\ facade.open
    /\ facade' = [facade EXCEPT !.open = FALSE, !.pending = {}, !.tokens = {}]
    /\ UNCHANGED <<case, records, line, made, spent, given, callers, faults>>

\* Another run of the same case is given tools of its own.
OpenSession ==
    /\ ~facade.open
    /\ facade' = NewSession
    /\ UNCHANGED <<case, records, line, made, spent, given, callers, faults>>

Call(q, call) ==
    /\ At(q, "idle") /\ facade.open /\ call \in facade.tokens
    /\ facade' = [facade EXCEPT !.tokens = @ \ {call}]
    /\ spent' = spent \cup {call}
    /\ \/ /\ call.tool = "confirm" /\ call.proposal \in facade.proposals
          /\ Goes(q, [at |-> "revision", key |-> call.key, call |-> call])
          /\ UNCHANGED line
       \/ /\ call.tool = "execute"
          /\ Goes(q, [at |-> "begin", key |-> call.key, command |-> call.command,
                      resumed |-> FALSE])
          /\ line' = [line EXCEPT ![call.key] = Append(@, q)]
    /\ UNCHANGED <<case, records, made, given, faults>>

-----------------------------------------------------------------------------
(* domain.command.confirm *)

ReadsRevision(q) ==
    /\ At(q, "revision")
    /\ IF case.there /\ case.revision = callers[q].call.revision
       THEN Walks(q, "preview") ELSE Goes(q, Idle) /\ UNCHANGED line
    /\ UNCHANGED <<case, records, facade, made, spent, given, faults>>

CanBePrepared(call) ==
    /\ case.there /\ case.revision = call.revision
    /\ Kind[call.proposal] = "application_status" => case.state # "target"

Preview(q) ==
    LET call == callers[q].call IN
    /\ At(q, "preview")
    /\ IF CanBePrepared(call)
       THEN /\ Goes(q, [at |-> "confirm", key |-> call.key,
                        command |-> Command(call.proposal, call.revision, call.key, case.state)])
            /\ line' = [line EXCEPT ![call.key] = Append(@, q)]
       ELSE Goes(q, Idle) /\ UNCHANGED line
    /\ UNCHANGED <<case, records, facade, made, spent, given, faults>>

Confirm(q) ==
    LET r == records[callers[q].key] IN
    /\ At(q, "confirm") /\ IsNext(q)
    /\ CASE r = None -> Writes(q, [state |-> "confirmed", command |-> callers[q].command], Idle)
         [] r # None /\ r.command = callers[q].command ->
              Leaves(q, Idle) /\ UNCHANGED <<records, faults>>
         [] OTHER -> Throws(q) /\ UNCHANGED faults
    /\ UNCHANGED <<case, facade, made, spent, given>>

-----------------------------------------------------------------------------
(* domain.command.execute_local *)

\* Mutant: any command recorded under the key is the one meant.
IsAnyCommand(q, r) == r # None
IsSameCommand(q, r) == r # None /\ r.command = callers[q].command

Runs(r) == r.state = "executing" /\ r.live

\* begin()
Begin(q) ==
    LET r == records[callers[q].key] IN
    /\ At(q, "begin") /\ IsNext(q)
    /\ CASE ~IsSameCommand(q, r) -> Throws(q) /\ UNCHANGED faults
         [] IsSameCommand(q, r) /\ r.state = "completed" ->
              Leaves(q, Idle) /\ UNCHANGED <<records, faults>>
         [] IsSameCommand(q, r) /\ Runs(r) -> Throws(q) /\ UNCHANGED faults
         [] OTHER ->
              Writes(q, [state |-> "executing", command |-> r.command, lease |-> q, live |-> TRUE],
                     [callers[q] EXCEPT !.at = "check", !.command = r.command,
                                        !.resumed = r.state = "executing"])
    /\ UNCHANGED <<case, facade, made, spent, given>>

\* Only a first execution insists on the revision that was approved.
Check(q) ==
    /\ At(q, "check")
    /\ IF callers[q].resumed \/ (case.there /\ case.revision = callers[q].command.revision)
       THEN Walks(q, "read") ELSE Joins(q, "abandon")
    /\ UNCHANGED <<case, records, facade, made, spent, given, faults>>

\* The change is already made: by an execution that was interrupted.
Applied(c) ==
    CASE Kind[c.proposal] = "application_status" ->
           case.revision = c.revision + 1 /\ case.state = "target"
      [] Kind[c.proposal] = "mail_correlation" -> c.proposal \in case.mails
      [] OTHER -> c.proposal \in case.reminders

AsConfirmed(c) ==
    /\ case.revision = c.revision
    /\ Kind[c.proposal] = "application_status" => case.state = c.from

Read(q) ==
    LET c == callers[q].command
        status == Kind[c.proposal] = "application_status" IN
    /\ At(q, "read")
    /\ CASE case.there /\ Applied(c) -> IF status THEN Walks(q, "log") ELSE Joins(q, "complete")
         [] case.there /\ ~Applied(c) /\ AsConfirmed(c) -> Walks(q, "save")
         [] OTHER -> Joins(q, "abandon")
    /\ UNCHANGED <<case, records, facade, made, spent, given, faults>>

\* The status is written with the whole case as it was read.
Changed(c) ==
    CASE Kind[c.proposal] = "application_status" ->
           [case EXCEPT !.there = TRUE, !.revision = c.revision + 1, !.state = "target"]
      [] Kind[c.proposal] = "mail_correlation" -> [case EXCEPT !.mails = @ \cup {c.proposal}]
      [] OTHER -> [case EXCEPT !.reminders = @ \cup {c.proposal}]

Fails(q) == faults < MaxFaults /\ faults' = faults + 1 /\ Joins(q, "abandon") /\ UNCHANGED case

Save(q) ==
    LET c == callers[q].command IN
    /\ At(q, "save")
    /\ \/ /\ case' = Changed(c)
          /\ IF Kind[c.proposal] = "application_status"
             THEN Walks(q, "log") ELSE Joins(q, "complete")
          /\ UNCHANGED faults
       \/ Fails(q)
    /\ UNCHANGED <<records, facade, made, spent, given>>

\* The event of the change has the identity of its proposal.
Log(q) ==
    /\ At(q, "log")
    /\ IF callers[q].command.proposal \in case.log
       THEN Joins(q, "complete") ELSE Walks(q, "append")
    /\ UNCHANGED <<case, records, facade, made, spent, given, faults>>

\* appendApplicationEvent() refuses an identity that has come in between with
\* another time of occurrence.
AppendEvent(q) ==
    LET p == callers[q].command.proposal IN
    /\ At(q, "append")
    /\ \/ /\ case' = [case EXCEPT !.log = @ \cup {p}]
          /\ Joins(q, "complete") /\ UNCHANGED faults
       \/ p \in case.log /\ Joins(q, "abandon") /\ UNCHANGED <<case, faults>>
       \/ Fails(q)
    /\ UNCHANGED <<records, facade, made, spent, given>>

Holds(q, r) == r.state = "executing" /\ r.lease = q

\* complete()
Complete(q) ==
    LET r == records[callers[q].key] IN
    /\ At(q, "complete") /\ IsNext(q)
    /\ IF Holds(q, r)
       THEN Writes(q, [state |-> "completed", command |-> r.command], Idle)
       ELSE Throws(q) /\ UNCHANGED faults
    /\ UNCHANGED <<case, facade, made, spent, given>>

\* abandon()
Abandon(q) ==
    LET r == records[callers[q].key] IN
    /\ At(q, "abandon") /\ IsNext(q)
    /\ CASE r.state = "completed" -> Leaves(q, Idle) /\ UNCHANGED <<records, faults>>
         [] Holds(q, r) -> Writes(q, [state |-> "confirmed", command |-> r.command], Idle)
         [] OTHER -> Throws(q) /\ UNCHANGED faults
    /\ UNCHANGED <<case, facade, made, spent, given>>

-----------------------------------------------------------------------------
(* Time, the person and the machine *)

LeaseExpires(k) ==
    /\ records[k].state = "executing" /\ records[k].live
    /\ records' = [records EXCEPT ![k].live = FALSE]
    /\ UNCHANGED <<case, line, facade, made, spent, given, callers, faults>>

PersonMoves(state) ==
    /\ case.there /\ case.revision < MaxRevision /\ state # case.state
    /\ case' = [case EXCEPT !.revision = @ + 1, !.state = state]
    /\ UNCHANGED <<records, line, facade, made, spent, given, callers, faults>>

\* deleteApplicationCase(), with the reminders where all cases are cleared or the old
\* ones purged; a reminder goes alone, a mail is confirmed for another case.
PersonDeletes ==
    /\ \/ /\ case.there
          /\ \E reminders \in {{}, case.reminders} :
                case' = [case EXCEPT !.there = FALSE, !.deleted = TRUE, !.log = {}, !.reminders = reminders]
       \/ \E mails \in SUBSET case.mails, reminders \in SUBSET case.reminders :
             /\ mails # case.mails \/ reminders # case.reminders
             /\ case' = [case EXCEPT !.deleted = TRUE, !.mails = mails, !.reminders = reminders]
    /\ UNCHANGED <<records, line, facade, made, spent, given, callers, faults>>

Restart ==
    /\ faults < MaxFaults /\ faults' = faults + 1
    /\ callers' = [q \in Callers |-> Idle]
    /\ line' = [k \in Keys |-> << >>]
    /\ facade' = [facade EXCEPT !.open = FALSE, !.pending = {}, !.tokens = {}]
    /\ UNCHANGED <<case, records, made, spent, given>>

CommandsNext ==
    \/ \E p \in Proposals : Propose(p)
    \/ \E call \in Offered : RequestApproval(call)
    \/ \E call \in facade.pending, approved \in BOOLEAN : ResolveApproval(call, approved)
    \/ RevokeCapability \/ OpenSession
    \/ \E q \in Callers :
         \/ \E call \in facade.tokens : Call(q, call)
         \/ ReadsRevision(q) \/ Preview(q) \/ Confirm(q)
         \/ Begin(q) \/ Check(q) \/ Read(q) \/ Save(q) \/ Log(q) \/ AppendEvent(q)
         \/ Complete(q) \/ Abandon(q)
    \/ \E k \in Keys : LeaseExpires(k)
    \/ \E state \in {"draft", "other", "target"} : PersonMoves(state)
    \/ PersonDeletes \/ Restart

CommandsSpec == CommandsInit /\ [][CommandsNext]_commands

-----------------------------------------------------------------------------

\* Nothing a command changes is changed before a person has approved its
\* confirmation and its execution, both for this very proposal, revision and key.
EffectsAreApproved ==
    \A p \in case.log \cup case.mails \cup case.reminders :
      \E call \in spent :
        /\ call.tool = "execute" /\ call.command.proposal = p
        /\ call.command.key = call.key
        /\ ConfirmCall(p, call.command.revision, call.key) \in spent

\* A command that is recorded as completed, and is answered as a duplicate from
\* then on, has changed what it was to change and its event is in the case, unless
\* a person has deleted any of it.
CompletedHasEffect ==
    \A k \in Keys :
      records[k].state = "completed" /\ ~case.deleted =>
        records[k].command.proposal \in case.log \cup case.mails \cup case.reminders

\* RestrictedAgentMcpFacade.call and the store of executions: no command changes the
\* case before its two approvals, and none is called done that has not changed it.
CommandsAreApproved == EffectsAreApproved /\ CompletedHasEffect

=============================================================================
