------------------------- MODULE ApprovalLifecycle -------------------------
(***************************************************************************)
(* The class ApprovalQueue of src/server/src/agents/security-approval.ts   *)
(* over the JsonlApprovalLifecycleJournal of approval-lifecycle-journal.ts:*)
(* approvals are requested, decided, edited and used once; every decision  *)
(* is written to an append-only file before the memory of the queue takes  *)
(* it over; a restart closes whatever was open.                            *)
(*                                                                         *)
(* The file is represented by what reduceEvents() makes of it: a status    *)
(* per request, and whether an incomplete line ends it.  An append may be  *)
(* refused, fail before, within or after the line, and the process may end *)
(* between any two calls.  One request has at most one token, so a token   *)
(* is named by its request.  The clock does not run backwards.             *)
(***************************************************************************)
EXTENDS Naturals, FiniteSets

CONSTANTS
    Requests,   \* the requests that are ever made
    Scopes,     \* the sets of requests revokeAll() is called for
    Ttls,       \* the lifetimes a request may ask for
    MinTtl,     \* the shortest lifetime
    MaxTime     \* bound: the clock stops here

ASSUME ApprovalAssumption ==
    /\ IsFiniteSet(Requests)
    /\ Scopes \subseteq SUBSET Requests
    /\ MinTtl \in Nat \ {0}
    /\ Ttls \subseteq Nat
    /\ \A t \in Ttls : t >= MinTtl
    /\ MaxTime \in Nat

VARIABLES
    clock,      \* the time
    up,         \* the constructor of the queue has returned
    durable,    \* the file: the status of each request, "none" before it
    torn,       \* the file ends in an incomplete line
    memory,     \* the requests of the queue, "none" for an unknown one
    expires,    \* expiresAt of each request
    revoked,    \* revokedTokenIds
    consumed,   \* consumedTokenIds
    tokens,     \* history: the tokens given out, by any process
    session,    \* history: the tokens given out since the last start
    used        \* history: the requests in whose name something was done

tokenVars == <<revoked, consumed, tokens, session, used>>
vars == <<clock, up, durable, torn, memory, expires, tokenVars>>

Open == {"pending", "approved"}
Closed == {"denied", "superseded", "revoked", "consumed", "expired"}
Statuses == {"none"} \cup Open \cup Closed

TypeOK ==
    /\ clock \in 0 .. MaxTime
    /\ up \in BOOLEAN
    /\ torn \in BOOLEAN
    /\ durable \in [Requests -> Statuses]
    /\ memory \in [Requests -> Statuses]
    /\ expires \in [Requests -> Nat]
    /\ revoked \subseteq tokens
    /\ consumed \subseteq tokens
    /\ tokens \subseteq Requests
    /\ session \subseteq tokens
    /\ used \subseteq tokens

Init ==
    /\ clock = 0
    /\ up = FALSE
    /\ torn = FALSE
    /\ durable = [r \in Requests |-> "none"]
    /\ memory = [r \in Requests |-> "none"]
    /\ expires = [r \in Requests |-> 0]
    /\ revoked = {} /\ consumed = {} /\ tokens = {} /\ session = {} /\ used = {}

-----------------------------------------------------------------------------
(* The journal *)

\* The transitions reduceEvents() accepts.
Allowed(from, to) ==
    \/ from = "none" /\ to = "pending"
    \/ from = "pending" /\ to \in {"approved", "denied", "superseded", "revoked", "expired"}
    \/ from = "approved" /\ to \in {"revoked", "consumed", "expired"}

\* Mutant: record() appends without reading the file again.
AcceptsAny(before, r, to) == ~torn

\* Whether record() finds a complete file that allows the event.
Accepts(before, r, to) == ~torn /\ Allowed(before[r], to)

With(before, E, to) == [r \in Requests |-> IF r \in E THEN to ELSE before[r]]

\* record() of one event on top of what this call has written before.
Records(before, r, to) ==
    /\ Accepts(before, r, to)
    /\ durable' = With(before, {r}, to)
    /\ torn' = torn

\* record() throws: it refuses, nothing was written, the line is incomplete,
\* or it is complete and the fsync behind it fails.
RecordThrows(before, r, to) ==
    \/ durable' = before /\ torn' = torn
    \/ Accepts(before, r, to) /\ durable' = before /\ torn' = TRUE
    \/ Records(before, r, to)

-----------------------------------------------------------------------------
(* ApprovalQueue *)

Overdue(r) == memory[r] \in Open /\ expires[r] <= clock

Taken(r, to) == memory' = [memory EXCEPT ![r] = to]

\* request(): an id that nobody has used yet.
Fresh(r) == memory[r] = "none" /\ durable[r] = "none"

Request(r) ==
    /\ up /\ Fresh(r)
    /\ \E ttl \in Ttls :
        /\ expires' = [expires EXCEPT ![r] = clock + ttl]
        /\ \/ /\ Records(durable, r, "pending")
              /\ Taken(r, "pending")
           \/ RecordThrows(durable, r, "pending") /\ UNCHANGED memory
    /\ UNCHANGED <<clock, up, tokenVars>>

\* Any call that looks at an overdue request closes it first; list() goes on
\* to the next, every decision throws.
Expire(r) ==
    /\ up /\ Overdue(r)
    /\ \/ /\ Records(durable, r, "expired")
          /\ Taken(r, "expired")
          /\ revoked' = revoked \cup (IF memory[r] = "approved" THEN {r} ELSE {})
       \/ RecordThrows(durable, r, "expired") /\ UNCHANGED <<memory, revoked>>
    /\ UNCHANGED <<clock, up, expires, consumed, tokens, session, used>>

\* approve() on a pending request: the decision is recorded, the token given out.
Approve(r) ==
    /\ up /\ memory[r] = "pending" /\ ~Overdue(r)
    /\ \/ /\ Records(durable, r, "approved")
          /\ Taken(r, "approved")
          /\ tokens' = tokens \cup {r}
          /\ session' = session \cup {r}
       \/ /\ RecordThrows(durable, r, "approved")
          /\ UNCHANGED <<memory, tokens, session>>
    /\ UNCHANGED <<clock, up, expires, revoked, consumed, used>>

Deny(r) ==
    /\ up /\ memory[r] = "pending" /\ ~Overdue(r)
    /\ \/ /\ Records(durable, r, "denied")
          /\ Taken(r, "denied")
       \/ RecordThrows(durable, r, "denied") /\ UNCHANGED memory
    /\ UNCHANGED <<clock, up, expires, tokenVars>>

Later(a, b) == IF a > b THEN a ELSE b

\* editAndApprove(): the replacement s is requested, r is superseded and s
\* approved; each of the three records may throw and leaves what came before.
Edit(r, s) ==
    /\ up /\ memory[r] = "pending" /\ ~Overdue(r)
    /\ r # s /\ Fresh(s)
    /\ expires' = [expires EXCEPT ![s] = Later(expires[r], clock + MinTtl)]
    /\ LET requested == With(durable, {s}, "pending")
           superseded == With(requested, {r}, "superseded")
       IN  \/ /\ RecordThrows(durable, s, "pending")
              /\ UNCHANGED <<memory, tokens, session>>
           \/ /\ Accepts(durable, s, "pending")
              /\ RecordThrows(requested, r, "superseded")
              /\ Taken(s, "pending")
              /\ UNCHANGED <<tokens, session>>
           \/ /\ Accepts(durable, s, "pending")
              /\ Accepts(requested, r, "superseded")
              /\ RecordThrows(superseded, s, "approved")
              /\ memory' = [memory EXCEPT ![s] = "pending", ![r] = "superseded"]
              /\ UNCHANGED <<tokens, session>>
           \/ /\ Accepts(durable, s, "pending")
              /\ Accepts(requested, r, "superseded")
              /\ Records(superseded, s, "approved")
              /\ memory' = [memory EXCEPT ![s] = "approved", ![r] = "superseded"]
              /\ tokens' = tokens \cup {s}
              /\ session' = session \cup {s}
    /\ UNCHANGED <<clock, up, revoked, consumed, used>>

\* revoke(): the decision is recorded before the token is blocked.
Revoke(r) ==
    /\ up /\ memory[r] \in Open /\ ~Overdue(r)
    /\ \/ /\ Records(durable, r, "revoked")
          /\ Taken(r, "revoked")
          /\ revoked' = revoked \cup (IF memory[r] = "approved" THEN {r} ELSE {})
       \/ RecordThrows(durable, r, "revoked") /\ UNCHANGED <<memory, revoked>>
    /\ UNCHANGED <<clock, up, expires, consumed, tokens, session, used>>

\* revokeAll(): list() closes what is overdue in S, then every open request of
\* S is revoked; the first record that throws ends the call.
RevokeAll(S) ==
    /\ up
    /\ LET overdue == {r \in S : Overdue(r)}
           open == {r \in S : memory[r] \in Open} \ overdue
       IN \E E \in SUBSET overdue, R \in SUBSET open :
            LET listed == With(durable, E, "expired")
                written == With(listed, R, "revoked")
            IN
            /\ R # {} => E = overdue
            /\ \A r \in E : Accepts(durable, r, "expired")
            /\ \A r \in R : Accepts(durable, r, "revoked")
            /\ \/ E = overdue /\ R = open /\ durable' = written /\ torn' = torn
               \/ \E r \in overdue \ E : RecordThrows(written, r, "expired")
               \/ /\ E = overdue
                  /\ \E r \in open \ R : RecordThrows(written, r, "revoked")
            /\ memory' = With(With(memory, E, "expired"), R, "revoked")
            /\ revoked' = revoked \cup {r \in E \cup R : memory[r] = "approved"}
    /\ UNCHANGED <<clock, up, expires, consumed, tokens, session, used>>

\* The checks consume() makes on a token that matches its run, tool, target
\* and parameters.
Usable(r) ==
    /\ r \in tokens
    /\ expires[r] > clock
    /\ r \notin revoked /\ r \notin consumed
    /\ memory[r] = "approved"

\* Mutant: the token is spent and the caller goes on although the record fails.
ConsumeFirst(r) ==
    /\ up /\ Usable(r)
    /\ consumed' = consumed \cup {r}
    /\ used' = used \cup {r}
    /\ Taken(r, "consumed")
    /\ \/ Records(durable, r, "consumed")
       \/ RecordThrows(durable, r, "consumed")
    /\ UNCHANGED <<clock, up, expires, revoked, tokens, session>>

\* consume(): the caller may act only after the record has been written.
Consume(r) ==
    /\ up /\ Usable(r)
    /\ \/ /\ Records(durable, r, "consumed")
          /\ consumed' = consumed \cup {r}
          /\ used' = used \cup {r}
          /\ Taken(r, "consumed")
       \/ /\ RecordThrows(durable, r, "consumed")
          /\ UNCHANGED <<memory, consumed, used>>
    /\ UNCHANGED <<clock, up, expires, revoked, tokens, session>>

-----------------------------------------------------------------------------
(* The process *)

\* The process ends; the file and the tokens in other hands remain.
Crash ==
    /\ up
    /\ up' = FALSE
    /\ memory' = [r \in Requests |-> "none"]
    /\ revoked' = {} /\ consumed' = {} /\ session' = {}
    /\ UNCHANGED <<clock, durable, torn, expires, tokens, used>>

StillOpen == {r \in Requests : durable[r] \in Open}

\* Mutant: the constructor takes over what was approved.
StartRestores ==
    /\ ~up
    /\ up' = TRUE
    /\ torn' = FALSE
    /\ memory' = durable
    /\ UNCHANGED <<clock, durable, expires, tokenVars>>

\* The constructor with recover(): the incomplete line is cut off and every
\* open request is revoked in the file.
Start ==
    /\ ~up
    /\ up' = TRUE
    /\ torn' = FALSE
    /\ durable' = With(durable, StillOpen, "revoked")
    /\ UNCHANGED <<clock, memory, expires, tokenVars>>

\* A record of recover() throws, or the process ends within it: the start
\* fails after some of the revocations.
StartFails ==
    /\ ~up
    /\ torn' \in BOOLEAN
    /\ \E R \in SUBSET StillOpen :
        /\ torn' => R # StillOpen
        /\ durable' = With(durable, R, "revoked")
    /\ UNCHANGED <<clock, up, memory, expires, tokenVars>>

Tick ==
    /\ clock < MaxTime
    /\ clock' = clock + 1
    /\ UNCHANGED <<up, durable, torn, memory, expires, tokenVars>>

Next ==
    \/ \E r \in Requests : Request(r) \/ Expire(r) \/ Approve(r) \/ Deny(r)
                              \/ Revoke(r) \/ Consume(r)
    \/ \E r, s \in Requests : Edit(r, s)
    \/ \E S \in Scopes : RevokeAll(S)
    \/ Crash \/ Start \/ StartFails \/ Tick

Spec == Init /\ [][Next]_vars

-----------------------------------------------------------------------------
(* Properties *)

\* What the caller did in the name of an approval is in the file, whatever
\* write failed and whenever the process ended: an approval is used once for
\* all processes together.
UsedIsJournaled == \A r \in used : durable[r] = "consumed"

\* A decision in the file is final: no later call, retry after a failed
\* write, timeout or restart replaces it.
DecisionsAreFinal ==
    [][\A r \in Requests : durable[r] \in Closed => durable'[r] = durable[r]]_vars

\* Something is done only with an approval of this process that stands in the
\* file and has not expired: an approval from before a restart, one that was
\* revoked by a call that failed halfway, and one the clock has overtaken are
\* worth nothing.
UseIsAuthorised ==
    [][\A r \in used' \ used :
         /\ r \in session
         /\ durable[r] = "approved"
         /\ clock < expires[r]]_vars

=============================================================================
