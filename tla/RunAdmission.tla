---------------------------- MODULE RunAdmission ----------------------------
(* How a run of an agent comes to be: POST /api/agent-runs of                *)
(* src/server/src/app.ts with an idempotency key, the map of keys in memory, *)
(* the claims on disk (agents/idempotency-store.ts), the deletion of runs by *)
(* retention, and the emergency stop that is to let no run begin.            *)
(*                                                                           *)
(* A request is taken apart at its awaits; what it reads in preparation is   *)
(* left out, only that it takes time and may be refused. The scheduling of   *)
(* the run itself is AgentScheduler's.                                       *)
EXTENDS Naturals, FiniteSets

CONSTANTS
    RunPosts,   \* the requests that are in flight at the same time
    RunKeys,    \* idempotency keys
    Bodies,     \* the bodies sent with them
    MaxRuns,    \* bound: the runs created
    MaxMishaps  \* bound: failing writes and restarts

\* The runs that continue an orchestration have no key; "none" stands for that.
ASSUME AdmissionAssumption == "none" \notin RunKeys

VARIABLES
    stop,       \* the emergency stop: "off", "enabled", "done" when it has cancelled
                \* the runs, or "unfinished" when its request ended before that
    recent,     \* idempotentAgentRuns: what the process knows of each key
    claims,     \* the claim of each key on disk
    runs,       \* the runs of the store
    requests,   \* where each request is
    sweep,      \* the deletion of runs by retention
    lapsed,     \* keys whose completion could not be written
    mishaps

admission == <<stop, recent, claims, runs, requests, sweep, lapsed, mishaps>>

NoEntry == [is |-> "none"]
AtRest == [at |-> "idle"]
NoSweep == [at |-> "idle", gone |-> {}]

AdmissionInit ==
    /\ stop = "off"
    /\ recent = [k \in RunKeys |-> NoEntry]
    /\ claims = [k \in RunKeys |-> NoEntry]
    /\ runs = {}
    /\ requests = [q \in RunPosts |-> AtRest]
    /\ sweep = NoSweep /\ lapsed = {} /\ mishaps = 0

-----------------------------------------------------------------------------

Stands(q, place) == requests[q].at = place
Becomes(q, r) == requests' = [requests EXCEPT ![q] = r]
MovesTo(q, place) == Becomes(q, [requests[q] EXCEPT !.at = place])
Answered(q, run) ==
    [at |-> "answered", key |-> requests[q].key, body |-> requests[q].body, run |-> run]
Refused(q) == Becomes(q, AtRest)

RunsOf(k) == {r \in runs : r.key = k}
Gone(r) == r \notin {[s EXCEPT !.active = r.active] : s \in runs}
NewRun(k, b) ==
    [id |-> 1 + Cardinality(runs) + Cardinality(sweep.gone), key |-> k, body |-> b, active |-> TRUE]
HasRoom == Cardinality(runs) + Cardinality(sweep.gone) < MaxRuns
Goof == mishaps < MaxMishaps /\ mishaps' = mishaps + 1

Post(q, k, b) ==
    /\ Stands(q, "idle") /\ stop = "off"
    /\ Becomes(q, [at |-> "list", key |-> k, body |-> b])
    /\ UNCHANGED <<stop, recent, claims, runs, sweep, lapsed, mishaps>>

\* A run of this key that the store knows is the answer.
LooksForRun(q) ==
    /\ Stands(q, "list")
    /\ \/ RunsOf(requests[q].key) = {} /\ MovesTo(q, "look")
       \/ \E r \in RunsOf(requests[q].key) :
            IF r.body = requests[q].body THEN Becomes(q, Answered(q, r)) ELSE Refused(q)
       \/ Refused(q)
    /\ UNCHANGED <<stop, recent, claims, runs, sweep, lapsed, mishaps>>

SameBody(q, entry) == entry.body = requests[q].body

LooksInMemory(q) ==
    LET entry == recent[requests[q].key] IN
    /\ Stands(q, "look")
    /\ CASE entry.is = "none" -> MovesTo(q, "claim")
         [] entry.is # "none" /\ ~SameBody(q, entry) -> Refused(q)
         [] entry.is = "pending" /\ SameBody(q, entry) ->
              Becomes(q, [at |-> "await", key |-> requests[q].key, body |-> requests[q].body,
                          owner |-> entry.owner])
         [] entry.is = "run" /\ SameBody(q, entry) ->
              Becomes(q, [at |-> "get", key |-> requests[q].key, body |-> requests[q].body,
                          run |-> entry.run])
    /\ UNCHANGED <<stop, recent, claims, runs, sweep, lapsed, mishaps>>

\* An entry whose run has been deleted is dropped, whatever it is by then.
GetsRun(q) ==
    /\ Stands(q, "get")
    /\ IF Gone(requests[q].run)
       THEN /\ recent' = [recent EXCEPT ![requests[q].key] = NoEntry]
            /\ Becomes(q, [at |-> "claim", key |-> requests[q].key, body |-> requests[q].body])
       ELSE Becomes(q, Answered(q, requests[q].run)) /\ UNCHANGED recent
    /\ UNCHANGED <<stop, claims, runs, sweep, lapsed, mishaps>>

\* Mutant: a pending claim is taken over.
IsFree(claim) == claim.is \in {"none", "pending"}
MayClaim(claim) == claim.is = "none"

\* claim(); who gets it enters the pending promise at once.
Claims(q) ==
    LET k == requests[q].key
        claim == claims[k]
        entry == recent[k] IN
    /\ Stands(q, "claim")
    /\ \/ /\ MayClaim(claim)
          /\ claims' = [claims EXCEPT ![k] = [is |-> "pending", body |-> requests[q].body, lease |-> q]]
          /\ recent' = [recent EXCEPT ![k] = [is |-> "pending", body |-> requests[q].body, owner |-> q]]
          /\ MovesTo(q, "enqueue") /\ UNCHANGED mishaps
       \/ MayClaim(claim) /\ Goof /\ Refused(q) /\ UNCHANGED <<claims, recent>>
       \/ /\ ~MayClaim(claim) /\ UNCHANGED <<claims, recent, mishaps>>
          /\ CASE ~SameBody(q, claim) -> Refused(q)
               [] SameBody(q, claim) /\ claim.is = "completed" ->
                    IF Gone(claim.run) THEN Refused(q) ELSE Becomes(q, Answered(q, claim.run))
               [] SameBody(q, claim) /\ claim.is = "pending" ->
                    IF entry.is = "pending"
                    THEN Becomes(q, [at |-> "await", key |-> k, body |-> requests[q].body,
                                     owner |-> entry.owner])
                    ELSE Refused(q)
    /\ UNCHANGED <<stop, runs, sweep, lapsed>>

\* Those who wait for the promise of q are told with it.
Tells(q, own, result) ==
    requests' = [p \in RunPosts |->
                   CASE p = q -> own
                     [] Stands(p, "await") /\ requests[p].owner = q -> result
                     [] OTHER -> requests[p]]

Enqueues(q) ==
    LET k == requests[q].key IN
    /\ Stands(q, "enqueue")
    /\ \/ /\ HasRoom
          /\ runs' = runs \cup {NewRun(k, requests[q].body)}
          /\ Becomes(q, [at |-> "created", key |-> k, body |-> requests[q].body,
                         run |-> NewRun(k, requests[q].body)])
          /\ UNCHANGED recent
       \/ /\ recent' = [recent EXCEPT ![k] = NoEntry]
          /\ Tells(q, [requests[q] EXCEPT !.at = "abandon"], AtRest)
          /\ UNCHANGED runs
    /\ UNCHANGED <<stop, claims, sweep, lapsed, mishaps>>

Resolves(q) ==
    LET r == requests[q].run IN
    /\ Stands(q, "created")
    /\ recent' = [recent EXCEPT ![r.key] = [is |-> "run", body |-> r.body, run |-> r]]
    /\ requests' = [p \in RunPosts |->
                      CASE p = q -> [requests[q] EXCEPT !.at = "complete"]
                        [] Stands(p, "await") /\ requests[p].owner = q -> Answered(p, r)
                        [] OTHER -> requests[p]]
    /\ UNCHANGED <<stop, claims, runs, sweep, lapsed, mishaps>>

\* complete(); the run exists by now, whether or not this can be written.
CompletesClaim(q) ==
    LET k == requests[q].key IN
    /\ Stands(q, "complete")
    /\ \/ /\ claims[k].is = "pending" /\ claims[k].lease = q
          /\ claims' = [claims EXCEPT ![k] = [is |-> "completed", body |-> requests[q].body,
                                              run |-> requests[q].run]]
          /\ Becomes(q, Answered(q, requests[q].run))
          /\ UNCHANGED <<recent, lapsed, mishaps>>
       \/ /\ Goof
          /\ recent' = [recent EXCEPT ![k] = NoEntry]
          /\ lapsed' = lapsed \cup {k}
          /\ MovesTo(q, "abandon") /\ UNCHANGED claims
    /\ UNCHANGED <<stop, runs, sweep>>

AbandonsClaim(q) ==
    LET k == requests[q].key IN
    /\ Stands(q, "abandon")
    /\ \/ claims' = [claims EXCEPT ![k] = NoEntry] /\ UNCHANGED mishaps
       \/ Goof /\ UNCHANGED claims
    /\ Refused(q)
    /\ UNCHANGED <<stop, recent, runs, sweep, lapsed>>

Replies(q) ==
    /\ Stands(q, "answered") /\ Refused(q)
    /\ UNCHANGED <<stop, recent, claims, runs, sweep, lapsed, mishaps>>

-----------------------------------------------------------------------------
(* Runs, time and retention *)

RunEndsItself(r) ==
    /\ r.active
    /\ runs' = (runs \ {r}) \cup {[r EXCEPT !.active = FALSE]}
    /\ UNCHANGED <<stop, recent, claims, requests, sweep, lapsed, mishaps>>

\* pruneIdempotentAgentRuns(): 60 seconds, pending or not.
EntryExpires(k) ==
    /\ recent[k].is # "none"
    /\ recent' = [recent EXCEPT ![k] = NoEntry]
    /\ UNCHANGED <<stop, claims, runs, requests, sweep, lapsed, mishaps>>

\* 24 hours: no request is in flight that long.
ClaimExpires(k) ==
    /\ claims[k].is # "none"
    /\ \A q \in RunPosts : ~Stands(q, "idle") => requests[q].key # k
    /\ claims' = [claims EXCEPT ![k] = NoEntry]
    /\ UNCHANGED <<stop, recent, runs, requests, sweep, lapsed, mishaps>>

DeletesRuns(gone) ==
    /\ sweep.at = "idle" /\ gone # {} /\ \A r \in gone : ~r.active
    /\ runs' = runs \ gone
    /\ sweep' = [at |-> "memory", gone |-> sweep.gone \cup gone]
    /\ UNCHANGED <<stop, recent, claims, requests, lapsed, mishaps>>

OfDeleted(entry) == entry.is \in {"run", "completed"} /\ Gone(entry.run)

ForgetsRuns ==
    /\ sweep.at = "memory"
    /\ recent' = [k \in RunKeys |-> IF OfDeleted(recent[k]) THEN NoEntry ELSE recent[k]]
    /\ sweep' = [sweep EXCEPT !.at = "claims"]
    /\ UNCHANGED <<stop, claims, runs, requests, lapsed, mishaps>>

DeletesClaims ==
    /\ sweep.at = "claims"
    /\ claims' = [k \in RunKeys |-> IF OfDeleted(claims[k]) THEN NoEntry ELSE claims[k]]
    /\ sweep' = [sweep EXCEPT !.at = "idle"]
    /\ UNCHANGED <<stop, recent, runs, requests, lapsed, mishaps>>

-----------------------------------------------------------------------------
(* The emergency stop *)

\* The approvals are revoked first; the journal failing there ends the request.
Stops ==
    /\ stop = "off"
    /\ \/ stop' = "enabled" /\ UNCHANGED mishaps
       \/ stop' = "unfinished" /\ Goof
    /\ UNCHANGED <<recent, claims, runs, requests, sweep, lapsed>>

CancelsRuns ==
    /\ stop = "enabled" /\ stop' = "done"
    /\ runs' = {[r EXCEPT !.active = FALSE] : r \in runs}
    /\ UNCHANGED <<recent, claims, requests, sweep, lapsed, mishaps>>

Releases ==
    /\ stop # "off" /\ stop' = "off"
    /\ UNCHANGED <<recent, claims, runs, requests, sweep, lapsed, mishaps>>

\* An orchestration is continued, or one of its nodes tried again.
Continues ==
    /\ HasRoom
    /\ runs' = runs \cup {NewRun("none", "node")}
    /\ UNCHANGED <<stop, recent, claims, requests, sweep, lapsed, mishaps>>

\* The map, the requests and the stop are lost; what ran is orphaned.
Restarts ==
    /\ Goof
    /\ stop' = "off"
    /\ recent' = [k \in RunKeys |-> NoEntry]
    /\ runs' = {[r EXCEPT !.active = FALSE] : r \in runs}
    /\ requests' = [q \in RunPosts |-> AtRest]
    /\ sweep' = [sweep EXCEPT !.at = "idle"]
    /\ UNCHANGED <<claims, lapsed>>

AdmissionNext ==
    \/ \E q \in RunPosts :
         \/ \E k \in RunKeys, b \in Bodies : Post(q, k, b)
         \/ LooksForRun(q) \/ LooksInMemory(q) \/ GetsRun(q) \/ Claims(q) \/ Enqueues(q)
         \/ Resolves(q) \/ CompletesClaim(q) \/ AbandonsClaim(q) \/ Replies(q)
    \/ \E r \in runs : RunEndsItself(r)
    \/ \E k \in RunKeys : EntryExpires(k) \/ ClaimExpires(k)
    \/ \E gone \in SUBSET runs : DeletesRuns(gone)
    \/ ForgetsRuns \/ DeletesClaims
    \/ Stops \/ CancelsRuns \/ Releases \/ Continues \/ Restarts

AdmissionSpec == AdmissionInit /\ [][AdmissionNext]_admission

-----------------------------------------------------------------------------

\* Requests with the same key, at the same time or one after the other and
\* across restarts, lead to one run, unless the completion of the claim could
\* not be written: then another that has already looked for a run starts one.
OneRunPerKey ==
    \A k \in RunKeys \ lapsed : Cardinality(RunsOf(k)) <= 1

\* Every answer to a request is a run of its key that was made for its body.
AnswerIsOwnRun ==
    \A q \in RunPosts : Stands(q, "answered") =>
        /\ requests[q].run.key = requests[q].key
        /\ requests[q].run.body = requests[q].body

\* POST /api/agent-runs: a key means one run, and each request under it is answered
\* with that run, made for its own body.
KeyMeansOneRun == OneRunPerKey /\ AnswerIsOwnRun

\* docs/incident-privacy-runbook.md:9 of the emergency stop: new runs are blocked
\* and active ones cancelled.  Contradicted by the routes.
StoppedIsQuiet == stop = "done" => \A r \in runs : ~r.active

=============================================================================
