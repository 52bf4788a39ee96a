------------------------------ MODULE JobSearch ------------------------------
(***************************************************************************)
(* The job search: search runs, the central job list and search plans of   *)
(* the server (src/server/src/app.ts, services/job-inventory.ts) and the   *)
(* pages of the web client that work on them (src/web/src/app/app.ts).     *)
(*                                                                         *)
(* A search takes the time the sources take.  What it found is folded into *)
(* the list in one write of the workspace and saved as a run in another,   *)
(* and the plan it belongs to is written back in a third.  Meanwhile the   *)
(* user sorts, marks and deletes jobs, other calls search or adopt, and    *)
(* the server may stop between two writes.                                 *)
(***************************************************************************)
EXTENDS Integers, FiniteSets

CONSTANTS
    Jobs,           \* identity keys of job postings
    SearchRuns,     \* ids of search runs
    Plans,          \* ids of search plans
    Pages,          \* bound: what a user works on: "search", "list" and "marks" of "Meine Jobs", "plans"
    MaxRequests,    \* bound: requests in flight beyond which nobody starts one
    RunsOf,         \* bound, for each page: the ids its searches may take
    MaxInventory,   \* MAX_INVENTORY of the code, for each page: the entries the list holds at most
    MaxFaults       \* bound, for each page: stops of the server

VARIABLES
    page,           \* the page of the client
    net, flags, faults,
    runs,           \* search runs of the workspace
    inventory,      \* the central job list
    plans,          \* search plans
    found,          \* lastSearchRunId with lastSearchAdopted
    listed,         \* jobInventory of the client
    planned         \* schedules of the client

serverVars == <<runs, inventory, plans>>
clientVars == <<found, listed, planned>>
vars == <<page, net, flags, faults, serverVars, clientVars>>

None == "none"
Nothing == [id |-> None]
Is(x) == x # Nothing
Gone == [id |-> "deleted"]
Kept(x) == x \notin {Nothing, Gone}
Categories == {"inbox", "apply"}

-----------------------------------------------------------------------------
(* Requests *)

\* The flag an answer clears.
FlagOf(op) ==
    CASE op \in {"search", "adopt"} -> {"busy"}
      [] op \in {"refresh", "jobs", "deleteJob"} -> {"jobsBusy"}
      [] OTHER -> {}

Ask(op, arg) == [op |-> op, arg |-> arg, is |-> "sent", got |-> Nothing]
Told(q) == q.is \in {"answered", "refused", "lost"}
Failed(q) == q.is \in {"refused", "lost"}
MayAsk == Cardinality(net) < MaxRequests
Sends(q) == net' = net \cup {q} /\ flags' = flags \cup FlagOf(q.op)
Finish(q, asked) ==
    /\ net' = (net \ {q}) \cup asked
    /\ flags' = (flags \ FlagOf(q.op)) \cup UNION {FlagOf(x.op) : x \in asked}

Moves(q, is, got) == net' = (net \ {q}) \cup {[q EXCEPT !.is = is, !.got = got]}
Answer(q, got) == Moves(q, "answered", got)
Refuse(q) == Moves(q, "refused", Nothing)

-----------------------------------------------------------------------------

NewPlan(p) == [id |-> p, on |-> FALSE, due |-> FALSE, seen |-> {}]

Init ==
    /\ page \in Pages /\ net = {} /\ flags = {} /\ faults = 0
    /\ runs = [r \in SearchRuns |-> Nothing]
    /\ inventory = [j \in Jobs |-> Nothing]
    /\ plans \in [Plans -> {Nothing} \cup {[NewPlan(p) EXCEPT !.on = TRUE] : p \in Plans}]
    /\ \A p \in Plans : plans[p].id \in {p, None} /\ (page # "plans" => plans[p] = Nothing)
    /\ found = Nothing /\ listed = inventory /\ planned = plans

-----------------------------------------------------------------------------
(* The server: searches *)

Listed(list) == {j \in Jobs : Is(list[j])}
NewEntry(j, at) == [id |-> j, category |-> "inbox", applied |-> FALSE, lastSeen |-> at]
NewKeys(jobs) == jobs \ Listed(inventory)

\* Mutant: what is found anew replaces the entry.
FoldsAnew(jobs, at) == [j \in Jobs |-> IF j \in jobs THEN NewEntry(j, at) ELSE inventory[j]]

\* An entry that exists is enriched, it keeps what the user made of it.
Folded(jobs, at) ==
    [j \in Jobs |-> IF j \in NewKeys(jobs) THEN NewEntry(j, at)
                    ELSE IF j \in jobs THEN [inventory[j] EXCEPT !.lastSeen = at]
                    ELSE inventory[j]]

\* foldInventory() ends with a cut: what was seen last stays, whatever is marked.  Which of
\* those seen at the same time stay is decided by their keys, here left open.
Newest(list) ==
    LET all == Listed(list)
        Cuts == {kept \in SUBSET all :
                   /\ Cardinality(kept) = MaxInventory[page]
                   /\ \A j \in kept, k \in all \ kept : list[j].lastSeen >= list[k].lastSeen}
    IN  IF Cardinality(all) <= MaxInventory[page] THEN {list}
        ELSE {[j \in Jobs |-> IF j \in kept THEN list[j] ELSE Nothing] : kept \in Cuts}

\* A search or an adoption folds with the time of the fold, the plans that are due with
\* the time at which they were asked for.
Seen == {0} \cup {inventory[j].lastSeen : j \in Listed(inventory)}
Asked == {q.arg.at : q \in {x \in net : x.op = "due" /\ Is(x.arg)}}
After(times) == CHOOSE t \in {n + 1 : n \in times} : \A n \in times : n < t
At(q) == IF q.op = "due" THEN q.arg.at ELSE After(Seen \cup Asked)

FreshRun(r) == r \in RunsOf[page] /\ runs[r] = Nothing /\ \A q \in net : q.got.id # r
Found(r, jobs, plan) == [id |-> r, jobs |-> jobs, new |-> {}, plan |-> plan]

\* A preview (fold=false) only saves the run.
ServeSearch(q) ==
    /\ q.op \in {"search", "refresh"} /\ q.is = "sent"
    /\ \/ \E r \in SearchRuns, jobs \in SUBSET Jobs :
            FreshRun(r) /\ Moves(q, IF q.op = "search" THEN "folded" ELSE "found", Found(r, jobs, Nothing))
       \/ Refuse(q)
    /\ UNCHANGED serverVars

ServeFold(q) ==
    /\ q.is = "found"
    /\ inventory' \in Newest(Folded(q.got.jobs, At(q)))
    /\ Moves(q, "folded", [q.got EXCEPT !.new = @ \cup NewKeys(q.got.jobs)])
    /\ UNCHANGED <<runs, plans>>

\* saveSearchRun(): the record as a whole, whether it is still there or not.
ServeSaveRun(q) ==
    /\ q.is = "folded"
    /\ runs' = [runs EXCEPT ![q.got.id] = [id |-> q.got.id, jobs |-> q.got.jobs, new |-> q.got.new]]
    /\ Moves(q, IF q.op = "due" THEN "searched" ELSE "answered", q.got)
    /\ UNCHANGED <<inventory, plans>>

ServeAdopt(q) ==
    /\ q.op = "adopt" /\ q.is = "sent"
    /\ IF Kept(runs[q.arg.id])
       THEN Moves(q, "found", [Found(q.arg.id, runs[q.arg.id].jobs, Nothing) EXCEPT !.new = runs[q.arg.id].new])
       ELSE Refuse(q)
    /\ UNCHANGED serverVars

\* DELETE /api/data/search_runs and the retention of the workspace.
RunIsDropped(r) ==
    /\ page = "search" /\ Kept(runs[r]) /\ runs' = [runs EXCEPT ![r] = Gone]
    /\ UNCHANGED <<page, net, flags, faults, inventory, plans, clientVars>>

-----------------------------------------------------------------------------
(* The server: the job list *)

ServeJobs(q) == q.op = "jobs" /\ q.is = "sent" /\ Answer(q, [id |-> "list", jobs |-> inventory]) /\ UNCHANGED serverVars

\* DELETE /api/data/job_inventory.
ListIsCleared ==
    /\ page = "list" /\ inventory' = [j \in Jobs |-> Nothing]
    /\ UNCHANGED <<page, net, flags, faults, runs, plans, clientVars>>

ServeEntry(q, change) ==
    LET j == q.arg.job
    IN  IF Is(inventory[j])
        THEN inventory' = [inventory EXCEPT ![j] = change] /\ Answer(q, change)
        ELSE inventory' = inventory /\ Refuse(q)
ServeCategory(q) ==
    /\ q.op = "category" /\ q.is = "sent" /\ UNCHANGED <<runs, plans>>
    /\ ServeEntry(q, [inventory[q.arg.job] EXCEPT !.category = q.arg.to])
ServeApplied(q) ==
    /\ q.op = "applied" /\ q.is = "sent" /\ UNCHANGED <<runs, plans>>
    /\ ServeEntry(q, [inventory[q.arg.job] EXCEPT !.applied = q.arg.to])
ServeDeleteJob(q) ==
    /\ q.op = "deleteJob" /\ q.is = "sent" /\ UNCHANGED <<runs, plans>>
    /\ ServeEntry(q, Nothing)

-----------------------------------------------------------------------------
(* The server: plans *)

ServePlans(q) == q.op = "plans" /\ q.is = "sent" /\ Answer(q, [id |-> "plans", plans |-> plans]) /\ UNCHANGED serverVars
ServeCreatePlan(q) ==
    /\ q.op = "createPlan" /\ q.is = "sent" /\ UNCHANGED <<runs, inventory>>
    /\ \/ \E p \in Plans : plans[p] = Nothing /\ plans' = [plans EXCEPT ![p] = NewPlan(p)] /\ Answer(q, NewPlan(p))
       \/ Refuse(q) /\ UNCHANGED plans
ServeDeletePlan(q) ==
    /\ q.op = "deletePlan" /\ q.is = "sent" /\ UNCHANGED <<runs, inventory>>
    /\ IF Kept(plans[q.arg.id]) THEN plans' = [plans EXCEPT ![q.arg.id] = Gone] /\ Answer(q, Nothing)
       ELSE Refuse(q) /\ UNCHANGED plans

\* scheduleDecision(): an enabled plan whose time has come, outside of its quiet hours.
PlanComesDue(p) ==
    /\ Kept(plans[p]) /\ plans[p].on /\ ~plans[p].due
    /\ plans' = [plans EXCEPT ![p].due = TRUE]
    /\ UNCHANGED <<page, net, flags, faults, runs, inventory, clientVars>>
DuePlans == {plans[p] : p \in {x \in Plans : Kept(plans[x]) /\ plans[x].due}}

\* The plans are listed once and searched one after the other.
ServeDue(q) ==
    /\ q.op = "due" /\ q.is = "sent"
    /\ net' = (net \ {q}) \cup {[q EXCEPT !.is = "listed", !.arg = [id |-> "due", plans |-> DuePlans, at |-> After(Seen)]]}
    /\ UNCHANGED serverVars
WithoutPlan(q, plan) == [q EXCEPT !.is = "listed", !.got = Nothing, !.arg.plans = @ \ {plan}]
ServeDueSearch(q) ==
    /\ q.op = "due" /\ q.is = "listed"
    /\ \E plan \in q.arg.plans :
         \/ \E r \in SearchRuns, jobs \in SUBSET Jobs : FreshRun(r) /\ Moves(q, "found", Found(r, jobs, plan))
         \/ net' = (net \ {q}) \cup {WithoutPlan(q, plan)}
    /\ UNCHANGED serverVars
\* completeScheduleRun(): the plan as it was listed, with what was found and its next time.
ServeDuePlan(q) ==
    /\ q.is = "searched"
    /\ plans' = [plans EXCEPT ![q.got.plan.id] = [q.got.plan EXCEPT !.due = FALSE, !.seen = q.got.jobs]]
    /\ net' = (net \ {q}) \cup {WithoutPlan(q, q.got.plan)}
    /\ UNCHANGED <<runs, inventory>>
ServeDueEnds(q) == q.op = "due" /\ q.is = "listed" /\ q.arg.plans = {} /\ Answer(q, Nothing) /\ UNCHANGED serverVars

Serve(q) ==
    /\ \/ ServeSearch(q) \/ ServeFold(q) \/ ServeSaveRun(q) \/ ServeAdopt(q)
       \/ ServeJobs(q) \/ ServeCategory(q) \/ ServeApplied(q) \/ ServeDeleteJob(q)
       \/ ServePlans(q) \/ ServeCreatePlan(q) \/ ServeDeletePlan(q)
       \/ ServeDue(q) \/ ServeDueSearch(q) \/ ServeDuePlan(q) \/ ServeDueEnds(q)
    /\ UNCHANGED <<page, flags, faults, clientVars>>

\* The server stops wherever the calls are; an answer under way is lost with it.
Stops ==
    /\ faults < MaxFaults[page] /\ faults' = faults + 1 /\ net # {}
    /\ net' = {[q EXCEPT !.is = "lost", !.got = Nothing] : q \in net}
    /\ UNCHANGED <<page, flags, serverVars, clientVars>>

-----------------------------------------------------------------------------
(* The client: search *)

Quiet == UNCHANGED <<page, faults, serverVars>>
Asks(q) == MayAsk /\ Sends(q) /\ Quiet /\ UNCHANGED clientVars

RunSearch == page = "search" /\ "busy" \notin flags /\ Asks(Ask("search", Nothing))
SearchAnswered(q) ==
    /\ q.op = "search" /\ Told(q) /\ Finish(q, {}) /\ Quiet
    /\ found' = IF Failed(q) THEN found ELSE [id |-> q.got.id, jobs |-> q.got.jobs, adopted |-> FALSE]
    /\ UNCHANGED <<listed, planned>>

AdoptSearchResults ==
    /\ page = "search" /\ Is(found) /\ found.jobs # {} /\ ~found.adopted /\ "busy" \notin flags
    /\ Asks(Ask("adopt", [id |-> found.id]))
AdoptAnswered(q) ==
    /\ q.op = "adopt" /\ Told(q) /\ Quiet /\ UNCHANGED <<listed, planned>>
    /\ IF Failed(q) THEN Finish(q, {}) /\ UNCHANGED found
       ELSE found' = [found EXCEPT !.adopted = TRUE] /\ Finish(q, {Ask("jobs", Nothing)})

-----------------------------------------------------------------------------
(* The client: "Meine Jobs" *)

JobsPage == page \in {"list", "marks"}
LoadJobs == JobsPage /\ Asks(Ask("jobs", Nothing))
JobsAnswered(q) ==
    /\ q.op = "jobs" /\ Told(q) /\ Finish(q, {}) /\ Quiet /\ UNCHANGED <<found, planned>>
    /\ listed' = IF Failed(q) THEN listed ELSE q.got.jobs

RefreshJobsSearch == JobsPage /\ "jobsBusy" \notin flags /\ Asks(Ask("refresh", Nothing))
RefreshAnswered(q) ==
    /\ q.op = "refresh" /\ Told(q) /\ Finish(q, IF Failed(q) THEN {} ELSE {Ask("jobs", Nothing)})
    /\ Quiet /\ UNCHANGED clientVars

MoveJobCategory(j, c) ==
    page = "list" /\ Is(listed[j]) /\ listed[j].category # c /\ Asks(Ask("category", [job |-> j, to |-> c]))
ToggleJobApplied(j) ==
    page = "marks" /\ Is(listed[j]) /\ Asks(Ask("applied", [job |-> j, to |-> ~listed[j].applied]))
EntryAnswered(q) ==
    /\ q.op \in {"category", "applied"} /\ Told(q) /\ Finish(q, {}) /\ Quiet /\ UNCHANGED <<found, planned>>
    /\ listed' = IF Failed(q) \/ ~Is(listed[q.arg.job]) THEN listed ELSE [listed EXCEPT ![q.arg.job] = q.got]

\* One job, or those of a category one after the other.
DeleteFirst(jobs) == {Ask("deleteJob", [job |-> j, rest |-> jobs \ {j}]) : j \in {CHOOSE x \in jobs : TRUE}}
DeleteJob(j) ==
    JobsPage /\ "jobsBusy" \notin flags /\ Is(listed[j]) /\ Asks(Ask("deleteJob", [job |-> j, rest |-> {}]))
DeleteJobsInCategory(c) ==
    LET targets == {j \in Jobs : Is(listed[j]) /\ listed[j].category = c}
    IN  page = "list" /\ "jobsBusy" \notin flags /\ targets # {} /\ \A q \in DeleteFirst(targets) : Asks(q)
DeleteAnswered(q) ==
    /\ q.op = "deleteJob" /\ Told(q) /\ Quiet /\ UNCHANGED <<found, planned>>
    /\ listed' = IF Failed(q) THEN listed ELSE [listed EXCEPT ![q.arg.job] = Nothing]
    /\ Finish(q, IF q.arg.rest = {} THEN {} ELSE DeleteFirst(q.arg.rest))

-----------------------------------------------------------------------------
(* The client: operations page; POST run-due comes from a timer of the user's own *)

LoadOperations == page = "plans" /\ Asks(Ask("plans", Nothing))
PlansAnswered(q) ==
    /\ q.op = "plans" /\ Told(q) /\ Finish(q, {}) /\ Quiet /\ UNCHANGED <<found, listed>>
    /\ planned' = IF Failed(q) THEN planned ELSE q.got.plans
CreateDisabledSchedule == page = "plans" /\ Asks(Ask("createPlan", Nothing))
CreateAnswered(q) ==
    /\ q.op = "createPlan" /\ Told(q) /\ Finish(q, {}) /\ Quiet /\ UNCHANGED <<found, listed>>
    /\ planned' = IF Failed(q) THEN planned ELSE [planned EXCEPT ![q.got.id] = q.got]
DeleteSchedule(p) == page = "plans" /\ Kept(planned[p]) /\ Asks(Ask("deletePlan", [id |-> p]))
DeleteScheduleAnswered(q) ==
    /\ q.op = "deletePlan" /\ Told(q) /\ Finish(q, {}) /\ Quiet /\ UNCHANGED <<found, listed>>
    /\ planned' = IF Failed(q) THEN planned ELSE [planned EXCEPT ![q.arg.id] = Nothing]
RunDue == page = "plans" /\ Asks(Ask("due", Nothing))
DueAnswered(q) == q.op = "due" /\ Told(q) /\ Finish(q, {}) /\ Quiet /\ UNCHANGED clientVars

Handlers(q) ==
    \/ SearchAnswered(q) \/ AdoptAnswered(q) \/ JobsAnswered(q) \/ RefreshAnswered(q) \/ EntryAnswered(q)
    \/ DeleteAnswered(q) \/ PlansAnswered(q) \/ CreateAnswered(q) \/ DeleteScheduleAnswered(q) \/ DueAnswered(q)

Next ==
    \/ \E q \in net : Serve(q) \/ Handlers(q)
    \/ Stops \/ ListIsCleared
    \/ \E r \in SearchRuns : RunIsDropped(r)
    \/ RunSearch \/ AdoptSearchResults \/ LoadJobs \/ RefreshJobsSearch
    \/ \E j \in Jobs : ToggleJobApplied(j) \/ DeleteJob(j) \/ (\E c \in Categories : MoveJobCategory(j, c))
    \/ \E c \in Categories : DeleteJobsInCategory(c)
    \/ LoadOperations \/ CreateDisabledSchedule \/ RunDue
    \/ \E p \in Plans : PlanComesDue(p) \/ DeleteSchedule(p)

Spec == Init /\ [][Next]_vars

-----------------------------------------------------------------------------
(* Properties *)

SameMarks(j) ==
    /\ Is(inventory'[j])
    /\ inventory'[j].category = inventory[j].category /\ inventory'[j].applied = inventory[j].applied
Ordered(j) == \E q \in net \ net' : q.op \in {"category", "applied", "deleteJob"} /\ q.arg.job = j
Cleared == net' = net /\ Listed(inventory') = {}
Folds(q) == q \in net \ net' /\ q.is = "found"

\* The list is full, and of what the fold has not found nothing stays that was seen earlier.
CutOff(j, q) ==
    /\ ~Is(inventory'[j]) /\ Cardinality(Listed(inventory')) = MaxInventory[page]
    /\ j \notin q.got.jobs =>
         \A k \in Listed(inventory') : inventory'[k].lastSeen >= inventory[j].lastSeen

\* What the user made of a job - its category, the mark "applied", its deletion - is changed
\* by an order of the user for that job, or by the clearing of the whole list, and by nothing
\* else: no search, adoption, plan or retention that is under way at the same time resets it.
\* Two things the code does to it all the same: a fold cuts a full list, marked or not, and a
\* fold brings a job back that the user has deleted, as one never seen before.
MarksKept ==
    [][\A j \in Jobs :
         /\ Is(inventory[j]) =>
              SameMarks(j) \/ Ordered(j) \/ Cleared \/ \E q \in net : Folds(q) /\ CutOff(j, q)
         /\ ~Is(inventory[j]) /\ Is(inventory'[j]) =>
              \E q \in net : Folds(q) /\ j \in q.got.jobs /\ inventory'[j] = NewEntry(j, At(q))]_vars

=============================================================================
