------------------------------ MODULE WebCases ------------------------------
(***************************************************************************)
(* The workshop of the web client (src/web/src/app/app.ts): application    *)
(* cases are opened one after another in a single editor whose text is     *)
(* finalised, reviewed, approved and exported for the case that is open.   *)
(* The texts of the cases that are not open wait in a table; a prepared    *)
(* draft is offered to every case of its job.                              *)
(*                                                                         *)
(* Answers arrive in any order and after other cases were opened, created  *)
(* or deleted.  The server is reduced to what its routes answer to this    *)
(* page (src/server/src/app.ts); module Applications has the whole of it.  *)
(***************************************************************************)
EXTENDS FiniteSets, Integers

CONSTANTS
    Cases, Jobs,
    None,
    MaxRequests     \* bound: requests in flight beyond which the user starts none, for each work

VARIABLES
    cases,          \* the cases of the server
    net,            \* requests in flight
    list, arts,     \* applicationCases and applicationArtifacts of the client
    sel,            \* selectedApplicationCaseId
    editor,         \* pipelineAnnotatedContent: for what its parts were written
    drafts,         \* pipelineDraftsByCase
    draft, match,   \* jobs of draft and selectedMatch
    reviewed, exported, \* artifactReviewConfirmed and artifactExportConfirmed
    busy, jobsBusy,
    work            \* what the user does: "texts" or the "release" of finished ones

vars == <<work, cases, net, list, arts, sel, editor, drafts, draft, match, reviewed, exported, busy, jobsBusy>>
texts == <<sel, editor, drafts>>
ticks == <<reviewed, exported>>

Unknown == [job |-> None, state |-> "none", doc |-> "none"]
Gone == [Unknown EXCEPT !.state = "gone"]   \* an id is given once
Absent == {None}                            \* no text is kept for the case
Nothing == [c \in Cases |-> Unknown]
There(f) == {c \in Cases : f[c].job # None}

-----------------------------------------------------------------------------
(* Requests *)

Ask(op, c) == [op |-> op, case |-> c, job |-> None, text |-> {}, is |-> "sent", got |-> Nothing]
Sends(q) == Cardinality(net) < MaxRequests[work] /\ net' = net \cup {q}
Answer(q, c) ==
    net' = (net \ {q}) \cup {[q EXCEPT !.is = "answered", !.case = c,
        !.got = IF c = None THEN [x \in Cases |-> IF x \in There(cases) THEN cases[x] ELSE Unknown]
                ELSE [Nothing EXCEPT ![c] = cases'[c]]]}
Refuse(q) == net' = (net \ {q}) \cup {[q EXCEPT !.is = "refused"]}
\* What the page loads after an answer.
Follow(q, more) == net' = (net \ {q}) \cup more

-----------------------------------------------------------------------------

\* Cases of earlier days, one in the release; the workshop has just been entered.
Init ==
    /\ work \in {"texts", "release"}
    /\ \E S \in {C \in SUBSET Cases : work = "release" => Cardinality(C) = 1} : \E j \in [S -> Jobs] :
         cases = [c \in Cases |-> IF c \notin S THEN Unknown
                                 ELSE [job |-> j[c], state |-> IF work = "texts" THEN "review" ELSE "open", doc |-> "none"]]
    /\ match \in Jobs
    /\ net = {} /\ list = cases /\ arts = [c \in Cases |-> "none"]
    /\ sel = None /\ editor = {} /\ drafts = [c \in Cases |-> Absent] /\ draft = None
    /\ reviewed = {} /\ exported = {} /\ busy = FALSE /\ jobsBusy = FALSE

-----------------------------------------------------------------------------
(* The server *)

Is(c, state, doc) == cases[c].state = state /\ cases[c].doc = doc
Becomes(q, state, doc) == cases' = [cases EXCEPT ![q.case].state = state, ![q.case].doc = doc] /\ Answer(q, q.case)

ServeRead(q) == q.op \in {"list", "crm", "docs", "draft"} /\ UNCHANGED cases /\ Answer(q, q.case)
ServeCreate(q) ==
    /\ q.op \in {"create", "begin"}
    /\ \E c \in Cases : /\ cases[c] = Unknown
                       /\ cases' = [cases EXCEPT ![c] = [job |-> q.job, state |-> "open", doc |-> "none"]]
                       /\ Answer(q, c)
\* The states before the review are one.
ServeAdvance(q) == q.op = "advance" /\ Is(q.case, "open", "none") /\ Becomes(q, "review", "none")
ServeFinalize(q) == q.op = "finalize" /\ cases[q.case].state = "review" /\ Becomes(q, "review", "proposed")
ServeReview(q) ==
    /\ q.op = "review" /\ cases[q.case].doc = "proposed"
    /\ \E d \in {"approved", "rejected"} : Becomes(q, cases[q.case].state, d)
ServeApprove(q) == q.op = "approve" /\ Is(q.case, "review", "approved") /\ Becomes(q, "approved", "approved")
ServeExport(q) == q.op = "export" /\ Is(q.case, "approved", "approved") /\ Becomes(q, "exported", "used")
ServeDelete(q) ==
    /\ q.op = "delete" /\ q.case \in There(cases)
    /\ cases' = [cases EXCEPT ![q.case] = Gone] /\ Answer(q, q.case)

\* Any request may be refused, or its answer never come: verification, disk, network.
Serve(q) ==
    /\ q.is = "sent" /\ UNCHANGED <<list, arts, texts, draft, match, ticks, busy, jobsBusy>>
    /\ \/ ServeRead(q) \/ ServeCreate(q) \/ ServeAdvance(q) \/ ServeFinalize(q)
       \/ ServeReview(q) \/ ServeApprove(q) \/ ServeExport(q) \/ ServeDelete(q)
       \/ Refuse(q) /\ UNCHANGED cases

-----------------------------------------------------------------------------
(* The page *)

\* The text of a case that is opened: its own, or the draft that was prepared for its job.
Restored(c, f) == IF drafts[c] # Absent THEN drafts[c] ELSE IF draft = f[c].job THEN {draft} ELSE {}

\* selectApplicationCase() for a case of the list f
Opens(c, f) ==
    /\ sel' = c
    /\ drafts' = IF sel \notin {None, c} THEN [drafts EXCEPT ![sel] = editor] ELSE drafts
    /\ editor' = IF sel = c THEN editor ELSE Restored(c, f)

SelectApplicationCase(c) ==
    /\ c \in There(list) /\ Opens(c, list)
    /\ IF work = "release" THEN Sends(Ask("docs", c)) ELSE UNCHANGED net
    /\ UNCHANGED <<cases, list, arts, draft, match, ticks, busy, jobsBusy>>

\* setPipelineAnnotatedContent() and setPipelineIterationManifest()
Types ==
    /\ sel \in There(list) /\ editor' \in {{}, editor \cup {sel}}
    /\ UNCHANGED <<cases, net, list, arts, sel, drafts, draft, match, ticks, busy, jobsBusy>>

LoadApplicationCases == Sends(Ask("list", None)) /\ UNCHANGED <<busy, jobsBusy>>
LoadCrm == work = "release" /\ Sends(Ask("crm", None)) /\ UNCHANGED <<busy, jobsBusy>>
PrepareApplication == work = "texts" /\ Sends([Ask("draft", None) EXCEPT !.job = match]) /\ busy' = TRUE /\ UNCHANGED jobsBusy
CreateApplicationCase == work = "texts" /\ Sends([Ask("create", None) EXCEPT !.job = match]) /\ busy' = TRUE /\ UNCHANGED jobsBusy
StartApplicationFromInventory ==
    /\ work = "texts" /\ ~jobsBusy /\ jobsBusy' = TRUE /\ UNCHANGED busy
    /\ Sends([Ask("begin", None) EXCEPT !.job = match])
AdvanceApplication(c) ==
    /\ work = "release" /\ c \in There(list) /\ list[c].state = "open" /\ ~busy /\ busy' = TRUE
    /\ Sends(Ask("advance", c)) /\ UNCHANGED jobsBusy
DeleteApplicationCaseRow(c) ==
    /\ work = "texts" /\ c \in There(list) /\ ~busy /\ busy' = TRUE /\ Sends(Ask("delete", c)) /\ UNCHANGED jobsBusy

OfOpenCase(op) == work = "release" /\ sel \in There(list) /\ ~busy /\ busy' = TRUE /\ Sends(Ask(op, sel)) /\ UNCHANGED jobsBusy
FinalizeSelectedApplicationCase ==
    /\ sel \in There(list) /\ list[sel].state = "review" /\ editor # {}
    /\ ~busy /\ busy' = TRUE /\ Sends([Ask("finalize", sel) EXCEPT !.text = editor]) /\ UNCHANGED jobsBusy
ReviewApplicationRevision == OfOpenCase("review") /\ arts[sel] = "proposed" /\ sel \in reviewed
ApproveApplicationCase == OfOpenCase("approve") /\ arts[sel] = "approved" /\ list[sel].state = "review"
ApplicationArtifactExportAvailable == list[sel].state = "approved" /\ arts[sel] = "approved"
ExportApplicationRevision == OfOpenCase("export") /\ ApplicationArtifactExportAvailable /\ sel \in exported

Requests ==
    /\ UNCHANGED <<cases, list, arts, texts, draft, match, ticks>>
    /\ \/ LoadApplicationCases \/ LoadCrm
       \/ PrepareApplication \/ CreateApplicationCase \/ StartApplicationFromInventory
       \/ FinalizeSelectedApplicationCase \/ ReviewApplicationRevision \/ ApproveApplicationCase \/ ExportApplicationRevision
       \/ \E c \in Cases : AdvanceApplication(c) \/ DeleteApplicationCaseRow(c)

ChooseMatch(j) == work = "texts" /\ match' = j /\ UNCHANGED <<cases, net, list, arts, texts, draft, ticks, busy, jobsBusy>>
Ticks ==
    /\ sel \in There(list) /\ UNCHANGED <<cases, net, list, arts, texts, draft, match, busy, jobsBusy>>
    /\ \/ arts[sel] = "proposed" /\ reviewed' = reviewed \cup {sel} /\ UNCHANGED exported
       \/ ApplicationArtifactExportAvailable /\ exported' = exported \cup {sel} /\ UNCHANGED reviewed

-----------------------------------------------------------------------------
(* Answers *)

\* An answer that fails says so and no more.
IsRefused(q) ==
    /\ q.is = "refused" /\ Follow(q, {}) /\ UNCHANGED <<cases, list, arts, texts, draft, match, ticks>>
    /\ busy' = (busy /\ q.op \in {"list", "begin"}) /\ jobsBusy' = (jobsBusy /\ q.op # "begin")

ListAnswered(q) ==
    /\ q.op \in {"list", "crm"} /\ list' = q.got /\ Follow(q, {})
    /\ sel' = IF q.op = "list" /\ sel \notin There(q.got) THEN None ELSE sel
    /\ UNCHANGED <<arts, editor, drafts, draft, ticks, busy, jobsBusy>>
DocsAnswered(q) ==
    /\ q.op = "docs" /\ arts' = [arts EXCEPT ![q.case] = q.got[q.case].doc] /\ Follow(q, {})
    /\ UNCHANGED <<list, texts, draft, ticks, busy, jobsBusy>>
DraftAnswered(q) ==
    /\ q.op = "draft" /\ draft' = q.job /\ busy' = FALSE /\ Follow(q, {})
    /\ UNCHANGED <<list, arts, texts, ticks, jobsBusy>>
CaseCreated(q) ==
    /\ q.op \in {"create", "begin"} /\ list' = [list EXCEPT ![q.case] = q.got[q.case]]
    /\ arts' = [arts EXCEPT ![q.case] = "none"] /\ Opens(q.case, list') /\ Follow(q, {})
    /\ busy' = (busy /\ q.op = "begin") /\ jobsBusy' = (jobsBusy /\ q.op = "create") /\ UNCHANGED <<draft, ticks>>
CaseUpdated(q) ==
    /\ q.op \in {"advance", "approve"} /\ busy' = FALSE /\ Follow(q, {})
    /\ list' = IF q.case \in There(list) THEN [list EXCEPT ![q.case] = q.got[q.case]] ELSE list
    /\ UNCHANGED <<arts, texts, draft, ticks, jobsBusy>>
Finalized(q) ==
    /\ q.op = "finalize" /\ draft' = q.got[q.case].job /\ arts' = [arts EXCEPT ![q.case] = "proposed"]
    /\ busy' = FALSE /\ Follow(q, {}) /\ UNCHANGED <<list, texts, ticks, jobsBusy>>
Reviewed(q) ==
    /\ q.op = "review" /\ arts' = [arts EXCEPT ![q.case] = q.got[q.case].doc] /\ reviewed' = reviewed \ {q.case}
    /\ busy' = FALSE /\ Follow(q, {}) /\ UNCHANGED <<list, texts, draft, exported, jobsBusy>>
Exported(q) ==
    /\ q.op = "export" /\ exported' = exported \ {q.case} /\ busy' = FALSE
    /\ Follow(q, {Ask("list", None), Ask("docs", q.case)}) /\ UNCHANGED <<list, arts, texts, draft, reviewed, jobsBusy>>
Deleted(q) ==
    /\ q.op = "delete" /\ list' = [list EXCEPT ![q.case] = Unknown] /\ sel' = IF sel = q.case THEN None ELSE sel
    /\ busy' = FALSE /\ Follow(q, {}) /\ UNCHANGED <<arts, editor, drafts, draft, ticks, jobsBusy>>

Handles(q) ==
    \/ IsRefused(q)
    \/ /\ q.is = "answered" /\ UNCHANGED <<cases, match>>
       /\ \/ ListAnswered(q) \/ DocsAnswered(q) \/ DraftAnswered(q) \/ CaseCreated(q) \/ CaseUpdated(q)
          \/ Finalized(q) \/ Reviewed(q) \/ Exported(q) \/ Deleted(q)

Next ==
    /\ UNCHANGED work
    /\ \/ \E q \in net : Serve(q) \/ Handles(q)
       \/ Requests \/ Types \/ Ticks
       \/ \E c \in Cases : SelectApplicationCase(c)
       \/ \E j \in Jobs : ChooseMatch(j)

Spec == Init /\ [][Next]_vars

-----------------------------------------------------------------------------
(* Properties *)

\* A text that stands in the editor of a case, or is sent to be finalised for it, was written for
\* that case or is the draft of its job, whichever cases were opened, created, deleted or listed in between and in whatever
\* order their answers came.
TextStaysWithCase ==
    /\ sel \in There(cases) => editor \subseteq {sel, cases[sel].job}
    /\ \A q \in net : q.op = "finalize" /\ q.case \in There(cases) => q.text \subseteq {q.case, cases[q.case].job}

=============================================================================
