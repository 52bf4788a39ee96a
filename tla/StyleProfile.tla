---------------------------- MODULE StyleProfile ----------------------------
(***************************************************************************)
(* The style profile of the applications: a YAML file the user may also    *)
(* edit by hand, beside it a small file with a revision and the hash of    *)
(* the text it belongs to (services/style-profile.ts), and the page of the *)
(* web client that edits it (src/web/src/app/app.ts).                      *)
(*                                                                         *)
(* A save is bound to the revision and the hash the page was loaded with.  *)
(* The skill validates the new text while the old one is still in place;   *)
(* then two files are renamed one after the other, and the server may stop *)
(* between them.                                                           *)
(***************************************************************************)
EXTENDS Integers, FiniteSets

CONSTANTS
    Texts,          \* profiles; a profile stands for its hash
    MaxRevision,    \* bound: revisions
    MaxRequests,    \* bound: requests in flight beyond which the user starts none
    MaxHandEdits,   \* bound: edits of the file by hand
    MaxFaults       \* bound: stops of the server and failing operations on files

VARIABLES
    file,           \* style-profile.yaml, or Missing
    meta,           \* style-profile.meta.json, or NoMeta
    net,            \* requests in flight
    view, draft,    \* applicationStyleProfile and styleProfileDraft of the client
    busy,           \* styleProfileBusy: a second request, that of a reload, also clears it
    tick,           \* styleProfileConfirmed
    seen,           \* history: the view the tick was set on
    handEdits, faults

vars == <<file, meta, net, view, draft, busy, tick, seen, handEdits, faults>>

Missing == "missing"
NoMeta == [rev |-> -1, text |-> Missing]
NoView == [rev |-> -1, text |-> Missing]

-----------------------------------------------------------------------------
(* Requests *)

Ask(op, base, text) == [op |-> op, base |-> base, text |-> text, is |-> "sent", got |-> NoView, seen |-> NoView, raced |-> FALSE]
Starts(q) == Cardinality(net) < MaxRequests /\ net' = net \cup {q}
Becomes(q, next) == net' = (net \ {q}) \cup {next}
Refuse(q) == Becomes(q, [q EXCEPT !.is = "refused", !.got = NoView])
Answer(q, got) == Becomes(q, [q EXCEPT !.is = "answered", !.got = got])
Told(q) == q.is \in {"answered", "refused"}
Failed(q) == q.is = "refused"

\* update(): one at a time.
Working(q) == q.op = "save" /\ q.is \in {"validating", "publishing", "renamed"}
Idle == \A q \in net : ~Working(q)

-----------------------------------------------------------------------------

\* The file was set up from the template, edited by hand or saved before.
Init ==
    /\ file \in {Missing} \cup Texts
    /\ meta \in {NoMeta} \cup {[rev |-> 1, text |-> t] : t \in Texts}
    /\ net = {} /\ view = NoView /\ draft = Missing /\ busy = FALSE /\ tick = FALSE /\ seen = NoView
    /\ handEdits = 0 /\ faults = 0

\* load(): the hash tells whether the revision is that of this text.
Loaded ==
    [rev |-> IF meta = NoMeta THEN 0 ELSE meta.rev + (IF meta.text = file THEN 0 ELSE 1), text |-> file]

IsEditedByHand(t) ==
    /\ handEdits < MaxHandEdits /\ handEdits' = handEdits + 1
    /\ file # Missing /\ t # file /\ file' = t
    /\ net' = {[q EXCEPT !.raced = @ \/ q.is = "publishing"] : q \in net}
    /\ UNCHANGED <<meta, view, draft, busy, tick, seen, faults>>

-----------------------------------------------------------------------------
(* The server *)

ServeSetup(q) ==
    /\ q.op = "setup" /\ q.is = "sent" /\ UNCHANGED <<file, meta, faults>>
    /\ Answer(q, [rev |-> 0, text |-> IF file = Missing THEN Missing ELSE "present"])

\* initialize(): an existing profile is not overwritten.
ServeInitialize(q) ==
    /\ q.op = "initialize" /\ q.is = "sent" /\ UNCHANGED <<meta, faults>>
    /\ file' \in IF file = Missing THEN Texts ELSE {file}
    /\ Answer(q, [rev |-> 0, text |-> "present"])

ServeStyle(q) ==
    /\ q.op = "style" /\ q.is = "sent" /\ UNCHANGED <<file, meta, faults>>
    /\ IF file = Missing THEN Refuse(q) ELSE Answer(q, Loaded)

\* The text is checked against revision and hash, written beside the file and validated.
BeginsUpdate(q) ==
    /\ q.op = "save" /\ q.is = "sent" /\ Idle /\ UNCHANGED <<file, meta, faults>>
    /\ IF file # Missing /\ Loaded = q.base /\ Loaded.rev < MaxRevision
       THEN Becomes(q, [q EXCEPT !.is = "validating"])
       ELSE Refuse(q)

\* beforePublish: the file may have changed while the skill was at work.
StillCurrent(q) == Loaded = q.base

Validates(q) ==
    /\ q.is = "validating" /\ UNCHANGED <<file, meta, faults>>
    /\ \/ StillCurrent(q) /\ Becomes(q, [q EXCEPT !.is = "publishing"])
       \/ Refuse(q)
\* applyEditable(): a draft is accepted if the parser of the file gives back every field as it
\* was sent, so that the text published is the draft.
Applied(q) == q.text
PublishesText(q) ==
    /\ q.is = "publishing" /\ UNCHANGED <<meta, faults>>
    /\ file' = Applied(q) /\ Becomes(q, [q EXCEPT !.is = "renamed"])
PublishesRevision(q) ==
    /\ q.is = "renamed" /\ UNCHANGED <<file, faults>>
    /\ meta' = [rev |-> q.base.rev + 1, text |-> q.text] /\ Answer(q, [rev |-> q.base.rev + 1, text |-> q.text])
\* A rename fails: what has been renamed stays.
FailsToPublish(q) ==
    /\ q.is \in {"publishing", "renamed"} /\ faults < MaxFaults /\ faults' = faults + 1
    /\ Refuse(q) /\ UNCHANGED <<file, meta>>

Serve(q) ==
    /\ \/ ServeSetup(q) \/ ServeInitialize(q) \/ ServeStyle(q)
       \/ BeginsUpdate(q) \/ Validates(q) \/ PublishesText(q) \/ PublishesRevision(q) \/ FailsToPublish(q)
    /\ UNCHANGED <<view, draft, busy, tick, seen, handEdits>>

Stops ==
    /\ faults < MaxFaults /\ faults' = faults + 1 /\ net # {}
    /\ net' = {[q EXCEPT !.is = "refused", !.got = NoView] : q \in net}
    /\ UNCHANGED <<file, meta, view, draft, busy, tick, seen, handEdits>>

-----------------------------------------------------------------------------
(* The client *)

Quiet == UNCHANGED <<file, meta, handEdits, faults>>
Page == <<view, draft, busy, tick, seen>>

LoadProfileSetup == Starts(Ask("setup", NoView, Missing)) /\ Quiet /\ UNCHANGED Page
InitializeApplicationProfiles == view = NoView /\ Starts(Ask("initialize", NoView, Missing)) /\ Quiet /\ UNCHANGED Page
\* Without a profile the page is emptied; with one it is loaded anew, also over an edited draft.
SetupAnswered(q) ==
    /\ q.op \in {"setup", "initialize"} /\ UNCHANGED <<tick, seen>> /\ Quiet
    /\ IF ~Failed(q) /\ q.got.text = "present"
       THEN net' = (net \ {q}) \cup {Ask("style", NoView, Missing)} /\ busy' = TRUE
       ELSE net' = net \ {q} /\ UNCHANGED busy
    /\ IF q.op = "setup" /\ ~Failed(q) /\ q.got.text = Missing THEN view' = NoView /\ draft' = Missing
       ELSE UNCHANGED <<view, draft>>

\* applyApplicationStyleProfile()
Shows(v) == view' = v /\ draft' = v.text /\ tick' = FALSE /\ seen' = NoView

LoadApplicationStyleProfile ==
    /\ ~busy /\ busy' = TRUE /\ Starts(Ask("style", NoView, Missing))
    /\ Quiet /\ UNCHANGED <<view, draft, tick, seen>>
StyleAnswered(q) ==
    /\ q.op \in {"style", "save"} /\ net' = net \ {q} /\ busy' = FALSE /\ Quiet
    /\ IF Failed(q) THEN UNCHANGED <<view, draft, tick, seen>> ELSE Shows(q.got)

EditsDraft(t) == view # NoView /\ draft' = t /\ UNCHANGED <<view, busy, tick, seen, net>> /\ Quiet
Ticks ==
    /\ view # NoView /\ tick' = ~tick /\ seen' = IF tick THEN NoView ELSE view
    /\ UNCHANGED <<view, draft, busy, net>> /\ Quiet

\* The draft is sent in the form in which the file's parser gives it back.
Normalized(d) == d
\* A draft with an empty or oversized field or a number out of range is not sent.
Valid(d) == d \in Texts
SaveApplicationStyleProfile ==
    /\ view # NoView /\ tick /\ ~busy /\ Valid(Normalized(draft)) /\ busy' = TRUE
    /\ Starts([Ask("save", view, Normalized(draft)) EXCEPT !.seen = seen])
    /\ Quiet /\ UNCHANGED <<view, draft, tick, seen>>

Handles(q) == Told(q) /\ (SetupAnswered(q) \/ StyleAnswered(q))

Next ==
    \/ \E q \in net : Serve(q) \/ Handles(q)
    \/ Stops
    \/ LoadProfileSetup \/ InitializeApplicationProfiles \/ LoadApplicationStyleProfile
    \/ Ticks \/ SaveApplicationStyleProfile
    \/ \E t \in Texts : IsEditedByHand(t) \/ EditsDraft(t)

Spec == Init /\ [][Next]_vars

-----------------------------------------------------------------------------
(* Properties *)

\* A save puts its text in the place of the one the user had before him when he ticked the
\* confirmation, and of no other: neither of what another save nor of what an edit by hand made
\* of the file since - except in the moment between the last look at the file and its rename.
SavesOverSeen ==
    [][\A q \in net : q.is = "publishing" /\ file' # file /\ (\E x \in net' : x.is = "renamed" /\ x.text = q.text) =>
         file = q.seen.text \/ q.raced]_vars

=============================================================================
