----------------------------- MODULE CvImports -----------------------------
(***************************************************************************)
(* CvImportService of src/server/src/services/cv-imports.ts over its       *)
(* repository and over the adapter that writes the candidate profile       *)
(* (adapters/submodule-cv-normalization.ts).                               *)
(*                                                                         *)
(* An import is one encrypted record.  Every call reads it, checks it,     *)
(* possibly awaits the adapter, and saves the successor if the record is   *)
(* still the one it read (revision and hash, here the record itself).      *)
(* Calls of several clients interleave at these awaits; a call may fail at *)
(* any of them, which is also what the end of the process does to it.      *)
(*                                                                         *)
(* A hash is represented by what it is a hash of.  A fact is a name: Base  *)
(* is what the deterministic recognition finds, each AI run finds one fact *)
(* of its own, Own is what the user adds.  The claim of an imported fact is*)
(* derived from the source, so two imports of one file share it.           *)
(***************************************************************************)
EXTENDS Integers, Sequences, FiniteSets

CONSTANTS
    Imports,        \* the imports that are ever made
    SourceOf,       \* the file of each import
    Runs,           \* the AI runs that offer a version
    Clients,        \* the callers
    Base, Own,      \* the fact of the file, the fact of the user
    MaxVersions,    \* MAX_RECOGNITION_VERSIONS
    MaxRevision,    \* bound: revisions of a record
    MaxAdoptions    \* bound: transactions in the ledger of the profile

VARIABLES
    store,          \* record.enc.json of each import
    profile,        \* the claims in the candidate profile
    ledger,         \* its transactions: the source and the claims
    snapshots,      \* its earlier states
    call,           \* what the handler of each client has in its hands
    confirmed       \* history: the claims a saved record has confirmed

profileVars == <<profile, ledger, snapshots>>
vars == <<store, profileVars, call, confirmed>>

Facts == {Base, Own} \cup Runs
Decisions == {"pending", "confirmed", "rejected"}
Artifact(i, F) == [source |-> SourceOf[i], facts |-> F]
Claim(i, f) == IF f = Own THEN <<i, f>> ELSE <<SourceOf[i], f>>

Version(kind, binding, facts, conflicts, artifact) ==
    [kind |-> kind, binding |-> binding, facts |-> facts,
     conflicts |-> conflicts, artifact |-> artifact]

Absent == [status |-> "absent", revision |-> 0]
Deleted == [status |-> "deleted", revision |-> 0]
Present(i) == store[i].revision > 0
Idle == [phase |-> "idle"]

Init ==
    /\ store = [i \in Imports |-> Absent]
    /\ profile = {} /\ ledger = {} /\ snapshots = {} /\ confirmed = {}
    /\ call = [c \in Clients |-> Idle]

-----------------------------------------------------------------------------
(* Records *)

Pending(facts) == \E f \in DOMAIN facts : facts[f] = "pending"
Confirmed(facts) == {f \in DOMAIN facts : facts[f] = "confirmed"}

\* The claims the script is told to take over.
ClaimsOf(i, facts) == {Claim(i, f) : f \in Confirmed(facts)}
StatusFor(facts) == IF Pending(facts) THEN "facts_pending" ELSE "facts_reviewed"
Active(r) == r.versions[r.active]

\* The facts, conflicts and artifact of the record are those of the version.
Projects(r, v) ==
    r.facts = v.facts /\ r.conflicts = v.conflicts /\ r.artifact = v.artifact

\* What validateStoredRecognitionVersion() accepts at place n.
VersionLoads(v, n) ==
    /\ (v.kind = "deterministic") = (n = 1)
    /\ (v.binding = {}) = (v.kind = "deterministic")
    /\ DOMAIN v.facts # {}
    /\ \A f \in DOMAIN v.facts : v.facts[f] \in Decisions

\* What materializeRecognitionRecord() accepts; anything else is a record that
\* can neither be read nor saved.
Loads(r) ==
    /\ Len(r.versions) \in 1 .. MaxVersions
    /\ \A n \in 1 .. Len(r.versions) : VersionLoads(r.versions[n], n)
    /\ \A m, n \in 2 .. Len(r.versions) :
        m # n => r.versions[m].binding # r.versions[n].binding
    /\ r.active \in 1 .. Len(r.versions)
    /\ Projects(r, Active(r))

\* projectRecognitionVersion()
Project(r, n) ==
    LET v == r.versions[n]
    IN  [r EXCEPT !.active = n, !.facts = v.facts,
                  !.conflicts = v.conflicts, !.artifact = v.artifact]

\* syncActiveRecognitionVersion()
Synced(r) ==
    [r EXCEPT !.versions[r.active] =
        [@ EXCEPT !.facts = r.facts, !.conflicts = r.conflicts, !.artifact = r.artifact]]

\* A changed record stands for nothing that was adopted or rendered before.
Unadopted(r) == [r EXCEPT !.adoption = {}, !.proposal = {}]

\* assertRecognitionMutable(), and the same condition in review() and adopt().
Mutable(r) == r.adoption = {} /\ r.status \notin {"adopted", "proposal_ready"}

-----------------------------------------------------------------------------
(* The checks on the artifacts that the adapter hands back *)

\* assertArtifactMerge(): nothing of the base is lost, exactly the selected
\* facts are new.
MergeAccepted(base, merged, added) ==
    /\ merged.source = base.source
    /\ added \cap base.facts = {}
    /\ merged.facts = base.facts \cup added

\* assertAiReplacementArtifact(): the artifact projects exactly the facts.
ReplacementAccepted(base, materialized, facts) ==
    materialized.source = base.source /\ materialized.facts = facts

\* What the adapter may return: an artifact of this source with any facts.
Returned(i) == {Artifact(i, F) : F \in {G \in SUBSET Facts : Own \notin G}}

-----------------------------------------------------------------------------
(* What the operations of the service make of a record they have read; the *)
(* empty set is a refusal.                                                 *)

When(guard, S) == IF guard THEN S ELSE {}

\* import(): the record of a newly extracted file.
Imported(i, conflicts) ==
    LET facts == [f \in {Base} |-> "pending"]
        v == Version("deterministic", {}, facts, conflicts, Artifact(i, {Base}))
    IN  [status |-> "facts_pending", revision |-> 1, versions |-> <<v>>, active |-> 1,
         facts |-> facts, conflicts |-> conflicts, artifact |-> v.artifact,
         adoption |-> {}, proposal |-> {}]

\* activateRecognitionVersion(): what is shown is put away first.
Activations(r) ==
    LET to(n) == Project(Synced(r), n)
    IN  When(Mutable(r),
             {Unadopted([to(n) EXCEPT !.status = StatusFor(to(n).facts)]) : n \in 1 .. Len(r.versions)})

\* confirmActiveRecognitionVersion()
Confirmations(r) ==
    When(Mutable(r) /\ ~r.conflicts,
         {Synced(Unadopted([r EXCEPT
             !.facts = [f \in DOMAIN @ |-> IF @[f] = "pending" THEN "confirmed" ELSE @[f]],
             !.status = "facts_reviewed"]))})

\* What the operations of one review may make of the facts.
Decided(facts) ==
    {g \in UNION {[D -> Decisions] : D \in {DOMAIN facts, DOMAIN facts \cup {Own}}} :
        /\ g # facts
        /\ \A f \in DOMAIN g : g[f] = "pending" => f \notin DOMAIN facts \/ facts[f] = "pending"}

\* review()
Reviews(r) ==
    When(Mutable(r),
         {Synced(Unadopted([r EXCEPT !.facts = g, !.status = StatusFor(g)])) : g \in Decided(r.facts)})

WithVersion(r, v) == Project([r EXCEPT !.versions = Append(@, v)], Len(r.versions) + 1)

Bound(r, run) == \E n \in 2 .. Len(r.versions) : r.versions[n].binding = {run}

\* A version of the run, of these facts.
Offers(r, run, returned, facts) ==
    LET with(conflicts, a) == WithVersion(r, Version("ai", {run}, facts, conflicts, a))
        accepted == {a \in returned : ReplacementAccepted(r.versions[1].artifact, a, DOMAIN facts)}
    IN  UNION {{Unadopted([with(conflicts, a) EXCEPT !.status = "facts_pending"]) :
                   a \in accepted} : conflicts \in BOOLEAN}

\* createAiRecognitionVersion(): the facts of the run replace those of the
\* file, of which it may keep some as they were found.  A run that is bound
\* already is answered without a save.
AiVersions(r, run, returned) ==
    When(Mutable(r) /\ ~Bound(r, run) /\ Len(r.versions) < MaxVersions,
         UNION {Offers(r, run, returned, [f \in F |-> "pending"]) : F \in {{run}, {run, Base}}})

\* stageAiStructure(): the facts of the run are added to those of the active
\* version, whose artifact must be the one the run was given.
Stagings(r, run, returned) ==
    LET facts == [f \in DOMAIN r.facts \cup {run} |-> IF f = run THEN "pending" ELSE r.facts[f]]
        with(a) == WithVersion(r, Version("ai", {run}, facts, r.conflicts, a))
    IN  When(/\ Mutable(r) /\ r.artifact = r.versions[1].artifact
             /\ ~Bound(r, run) /\ Len(r.versions) < MaxVersions,
             {Unadopted([with(a) EXCEPT !.status = "facts_pending"]) :
                 a \in {a \in returned : MergeAccepted(r.artifact, a, {run})}})

\* setTheme(): the theme itself is of no consequence here.
Themings(r) == {[r EXCEPT !.proposal = {}]}

\* adopt() before it calls the adapter ...
Adoptable(r) ==
    /\ Mutable(r) /\ ~r.conflicts
    /\ ~Pending(r.facts) /\ Confirmed(r.facts) # {}

\* ... and after.
Adopted(r, claims, transaction) ==
    [r EXCEPT !.status = "adopted", !.proposal = {},
              !.adoption = {[active |-> r.active, version |-> Active(r),
                             profile |-> claims, transaction |-> transaction]}]

\* revokeAdoption() and restoreProfileSnapshot() after the adapter.
Withdrawn(r) ==
    Unadopted([r EXCEPT !.status = IF @ = "facts_pending" THEN @ ELSE "facts_reviewed"])

\* renderApproved().  The pipeline's proof names the profile of the adoption,
\* whatever the profile holds by now.
Renderings(r) ==
    {[r EXCEPT !.status = "proposal_ready",
               !.proposal = {[profile |-> a.profile, version |-> Active(r)]}] :
        a \in {a \in r.adoption : /\ r.status \in {"adopted", "proposal_ready"}
                                  /\ a.active = r.active /\ a.version = Active(r)}}

-----------------------------------------------------------------------------
(* The routes: every call reads the record and compares it with the one the *)
(* client has seen                                                          *)

Reads(c, i) ==
    /\ call[c].phase = "idle" /\ Present(i)
    /\ store[i].revision < MaxRevision

ToSave(i, old, new) == [phase |-> "save", import |-> i, old |-> old, new |-> new]

Prepares(c, i, S) ==
    /\ \E new \in S : call' = [call EXCEPT ![c] = ToSave(i, store[i], new)]
    /\ UNCHANGED <<store, profileVars, confirmed>>

Awaits(c, i, what, given) ==
    /\ call' = [call EXCEPT ![c] = [phase |-> what, import |-> i, old |-> store[i], given |-> given]]
    /\ UNCHANGED <<store, profileVars, confirmed>>

Import(i) ==
    /\ store[i] = Absent
    /\ \E conflicts \in BOOLEAN : store' = [store EXCEPT ![i] = Imported(i, conflicts)]
    /\ UNCHANGED <<profileVars, call, confirmed>>

ActivateRecognitionVersion(c, i) == Reads(c, i) /\ Prepares(c, i, Activations(store[i]))

ConfirmActiveRecognitionVersion(c, i) == Reads(c, i) /\ Prepares(c, i, Confirmations(store[i]))

Review(c, i) == Reads(c, i) /\ Prepares(c, i, Reviews(store[i]))

CreateAiRecognitionVersion(c, i, run) ==
    Reads(c, i) /\ Prepares(c, i, AiVersions(store[i], run, Returned(i)))

StageAiStructure(c, i, run) ==
    Reads(c, i) /\ Prepares(c, i, Stagings(store[i], run, Returned(i)))

SetTheme(c, i) == Reads(c, i) /\ Prepares(c, i, Themings(store[i]))

\* The AI runs of the import are removed before (CvStructuring).
Delete(c, i) == Reads(c, i) /\ Prepares(c, i, {Deleted})

Adopt(c, i) == Reads(c, i) /\ Adoptable(store[i]) /\ Awaits(c, i, "adopt", {})

\* A transaction is revocable while the profile holds one of its claims.
Revocable == {t \in ledger : t.claims \cap profile # {}}

RevokeAdoption(c, i) ==
    /\ Reads(c, i)
    /\ \E t \in Revocable : t.source = SourceOf[i] /\ Awaits(c, i, "revoke", t)

RestoreProfileSnapshot(c, i) ==
    /\ Reads(c, i)
    /\ \E s \in snapshots : Awaits(c, i, "restore", s)

RenderApproved(c, i) == Reads(c, i) /\ Prepares(c, i, Renderings(store[i]))

-----------------------------------------------------------------------------
(* The adapter: one call at a time in its adoptionQueue *)

Writes(claims) ==
    /\ profile' = claims
    /\ snapshots' = IF claims = profile THEN snapshots ELSE snapshots \cup {profile}

\* The answer reaches the handler, or the script is killed after it wrote.
Answers(c, new) ==
    /\ \/ call' = [call EXCEPT ![c] = ToSave(@.import, @.old, new)]
       \/ call' = [call EXCEPT ![c] = Idle]
    /\ UNCHANGED <<store, confirmed>>

\* adoptOnce(): all claims are new, or all are there already; a part of them
\* is a collision and the call fails.
AdoptOnce(c) ==
    LET h == call[c] claims == ClaimsOf(h.import, h.old.facts)
    IN  /\ h.phase = "adopt"
        /\ \/ /\ claims \cap profile = {} /\ Cardinality(ledger) < MaxAdoptions
              /\ LET t == [id |-> Cardinality(ledger) + 1, source |-> SourceOf[h.import], claims |-> claims]
                 IN  /\ Writes(profile \cup claims)
                     /\ ledger' = ledger \cup {t}
                     /\ Answers(c, Adopted(h.old, profile \cup claims, {t}))
           \/ /\ claims \subseteq profile
              /\ UNCHANGED profileVars
              /\ Answers(c, Adopted(h.old, profile, {}))

RevokeAdoptionOnce(c) ==
    /\ call[c].phase = "revoke"
    /\ Writes(profile \ call[c].given.claims)
    /\ UNCHANGED ledger
    /\ Answers(c, Withdrawn(call[c].old))

RestoreProfileSnapshotOnce(c) ==
    /\ call[c].phase = "restore"
    /\ Writes(call[c].given)
    /\ UNCHANGED ledger
    /\ Answers(c, Withdrawn(call[c].old))

-----------------------------------------------------------------------------
(* save() *)

\* Mutant: the record is written without being compared again.
LastWriterWins(i, old) == Present(i)

\* assertCas() under the lock of the record.
Unchanged(i, old) == store[i] = old

Successor(old, new) == IF new = Deleted THEN new ELSE [new EXCEPT !.revision = old.revision + 1]

Save(c) ==
    LET h == call[c]
    IN  /\ h.phase = "save" /\ Unchanged(h.import, h.old)
        /\ h.new # Deleted => Loads(h.new)
        /\ store' = [store EXCEPT ![h.import] = Successor(h.old, h.new)]
        /\ confirmed' = confirmed \cup
               (IF h.new = Deleted THEN {}
                ELSE {Claim(h.import, f) : f \in Confirmed(h.new.facts)})
        /\ call' = [call EXCEPT ![c] = Idle]
        /\ UNCHANGED profileVars

\* The call ends with an error: the record has changed, the adapter or the
\* disk fails, or the process ends.
Fails(c) ==
    /\ call[c].phase # "idle"
    /\ call' = [call EXCEPT ![c] = Idle]
    /\ UNCHANGED <<store, profileVars, confirmed>>

RecordStep(c, i) ==
    \/ ActivateRecognitionVersion(c, i) \/ ConfirmActiveRecognitionVersion(c, i)
    \/ Review(c, i) \/ SetTheme(c, i) \/ Delete(c, i) \/ RenderApproved(c, i)
    \/ \E run \in Runs : CreateAiRecognitionVersion(c, i, run) \/ StageAiStructure(c, i, run)

ProfileStep(c) ==
    \/ \E i \in Imports : Adopt(c, i) \/ RevokeAdoption(c, i) \/ RestoreProfileSnapshot(c, i)
    \/ AdoptOnce(c) \/ RevokeAdoptionOnce(c) \/ RestoreProfileSnapshotOnce(c)

Next ==
    \/ \E i \in Imports : Import(i)
    \/ \E c \in Clients :
        (\E i \in Imports : RecordStep(c, i)) \/ ProfileStep(c) \/ Save(c) \/ Fails(c)

Spec == Init /\ [][Next]_vars

-----------------------------------------------------------------------------
(* Properties *)

\* No call ever computes a successor that materializeRecognitionRecord() would
\* refuse: every version keeps its place, its binding and its facts, and what
\* the record shows is its active version.  Every imported fact of a version is
\* in the artifact the adapter made for it.
SuccessorsLoad ==
    \A c \in Clients : call[c].phase = "save" /\ call[c].new # Deleted =>
        /\ Loads(call[c].new)
        /\ \A n \in DOMAIN call[c].new.versions :
            LET v == call[c].new.versions[n] IN DOMAIN v.facts \ {Own} = v.artifact.facts

\* An adoption stands for exactly the version the record shows, all of it
\* decided and free of conflicts; a proposal stands for an adoption; and the
\* status says so.
AdoptionStands ==
    \A i \in Imports : Present(i) =>
        LET r == store[i]
        IN  /\ (r.adoption # {}) = (r.status \in {"adopted", "proposal_ready"})
            /\ (r.status = "facts_pending") = Pending(r.facts)
            /\ \A a \in r.adoption :
                /\ a.active = r.active /\ a.version = Active(r)
                /\ ~r.conflicts /\ Confirmed(r.facts) # {}
            /\ \A p \in r.proposal : \E a \in r.adoption :
                r.status = "proposal_ready" /\ p.profile = a.profile /\ p.version = a.version

\* Only claims that a saved record has confirmed ever reach the profile.
OnlyConfirmedClaims == profile \subseteq confirmed

\* Whatever calls overlap, a record loses none of its versions, and no decision
\* of the user on a fact of a version returns to pending or disappears.
DecisionsSurvive ==
    [][\A i \in Imports : Present(i) /\ store'[i].revision > 0 /\ store'[i] # store[i] =>
        /\ Len(store'[i].versions) >= Len(store[i].versions)
        /\ \A n \in DOMAIN store[i].versions :
            LET old == store[i].versions[n] new == store'[i].versions[n]
            IN  /\ new.binding = old.binding /\ new.artifact = old.artifact
                /\ DOMAIN old.facts \subseteq DOMAIN new.facts
                /\ \A f \in DOMAIN old.facts :
                    new.facts[f] = "pending" => old.facts[f] = "pending"]_vars

=============================================================================
