-------------------------- MODULE Approvals_proofs --------------------------
(***************************************************************************)
(* What a person has approved: ApprovalLifecycle, for any number of        *)
(* requests, any lifetimes and any scopes of revokeAll(), whichever appends*)
(* fail and whenever the process ends; Applications, for any number of     *)
(* handlers, cases, documents and artifacts of agents; and StyleProfile,   *)
(* for any number of texts, requests and edits by hand.                    *)
(*                                                                         *)
(* A handler of the applications writes the whole record it has computed   *)
(* from what it read before, so the second part follows what each one      *)
(* carries: a case it may release only with a document that was approved,  *)
(* a document that is made of what it always was made of.  Only who is     *)
(* inside the artifact store writes a document of an artifact that has     *)
(* none.                                                                   *)
(***************************************************************************)
EXTENDS ApprovalLifecycle, MCDocuments, TLAPS

\* The queue shows an approval only if its token was given out by this
\* process.
Issued == \A r \in Requests : memory[r] = "approved" => r \in session

QueueInv == TypeOK /\ Issued

-----------------------------------------------------------------------------
(* The journal *)

\* What is closed in the file `before' is the same in `after'.
Final(before, after) ==
    \A r \in Requests : before[r] \in Closed => after[r] = before[r]

Journals == [Requests -> Statuses]

LEMMA WithType ==
    ASSUME NEW before \in Journals, NEW E, NEW to \in Statuses
    PROVE  With(before, E, to) \in Journals
BY DEF With, Journals

LEMMA WithFinal ==
    ASSUME NEW before \in Journals, NEW E, NEW to,
           \A r \in E \cap Requests : before[r] \notin Closed
    PROVE  Final(before, With(before, E, to))
BY DEF With, Final, Journals

LEMMA FinalTransitive ==
    ASSUME NEW a, NEW b, NEW c, Final(a, b), Final(b, c)
    PROVE  Final(a, c)
BY DEF Final

\* The file allows an event only of a request that is not closed.
LEMMA AcceptsOpen ==
    ASSUME NEW before, NEW r, NEW to, Accepts(before, r, to)
    PROVE  before[r] \notin Closed /\ to \in Statuses
BY DEF Accepts, Allowed, Closed, Open, Statuses

LEMMA RecordStep ==
    ASSUME NEW before \in Journals, NEW r \in Requests, NEW to, torn \in BOOLEAN,
           Records(before, r, to) \/ RecordThrows(before, r, to)
    PROVE  /\ durable' \in Journals
           /\ torn' \in BOOLEAN
           /\ Final(before, durable')
<1>1. CASE Records(before, r, to)
  <2>1. Accepts(before, r, to) /\ durable' = With(before, {r}, to) /\ torn' = torn
    BY <1>1 DEF Records
  <2>2. before[r] \notin Closed /\ to \in Statuses
    BY <2>1, AcceptsOpen
  <2> QED
    BY <2>1, <2>2, WithType, WithFinal
<1>2. CASE durable' = before /\ torn' \in BOOLEAN
  BY <1>2 DEF Final
<1> QED
  BY <1>1, <1>2 DEF RecordThrows

-----------------------------------------------------------------------------
(* The steps, by what they do to the file *)

\* A step that changes the file.
Writes ==
    \/ \E r \in Requests : Request(r) \/ Expire(r) \/ Approve(r) \/ Deny(r)
                              \/ Revoke(r) \/ Consume(r)
    \/ \E r, s \in Requests : Edit(r, s)
    \/ \E S \in Scopes : RevokeAll(S)
    \/ Start \/ StartFails

FileStep ==
    /\ durable' \in Journals
    /\ torn' \in BOOLEAN
    /\ Final(durable, durable')

LEMMA SingleFile ==
    ASSUME TypeOK, NEW r \in Requests,
           \/ Request(r) \/ Expire(r) \/ Approve(r) \/ Deny(r) \/ Revoke(r) \/ Consume(r)
    PROVE  FileStep
<1>1. durable \in Journals /\ torn \in BOOLEAN
  BY DEF TypeOK, Journals
<1>2. \E to \in Statuses : Records(durable, r, to) \/ RecordThrows(durable, r, to)
  BY DEF Request, Expire, Approve, Deny, Revoke, Consume, Statuses, Open, Closed
<1> QED
  BY <1>1, <1>2, RecordStep DEF FileStep

LEMMA EditFile ==
    ASSUME TypeOK, NEW r \in Requests, NEW s \in Requests, Edit(r, s)
    PROVE  FileStep
<1> DEFINE requested == With(durable, {s}, "pending")
           superseded == With(requested, {r}, "superseded")
<1>1. durable \in Journals /\ torn \in BOOLEAN /\ requested \in Journals
  BY WithType DEF TypeOK, Journals, Statuses, Open
<1>2. superseded \in Journals
  BY <1>1, WithType DEF Statuses, Closed
<1>3. durable[s] = "none" /\ r # s
  BY DEF Edit, Fresh
<1>4. Final(durable, requested)
  BY <1>1, <1>3, WithFinal DEF Closed
<1>5. ASSUME Accepts(requested, r, "superseded") PROVE Final(durable, superseded)
  <2>1. Final(requested, superseded)
    BY <1>1, <1>5, AcceptsOpen, WithFinal
  <2> QED
    BY <1>4, <2>1, FinalTransitive
<1>6. \/ RecordThrows(durable, s, "pending")
      \/ RecordThrows(requested, r, "superseded")
      \/ /\ Accepts(requested, r, "superseded")
         /\ RecordThrows(superseded, s, "approved") \/ Records(superseded, s, "approved")
  BY DEF Edit
<1> HIDE DEF requested, superseded
<1>7. CASE RecordThrows(durable, s, "pending")
  BY <1>1, <1>7, RecordStep DEF FileStep
<1>8. CASE RecordThrows(requested, r, "superseded")
  <2>1. durable' \in Journals /\ torn' \in BOOLEAN /\ Final(requested, durable')
    BY <1>1, <1>8, RecordStep
  <2> QED
    BY <1>4, <2>1, FinalTransitive DEF FileStep
<1>9. CASE /\ Accepts(requested, r, "superseded")
           /\ RecordThrows(superseded, s, "approved") \/ Records(superseded, s, "approved")
  <2>1. durable' \in Journals /\ torn' \in BOOLEAN /\ Final(superseded, durable')
    BY <1>1, <1>2, <1>9, RecordStep
  <2> QED
    BY <1>5, <1>9, <2>1, FinalTransitive DEF FileStep
<1> QED
  BY <1>6, <1>7, <1>8, <1>9

LEMMA RevokeAllFile ==
    ASSUME TypeOK, NEW S \in Scopes, RevokeAll(S)
    PROVE  FileStep
<1>1. PICK E \in SUBSET S, R \in SUBSET S :
        LET written == With(With(durable, E, "expired"), R, "revoked") IN
        /\ \A r \in E : Accepts(durable, r, "expired")
        /\ \A r \in R : Accepts(durable, r, "revoked")
        /\ E \cap R = {}
        /\ \/ durable' = written /\ torn' = torn
           \/ \E r \in S : RecordThrows(written, r, "expired")
           \/ \E r \in S : RecordThrows(written, r, "revoked")
  BY DEF RevokeAll
<1> DEFINE listed == With(durable, E, "expired")
           written == With(listed, R, "revoked")
<1>2. S \subseteq Requests
  BY ApprovalAssumption
<1>3. durable \in Journals /\ torn \in BOOLEAN /\ listed \in Journals
  BY WithType DEF TypeOK, Journals, Statuses, Closed
<1>4. written \in Journals
  BY <1>3, WithType DEF Statuses, Closed
<1>5. Final(durable, listed)
  BY <1>1, <1>3, AcceptsOpen, WithFinal
<1>6. \A r \in R : listed[r] = durable[r] /\ listed[r] \notin Closed
  BY <1>1, <1>2, AcceptsOpen DEF With
<1>7. Final(listed, written)
  BY <1>3, <1>6, WithFinal
<1>8. Final(durable, written)
  BY <1>5, <1>7, FinalTransitive
<1>9. \/ durable' = written /\ torn' = torn
      \/ \E r \in Requests, to \in {"expired", "revoked"} : RecordThrows(written, r, to)
  BY <1>1, <1>2
<1> HIDE DEF listed, written
<1>10. durable' \in Journals /\ torn' \in BOOLEAN /\ Final(written, durable')
  <2>1. CASE durable' = written /\ torn' = torn
    BY <1>3, <1>4, <2>1 DEF Final
  <2>2. CASE \E r \in Requests, to \in {"expired", "revoked"} : RecordThrows(written, r, to)
    BY <1>3, <1>4, <2>2, RecordStep
  <2> QED
    BY <1>9, <2>1, <2>2
<1> QED
  BY <1>8, <1>10, FinalTransitive DEF FileStep

LEMMA StartFile ==
    ASSUME TypeOK, Start \/ StartFails
    PROVE  FileStep
<1>1. durable \in Journals
  BY DEF TypeOK, Journals
<1>2. \A r \in StillOpen : durable[r] \notin Closed
  BY DEF StillOpen, Open, Closed
<1>3. PICK R \in SUBSET StillOpen : durable' = With(durable, R, "revoked")
  BY DEF Start, StartFails
<1>4. torn' \in BOOLEAN
  BY DEF Start, StartFails
<1>5. Final(durable, With(durable, R, "revoked"))
  BY <1>1, <1>2, WithFinal
<1> QED
  BY <1>1, <1>3, <1>4, <1>5, WithType DEF FileStep, Statuses, Closed

LEMMA FileStays ==
    ASSUME TypeOK, [Next]_vars
    PROVE  FileStep
<1>1. CASE Writes
  BY <1>1, SingleFile, EditFile, RevokeAllFile, StartFile DEF Writes
<1>2. CASE UNCHANGED <<durable, torn>>
  BY <1>2 DEF FileStep, Final, TypeOK, Journals
<1>3. Writes \/ UNCHANGED <<durable, torn>>
  BY DEF Next, Writes, Crash, Tick, vars
<1> QED
  BY <1>1, <1>2, <1>3

-----------------------------------------------------------------------------
(* The memory and the tokens *)

\* What the variables beside the file keep.
TokenType ==
    /\ revoked \subseteq tokens
    /\ consumed \subseteq tokens
    /\ tokens \subseteq Requests
    /\ session \subseteq tokens
    /\ used \subseteq tokens

MemoryType == memory \in [Requests -> Statuses]
ClockType == clock \in 0 .. MaxTime /\ expires \in [Requests -> Nat]

QueueStep == MemoryType' /\ TokenType' /\ Issued'

LEMMA ExpiryStep ==
    ASSUME TypeOK, NEW r \in Requests, NEW t \in Nat,
           expires' = [expires EXCEPT ![r] = t]
    PROVE  expires' \in [Requests -> Nat]
BY DEF TypeOK

LEMMA ClockStep ==
    ASSUME TypeOK, [Next]_vars
    PROVE  ClockType'
<1>0. clock \in Nat /\ MaxTime \in Nat /\ clock <= MaxTime
  BY ApprovalAssumption DEF TypeOK
<1>1. CASE UNCHANGED <<clock, expires>>
  BY <1>1 DEF ClockType, TypeOK
<1>2. CASE Tick
  BY <1>0, <1>2 DEF Tick, ClockType, TypeOK
<1>3. ASSUME NEW r \in Requests, Request(r) PROVE ClockType'
  <2>1. PICK ttl \in Ttls : expires' = [expires EXCEPT ![r] = clock + ttl]
    BY <1>3 DEF Request
  <2>2. clock + ttl \in Nat
    BY <1>0, ApprovalAssumption
  <2> QED
    BY <1>3, <2>1, <2>2, ExpiryStep DEF Request, ClockType, TypeOK
<1>4. ASSUME NEW r \in Requests, NEW s \in Requests, Edit(r, s) PROVE ClockType'
  <2>1. expires' = [expires EXCEPT ![s] = Later(expires[r], clock + MinTtl)]
    BY <1>4 DEF Edit
  <2>2. expires[r] \in Nat /\ clock + MinTtl \in Nat
    BY <1>0, ApprovalAssumption DEF TypeOK
  <2>3. Later(expires[r], clock + MinTtl) \in Nat
    BY <2>2 DEF Later
  <2> QED
    BY <1>4, <2>1, <2>3, ExpiryStep DEF Edit, ClockType, TypeOK
<1>5. \/ UNCHANGED <<clock, expires>>
      \/ Tick
      \/ \E r \in Requests : Request(r)
      \/ \E r, s \in Requests : Edit(r, s)
  BY DEF Next, Expire, Approve, Deny, Revoke, RevokeAll, Consume, Crash, Start,
         StartFails, vars
<1> QED
  BY <1>1, <1>2, <1>3, <1>4, <1>5

\* One request of the memory changes, and no token.
LEMMA MemoryStep ==
    ASSUME QueueInv, NEW r \in Requests, NEW to \in Statuses \ {"approved"},
           UNCHANGED memory \/ Taken(r, to), UNCHANGED tokenVars
    PROVE  QueueStep
BY DEF QueueInv, TypeOK, Issued, Taken, tokenVars, QueueStep, MemoryType, TokenType

LEMMA RequestDenyQueue ==
    ASSUME QueueInv, NEW r \in Requests, Request(r) \/ Deny(r)
    PROVE  QueueStep
<1>1. UNCHANGED tokenVars
  BY DEF Request, Deny
<1>2. \E to \in Statuses \ {"approved"} : UNCHANGED memory \/ Taken(r, to)
  BY DEF Request, Deny, Statuses, Open, Closed
<1> QED
  BY <1>1, <1>2, MemoryStep

\* Expire and revoke end a request and block its token, if there is one.
LEMMA BlockQueue ==
    ASSUME QueueInv, NEW r \in Requests, Expire(r) \/ Revoke(r)
    PROVE  QueueStep
<1>1. UNCHANGED <<consumed, tokens, session, used>>
  BY DEF Expire, Revoke
<1>2. \/ UNCHANGED <<memory, revoked>>
      \/ /\ \E to \in {"expired", "revoked"} : Taken(r, to)
         /\ revoked' = revoked \cup (IF memory[r] = "approved" THEN {r} ELSE {})
  BY DEF Expire, Revoke
<1>3. memory[r] = "approved" => r \in tokens
  BY DEF QueueInv, Issued, TypeOK
<1>4. revoked' \subseteq tokens
  BY <1>2, <1>3 DEF QueueInv, TypeOK
<1>5. MemoryType' /\ Issued'
  BY <1>1, <1>2
  DEF QueueInv, TypeOK, Issued, Taken, MemoryType, Statuses, Closed
<1> QED
  BY <1>1, <1>4, <1>5 DEF QueueInv, TypeOK, QueueStep, TokenType

LEMMA ApproveQueue ==
    ASSUME QueueInv, NEW r \in Requests, Approve(r)
    PROVE  QueueStep
<1>1. UNCHANGED <<revoked, consumed, used>>
  BY DEF Approve
<1>2. \/ UNCHANGED <<memory, tokens, session>>
      \/ /\ Taken(r, "approved")
         /\ tokens' = tokens \cup {r} /\ session' = session \cup {r}
  BY DEF Approve
<1> QED
  BY <1>1, <1>2
  DEF QueueInv, TypeOK, Issued, Taken, QueueStep, MemoryType, TokenType, Statuses, Open

LEMMA ConsumeQueue ==
    ASSUME QueueInv, NEW r \in Requests, Consume(r)
    PROVE  QueueStep
<1>1. UNCHANGED <<revoked, tokens, session>> /\ r \in tokens
  BY DEF Consume, Usable
<1>2. \/ UNCHANGED <<memory, consumed, used>>
      \/ /\ Taken(r, "consumed")
         /\ consumed' = consumed \cup {r} /\ used' = used \cup {r}
  BY DEF Consume
<1> QED
  BY <1>1, <1>2
  DEF QueueInv, TypeOK, Issued, Taken, QueueStep, MemoryType, TokenType, Statuses, Closed

LEMMA EditQueue ==
    ASSUME QueueInv, NEW r \in Requests, NEW s \in Requests, Edit(r, s)
    PROVE  QueueStep
<1>1. UNCHANGED <<revoked, consumed, used>>
  BY DEF Edit
<1>2. \/ UNCHANGED <<memory, tokens, session>>
      \/ Taken(s, "pending") /\ UNCHANGED <<tokens, session>>
      \/ /\ memory' = [memory EXCEPT ![s] = "pending", ![r] = "superseded"]
         /\ UNCHANGED <<tokens, session>>
      \/ /\ memory' = [memory EXCEPT ![s] = "approved", ![r] = "superseded"]
         /\ tokens' = tokens \cup {s} /\ session' = session \cup {s}
  BY DEF Edit
<1> QED
  BY <1>1, <1>2
  DEF QueueInv, TypeOK, Issued, Taken, QueueStep, MemoryType, TokenType, Statuses,
      Open, Closed

LEMMA RevokeAllQueue ==
    ASSUME QueueInv, NEW S \in Scopes, RevokeAll(S)
    PROVE  QueueStep
<1>1. UNCHANGED <<consumed, tokens, session, used>>
  BY DEF RevokeAll
<1>2. PICK E \in SUBSET S, R \in SUBSET S :
        /\ memory' = With(With(memory, E, "expired"), R, "revoked")
        /\ revoked' = revoked \cup {r \in E \cup R : memory[r] = "approved"}
  BY DEF RevokeAll
<1>3. S \subseteq Requests
  BY ApprovalAssumption
<1>4. revoked' \subseteq tokens
  BY <1>2, <1>3 DEF QueueInv, TypeOK, Issued
<1>5. MemoryType' /\ Issued'
  BY <1>1, <1>2
  DEF With, QueueInv, TypeOK, Issued, MemoryType, Statuses, Closed
<1> QED
  BY <1>1, <1>4, <1>5 DEF QueueInv, TypeOK, QueueStep, TokenType

LEMMA ProcessQueue ==
    ASSUME QueueInv, \/ Crash \/ Start \/ StartFails \/ Tick \/ UNCHANGED vars
    PROVE  QueueStep
<1>1. CASE Crash
  BY <1>1
  DEF Crash, QueueInv, TypeOK, Issued, QueueStep, MemoryType, TokenType, Statuses
<1>2. CASE UNCHANGED <<memory, tokenVars>>
  BY <1>2
  DEF QueueInv, TypeOK, Issued, QueueStep, MemoryType, TokenType, tokenVars
<1> QED
  BY <1>1, <1>2 DEF Start, StartFails, Tick, vars

LEMMA QueueStays ==
    ASSUME QueueInv, [Next]_vars
    PROVE  QueueInv'
<1>1. TypeOK
  BY DEF QueueInv
<1>2. QueueStep
  BY RequestDenyQueue, BlockQueue, ApproveQueue, ConsumeQueue, EditQueue,
     RevokeAllQueue, ProcessQueue
  DEF Next
<1>3. FileStep /\ ClockType'
  BY <1>1, FileStays, ClockStep
<1>4. up' \in BOOLEAN
  BY <1>1
  DEF TypeOK, Next, Request, Expire, Approve, Deny, Edit, Revoke, RevokeAll, Consume,
      Crash, Start, StartFails, Tick, vars
<1>5. MemoryType' /\ TokenType' /\ Issued'
  BY <1>2 DEF QueueStep
<1>6. durable' \in [Requests -> Statuses] /\ torn' \in BOOLEAN /\ ClockType'
  BY <1>3 DEF FileStep, Journals
<1>7. TypeOK'
  BY Zenon, <1>4, <1>5, <1>6 DEF TypeOK, ClockType, MemoryType, TokenType
<1> QED
  BY <1>5, <1>7 DEF QueueInv

LEMMA QueueInit == Init => QueueInv
<1> SUFFICES ASSUME Init PROVE QueueInv
  OBVIOUS
<1>1. clock \in 0 .. MaxTime /\ expires \in [Requests -> Nat]
  BY ApprovalAssumption DEF Init
<1>2. up \in BOOLEAN /\ torn \in BOOLEAN
  BY Zenon DEF Init
<1>3. /\ durable \in [Requests -> Statuses] /\ memory \in [Requests -> Statuses]
      /\ revoked = {} /\ consumed = {} /\ tokens = {} /\ session = {} /\ used = {}
      /\ \A r \in Requests : memory[r] # "approved"
  BY DEF Init, Statuses
<1>4. TypeOK
  BY Zenon, <1>1, <1>2, <1>3 DEF TypeOK
<1> QED
  BY <1>3, <1>4 DEF QueueInv, Issued

-----------------------------------------------------------------------------
(* Theorems *)

\* Every variable keeps its type; in particular only tokens that were given
\* out are ever revoked or consumed (security-approval.ts:166-396).
THEOREM TypeCorrect == Spec => []TypeOK
<1>1. QueueInv => TypeOK
  BY DEF QueueInv
<1> QED
  BY QueueInit, QueueStays, <1>1, PTL DEF Spec

\* No call, failing write, timeout or restart replaces a decision that is in
\* the file (approval-lifecycle-journal.ts:178-181, 234-247).
THEOREM DecisionsAreFinalHolds == Spec => DecisionsAreFinal
<1>1. QueueInv /\ [Next]_vars =>
        [\A r \in Requests : durable[r] \in Closed => durable'[r] = durable[r]]_vars
  BY FileStays DEF QueueInv, FileStep, Final
<1> QED
  BY QueueInit, QueueStays, <1>1, PTL DEF Spec, DecisionsAreFinal

\* Only consume() uses an approval.
LEMMA UseStep ==
    ASSUME QueueInv, [Next]_vars, NEW r \in used' \ used
    PROVE  /\ r \in Requests
           /\ r \in session /\ durable[r] = "approved" /\ clock < expires[r]
           /\ durable'[r] = "consumed"
<1>1. PICK q \in Requests : Consume(q)
  BY Zenon
  DEF Next, Request, Expire, Approve, Deny, Edit, Revoke, RevokeAll, Crash, Start,
      StartFails, Tick, vars, tokenVars
<1>2. r = q /\ Records(durable, q, "consumed") /\ Usable(q)
  BY <1>1 DEF Consume
<1>3. durable[r] = "approved"
  BY <1>2 DEF Records, Accepts, Allowed
<1>4. durable'[r] = "consumed"
  BY <1>1, <1>2 DEF Records, With
<1>5. r \in session
  BY <1>1, <1>2 DEF Usable, QueueInv, Issued
<1>6. clock < expires[r]
  BY <1>1, <1>2 DEF Usable, QueueInv, TypeOK
<1> QED
  BY <1>1, <1>2, <1>3, <1>4, <1>5, <1>6

\* An approval is used only by the process that gave it out, while it stands
\* in the file and has not expired (security-approval.ts:349-379).
THEOREM UseIsAuthorisedHolds == Spec => UseIsAuthorised
<1>1. QueueInv /\ [Next]_vars =>
        [\A r \in used' \ used :
            /\ r \in session
            /\ durable[r] = "approved"
            /\ clock < expires[r]]_vars
  BY UseStep
<1> QED
  BY QueueInit, QueueStays, <1>1, PTL DEF Spec, UseIsAuthorised

\* What was done in the name of an approval is in the file, once for all
\* processes (security-approval.ts:364-366).
THEOREM UsedIsJournaledHolds == Spec => []UsedIsJournaled
<1>1. Init => UsedIsJournaled
  BY DEF Init, UsedIsJournaled
<1>2. QueueInv /\ UsedIsJournaled /\ [Next]_vars => UsedIsJournaled'
  <2> SUFFICES ASSUME QueueInv, UsedIsJournaled, [Next]_vars, NEW r \in used'
               PROVE  durable'[r] = "consumed"
    BY DEF UsedIsJournaled
  <2>1. CASE r \notin used
    BY <2>1, UseStep
  <2>2. CASE r \in used
    <3>1. r \in Requests /\ durable[r] \in Closed
      BY <2>2 DEF UsedIsJournaled, QueueInv, TypeOK, Closed
    <3>2. durable'[r] = durable[r]
      BY <3>1, FileStays DEF QueueInv, FileStep, Final
    <3> QED
      BY <2>2, <3>2 DEF UsedIsJournaled
  <2> QED
    BY <2>1, <2>2
<1> QED
  BY QueueInit, QueueStays, <1>1, <1>2, PTL DEF Spec

-----------------------------------------------------------------------------
(* Application cases and their documents *)

Sources == Artifacts \cup {NoArtifact}
Case == [state : States, revision : Int, mode : {"real", "incognito"},
         binding : Documents \cup {NoDocument}]
Document == [life : {"proposed", "approved", "rejected", "used"}, case : Cases,
             verified : BOOLEAN, source : Sources]
Bound == [life : {"approved", "used"}, case : Cases, revision : Int, mode : {"real", "incognito"}]

\* A case may be released only with a document that was approved.
Sound(a, approved) ==
    a \in Case /\ (a.state \in Released => a.mode = "real" /\ a.binding \in approved)

\* What a handler carries from one step to the next.
Saves(r, approved) == r.at = "save" => Sound(r.to, approved)
Reads(r, approved) ==
    r.at \in {"approve", "rendered"} =>
        /\ Sound(r.read, approved) /\ r.read.mode = "real"
        /\ r.document \in Documents
        /\ r.at = "rendered" => r.read.state = "approved"
Held(r) == r.artifact \in Artifacts /\ artifacts[r.artifact] \in Bound
Stores(r, approved) ==
    r.at = "document" =>
        /\ r.document \in Documents /\ r.content \in Document
        /\ r.next.at \in {"idle", "save", "adopted"} /\ Saves(r.next, approved)
        /\ r.next.at = "adopted" => r.next.artifact = r.content.source /\ Held(r.next)
Carries(r, approved) ==
    /\ Saves(r, approved) /\ Reads(r, approved) /\ Stores(r, approved)
    /\ r.at \in {"adopt", "adopted"} => Held(r)

StoredOK ==
    /\ cases \in [Cases -> {NeverCase, GoneCase} \cup Case]
    /\ documents \in [Documents -> {NeverDocument} \cup [life : {"gone"}, source : Sources] \cup Document]
    /\ unlogged = [c \in Cases |-> unlogged[c]]
    /\ artifacts \in [Artifacts -> {[life |-> "none"]} \cup Bound]
    /\ call = [q \in Callers |-> call[q]]
    /\ \A d \in Documents : documents[d].life = "approved" => d \in approvedOnce
    /\ \A q \in Callers : Carries(call[q], approvedOnce)

OnRecord(d) == documents[d] # NeverDocument
Became(a) == \E d \in Documents : OnRecord(d) /\ documents[d].source = a

\* A write that is on its way keeps what its document was made of.
Keeps(r) ==
    r.at = "document" =>
        /\ OnRecord(r.document) => documents[r.document].source = r.content.source
        /\ ~OnRecord(r.document) => (r.content.source \in Artifacts => r.next.at = "adopted")
        /\ r.next.at = "adopted" =>
              ~OnRecord(r.document) /\ r.content.source \in Artifacts /\ MadeOf(r.content.source) \subseteq restored
WritesKeep ==
    /\ \A q \in Callers : Keeps(call[q])
    /\ \A q \in Callers : At(q, "adopted") => Became(call[q].artifact)
    /\ \A p, q \in Callers :
          At(p, "document") /\ At(q, "document") /\ call[p].document = call[q].document /\ p # q
          => OnRecord(call[p].document)

InStore(r) == r.at \in {"adopt", "adopted"} \/ (r.at = "document" /\ r.next.at = "adopted")
OneAdopts == \A q \in Callers : InStore(call[q]) => storing = q

DocumentsInv ==
    StoredOK /\ WritesKeep /\ OneAdopts /\ DocumentsAreTrue

-----------------------------------------------------------------------------
LEMMA CarriesMore ==
    ASSUME NEW r, NEW A, NEW B, A \subseteq B, Carries(r, A)
    PROVE  Carries(r, B)
BY DEF Carries, Saves, Reads, Stores, Sound

\* The record of a handler that carries nothing.
LEMMA IdleCarries ==
    ASSUME NEW r, r.at \in {"idle", "erase", "log"}
    PROVE  Carries(r, approvedOnce) /\ Keeps(r) /\ ~InStore(r)
BY DEF Carries, Saves, Reads, Stores, Keeps, InStore

NewCall(q, r) ==
    /\ Carries(r, approvedOnce) /\ Keeps(r)
    /\ r.at = "adopted" => Became(r.artifact)
    /\ r.at = "document" =>
          \A p \in Callers \ {q} :
              At(p, "document") /\ call[p].document = r.document => OnRecord(r.document)
NewHolder(q, r) ==
    /\ InStore(r) => storing' = q
    /\ \A p \in Callers \ {q} : InStore(call[p]) => storing' = p

LEMMA CallStep ==
    ASSUME DocumentsInv, NEW q \in Callers, NEW r, Goes(q, r), ~At(q, "log"),
           UNCHANGED <<workspace, artifacts, approvedOnce, restored>>,
           NewCall(q, r), NewHolder(q, r)
    PROVE  DocumentsInv'
<1> USE DEF workspace
<1>1. call' = [p \in Callers |-> call'[p]] /\ call'[q] = r
      /\ \A p \in Callers \ {q} : call'[p] = call[p]
  BY DEF Goes, DocumentsInv, StoredOK
<1>2. StoredOK'
  <2>1. \A p \in Callers : Carries(call[p], approvedOnce)'
    <3> TAKE p \in Callers
    <3>1. Carries(call'[p], approvedOnce)
      BY <1>1 DEF NewCall, DocumentsInv, StoredOK
    <3> QED
      BY <3>1 DEF Carries, Saves, Reads, Stores, Held
  <2> QED
    BY <1>1, <2>1 DEF DocumentsInv, StoredOK
<1>3. WritesKeep'
  <2>1. \A p \in Callers : Keeps(call'[p]) /\ (call'[p].at = "adopted" => Became(call'[p].artifact))
    BY <1>1 DEF NewCall, DocumentsInv, WritesKeep, At
  <2>2. \A p \in Callers : Keeps(call[p])' /\ (At(p, "adopted") => Became(call[p].artifact))'
    BY <2>1 DEF Keeps, Became, OnRecord, MadeOf, At
  <2>3. \A p, s \in Callers :
            call'[p].at = "document" /\ call'[s].at = "document"
            /\ call'[p].document = call'[s].document /\ p # s
            => OnRecord(call'[p].document)
    BY <1>1 DEF NewCall, DocumentsInv, WritesKeep, At
  <2> QED
    BY <2>2, <2>3 DEF WritesKeep, At, OnRecord
<1>4. OneAdopts'
  <2>1. \A p \in Callers : InStore(call'[p]) => storing' = p
    BY <1>1 DEF NewHolder
  <2> QED
    BY <2>1 DEF OneAdopts, InStore
<1>5. DocumentsAreTrue'
  <2>1. OnlyApprovedLeaves' /\ AdoptedOnce'
    BY DEF DocumentsInv, DocumentsAreTrue, OnlyApprovedLeaves, AdoptedOnce, MadeOf
  <2>2. HistoryNamesState'
    <3> SUFFICES ASSUME NEW c \in Cases, cases[c].state \in unlogged[c]
                 PROVE  \E p \in Callers : call'[p].at = "log" /\ call'[p].case = c
                                           /\ call'[p].to.state = cases[c].state
      BY DEF HistoryNamesState, At
    <3>1. PICK p \in Callers : At(p, "log") /\ call[p].case = c /\ call[p].to.state = cases[c].state
      BY DEF DocumentsInv, DocumentsAreTrue, HistoryNamesState
    <3> QED
      BY <3>1, <1>1 DEF At
  <2> QED
    BY <2>1, <2>2 DEF DocumentsAreTrue
<1> QED
  BY <1>2, <1>3, <1>4, <1>5 DEF DocumentsInv

\* Handlers end early.
LEMMA EndsStep ==
    ASSUME DocumentsInv, NEW qs, EndsAll(qs),
           UNCHANGED <<cases, documents, artifacts, approvedOnce, restored>>
    PROVE  DocumentsInv'
<1>1. call' = [p \in Callers |-> call'[p]]
      /\ \A p \in Callers : call'[p] = IF p \in qs THEN [at |-> "idle"] ELSE call[p]
  BY DEF EndsAll
<1>2. StoredOK'
  <2>1. \A p \in Callers : Carries(call[p], approvedOnce)'
    <3> TAKE p \in Callers
    <3>1. Carries(call'[p], approvedOnce)
      BY <1>1, IdleCarries DEF DocumentsInv, StoredOK
    <3> QED
      BY <3>1 DEF Carries, Saves, Reads, Stores, Held
  <2> QED
    BY <1>1, <2>1 DEF DocumentsInv, StoredOK, EndsAll
<1>3. WritesKeep'
  <2>1. \A p \in Callers : Keeps(call'[p]) /\ (call'[p].at = "adopted" => Became(call'[p].artifact))
    BY <1>1, IdleCarries DEF DocumentsInv, WritesKeep, At
  <2>2. \A p \in Callers : Keeps(call[p])' /\ (At(p, "adopted") => Became(call[p].artifact))'
    BY <2>1 DEF Keeps, Became, OnRecord, MadeOf, At
  <2>3. \A p, s \in Callers :
            call'[p].at = "document" /\ call'[s].at = "document"
            /\ call'[p].document = call'[s].document /\ p # s
            => OnRecord(call'[p].document)
    BY <1>1 DEF DocumentsInv, WritesKeep, At
  <2> QED
    BY <2>2, <2>3 DEF WritesKeep, At, OnRecord
<1>4. OneAdopts'
  <2>1. \A p \in Callers : InStore(call'[p]) => storing' = p
    BY <1>1, IdleCarries DEF DocumentsInv, OneAdopts, EndsAll
  <2> QED
    BY <2>1 DEF OneAdopts, InStore
<1>5. DocumentsAreTrue'
  <2>1. OnlyApprovedLeaves' /\ AdoptedOnce'
    BY DEF DocumentsInv, DocumentsAreTrue, OnlyApprovedLeaves, AdoptedOnce, MadeOf
  <2>2. HistoryNamesState'
    <3> SUFFICES ASSUME NEW c \in Cases, cases[c].state \in unlogged'[c]
                 PROVE  \E p \in Callers : call'[p].at = "log" /\ call'[p].case = c
                                           /\ call'[p].to.state = cases[c].state
      BY DEF HistoryNamesState, At
    <3>1. PICK p \in Callers : At(p, "log") /\ call[p].case = c /\ call[p].to.state = cases[c].state
      BY DEF DocumentsInv, DocumentsAreTrue, HistoryNamesState, EndsAll
    <3>2. p \notin qs
      BY <3>1 DEF EndsAll
    <3> QED
      BY <3>1, <3>2, <1>1 DEF At
  <2> QED
    BY <2>1, <2>2 DEF DocumentsAreTrue
<1> QED
  BY <1>2, <1>3, <1>4, <1>5 DEF DocumentsInv

LEMMA QuietStep ==
    ASSUME DocumentsInv,
           UNCHANGED <<workspace, store, call, approvedOnce, restored>>
    PROVE  DocumentsInv'
<1> USE DEF workspace, store
<1>1. StoredOK'
  <2>1. \A p \in Callers : Carries(call[p], approvedOnce)'
    BY DEF DocumentsInv, StoredOK, Carries, Saves, Reads, Stores, Held
  <2> QED
    BY <2>1 DEF DocumentsInv, StoredOK
<1>2. WritesKeep'
  BY DEF DocumentsInv, WritesKeep, Keeps, Became, OnRecord, MadeOf, At
<1>3. OneAdopts' /\ OnlyApprovedLeaves' /\ AdoptedOnce'
  BY DEF DocumentsInv, DocumentsAreTrue, OneAdopts, InStore, OnlyApprovedLeaves, AdoptedOnce, MadeOf
<1>4. HistoryNamesState'
  BY DEF DocumentsInv, DocumentsAreTrue, HistoryNamesState, At
<1> QED
  BY <1>1, <1>2, <1>3, <1>4 DEF DocumentsInv, DocumentsAreTrue

-----------------------------------------------------------------------------
(* The writes of workspace.json *)

LEMMA SavesCaseStep ==
    ASSUME DocumentsInv, NEW q \in Callers, SavesCase(q)
    PROVE  DocumentsInv'
<1> DEFINE c == call[q].case
           to == call[q].to
<1>1. /\ At(q, "save") /\ Sound(to, approvedOnce)
      /\ cases' = [cases EXCEPT ![c] = to]
      /\ unlogged' = [unlogged EXCEPT ![c] = @ \cup {to.state}]
      /\ UNCHANGED <<documents, artifacts, storing, approvedOnce, restored>>
  BY DEF SavesCase, DocumentsInv, StoredOK, Carries, Saves, At, store, past
<1>2. PICK r : r = EventOf(c, to)
  OBVIOUS
<1>3. r.at = "log" /\ r.case = c /\ r.to.state = to.state
  BY <1>2 DEF EventOf
<1>4. call' = [p \in Callers |-> call'[p]] /\ call'[q] = r
      /\ \A p \in Callers \ {q} : call'[p] = call[p]
  BY <1>2 DEF SavesCase, Goes, DocumentsInv, StoredOK
<1>5. StoredOK'
  <2>1. \A p \in Callers : Carries(call[p], approvedOnce)'
    <3> TAKE p \in Callers
    <3>1. Carries(call'[p], approvedOnce)
      BY <1>3, <1>4, IdleCarries DEF DocumentsInv, StoredOK
    <3> QED
      BY <3>1, <1>1 DEF Carries, Saves, Reads, Stores, Held
  <2>2. cases' \in [Cases -> {NeverCase, GoneCase} \cup Case] /\ unlogged' = [k \in Cases |-> unlogged'[k]]
    BY <1>1 DEF Sound, DocumentsInv, StoredOK
  <2> QED
    BY <1>1, <1>4, <2>1, <2>2 DEF DocumentsInv, StoredOK
<1>6. WritesKeep'
  <2>1. \A p \in Callers : Keeps(call'[p]) /\ (call'[p].at = "adopted" => Became(call'[p].artifact))
    BY <1>3, <1>4, IdleCarries DEF DocumentsInv, WritesKeep, At
  <2>2. \A p \in Callers : Keeps(call[p])' /\ (At(p, "adopted") => Became(call[p].artifact))'
    BY <2>1, <1>1 DEF Keeps, Became, OnRecord, MadeOf, At
  <2>3. \A p, s \in Callers :
            call'[p].at = "document" /\ call'[s].at = "document"
            /\ call'[p].document = call'[s].document /\ p # s
            => OnRecord(call'[p].document)
    BY <1>3, <1>4 DEF DocumentsInv, WritesKeep, At
  <2> QED
    BY <2>2, <2>3, <1>1 DEF WritesKeep, At, OnRecord
<1>7. OneAdopts'
  <2>1. \A p \in Callers : InStore(call'[p]) => storing' = p
    BY <1>1, <1>3, <1>4, IdleCarries DEF DocumentsInv, OneAdopts
  <2> QED
    BY <2>1 DEF OneAdopts, InStore
<1>8. OnlyApprovedLeaves' /\ AdoptedOnce'
  <2>1. OnlyApprovedLeaves'
    BY <1>1 DEF DocumentsInv, DocumentsAreTrue, OnlyApprovedLeaves, Sound, StoredOK
  <2> QED
    BY <1>1, <2>1 DEF DocumentsInv, DocumentsAreTrue, AdoptedOnce, MadeOf
<1>9. HistoryNamesState'
  <2> SUFFICES ASSUME NEW k \in Cases, cases'[k].state \in unlogged'[k]
               PROVE  \E p \in Callers : call'[p].at = "log" /\ call'[p].case = k
                                         /\ call'[p].to.state = cases'[k].state
    BY DEF HistoryNamesState, At
  <2>1. CASE k = c
    BY <2>1, <1>1, <1>3, <1>4 DEF DocumentsInv, StoredOK
  <2>2. CASE k # c
    <3>1. cases'[k] = cases[k] /\ unlogged'[k] = unlogged[k]
      BY <2>2, <1>1 DEF DocumentsInv, StoredOK
    <3>2. PICK p \in Callers : At(p, "log") /\ call[p].case = k /\ call[p].to.state = cases[k].state
      BY <3>1 DEF DocumentsInv, DocumentsAreTrue, HistoryNamesState
    <3>3. p # q
      BY <3>2, <1>1 DEF At
    <3> QED
      BY <3>1, <3>2, <3>3, <1>4 DEF At
  <2> QED
    BY <2>1, <2>2
<1> QED
  BY <1>5, <1>6, <1>7, <1>8, <1>9 DEF DocumentsInv, DocumentsAreTrue

LEMMA LogsEventStep ==
    ASSUME DocumentsInv, NEW q \in Callers, LogsEvent(q)
    PROVE  DocumentsInv'
<1> DEFINE c == call[q].case
           to == call[q].to
<1>1. /\ At(q, "log")
      /\ unlogged' = [unlogged EXCEPT ![c] = Logs(c, to)]
      /\ UNCHANGED <<cases, documents, artifacts, storing, approvedOnce, restored>>
  BY DEF LogsEvent, store, past
<1>2. PICK r : r = [at |-> "idle"]
  OBVIOUS
<1>4. call' = [p \in Callers |-> call'[p]] /\ call'[q] = r
      /\ \A p \in Callers \ {q} : call'[p] = call[p]
  BY <1>2 DEF LogsEvent, Finishes, Goes, DocumentsInv, StoredOK
<1>5. StoredOK'
  <2>1. \A p \in Callers : Carries(call[p], approvedOnce)'
    <3> TAKE p \in Callers
    <3>1. Carries(call'[p], approvedOnce)
      BY <1>2, <1>4, IdleCarries DEF DocumentsInv, StoredOK
    <3> QED
      BY <3>1, <1>1 DEF Carries, Saves, Reads, Stores, Held
  <2>2. unlogged' = [k \in Cases |-> unlogged'[k]]
    BY <1>1 DEF DocumentsInv, StoredOK
  <2> QED
    BY <1>1, <1>4, <2>1, <2>2 DEF DocumentsInv, StoredOK
<1>6. WritesKeep'
  <2>1. \A p \in Callers : Keeps(call'[p]) /\ (call'[p].at = "adopted" => Became(call'[p].artifact))
    BY <1>2, <1>4, IdleCarries DEF DocumentsInv, WritesKeep, At
  <2>2. \A p \in Callers : Keeps(call[p])' /\ (At(p, "adopted") => Became(call[p].artifact))'
    BY <2>1, <1>1 DEF Keeps, Became, OnRecord, MadeOf, At
  <2>3. \A p, s \in Callers :
            call'[p].at = "document" /\ call'[s].at = "document"
            /\ call'[p].document = call'[s].document /\ p # s
            => OnRecord(call'[p].document)
    BY <1>2, <1>4 DEF DocumentsInv, WritesKeep, At
  <2> QED
    BY <2>2, <2>3, <1>1 DEF WritesKeep, At, OnRecord
<1>7. OneAdopts'
  <2>1. \A p \in Callers : InStore(call'[p]) => storing' = p
    BY <1>1, <1>2, <1>4, IdleCarries DEF DocumentsInv, OneAdopts
  <2> QED
    BY <2>1 DEF OneAdopts, InStore
<1>8. OnlyApprovedLeaves' /\ AdoptedOnce'
  BY <1>1 DEF DocumentsInv, DocumentsAreTrue, OnlyApprovedLeaves, AdoptedOnce, MadeOf
<1>9. HistoryNamesState'
  <2> SUFFICES ASSUME NEW k \in Cases, cases[k].state \in unlogged'[k]
               PROVE  \E p \in Callers : call'[p].at = "log" /\ call'[p].case = k
                                         /\ call'[p].to.state = cases[k].state
    BY <1>1 DEF HistoryNamesState, At
  <2>1. cases[k].state \in unlogged[k] /\ (k = c => cases[k].state # to.state)
    BY <1>1 DEF Logs, DocumentsInv, StoredOK
  <2>2. PICK p \in Callers : At(p, "log") /\ call[p].case = k /\ call[p].to.state = cases[k].state
    BY <2>1 DEF DocumentsInv, DocumentsAreTrue, HistoryNamesState
  <2>3. p # q
    BY <2>1, <2>2
  <2> QED
    BY <2>2, <2>3, <1>4 DEF At
<1> QED
  BY <1>5, <1>6, <1>7, <1>8, <1>9 DEF DocumentsInv, DocumentsAreTrue

LEMMA ErasesStep ==
    ASSUME DocumentsInv, NEW q \in Callers, Erases(q)
    PROVE  DocumentsInv'
<1>1. PICK cs, keep :
        /\ \A c \in Cases : cases'[c] = IF c \in cs /\ Exists(c) THEN GoneCase ELSE cases[c]
        /\ \A c \in Cases : unlogged'[c] = IF c \in cs THEN {} ELSE unlogged[c]
        /\ cases' = [c \in Cases |-> cases'[c]] /\ unlogged' = [c \in Cases |-> unlogged'[c]]
        /\ documents' = [d \in Documents |->
               IF documents[d].life \notin {"never", "gone"} /\ documents[d].case \in cs
                  /\ (keep => documents[d].life # "used")
               THEN GoneDocument(documents[d].source) ELSE documents[d]]
  <2>1. \E cs, keep : Removed(cs, keep)
    BY DEF Erases
  <2> QED
    BY <2>1 DEF Removed
<1>2. At(q, "erase") /\ UNCHANGED <<artifacts, storing, approvedOnce, restored>>
  BY DEF Erases, store, past
<1>3. PICK r : r = [at |-> "idle"]
  OBVIOUS
<1>4. call' = [p \in Callers |-> call'[p]] /\ call'[q] = r
      /\ \A p \in Callers \ {q} : call'[p] = call[p]
  BY <1>3 DEF Erases, Finishes, Goes, DocumentsInv, StoredOK
<1>5. \A d \in Documents :
        \/ documents'[d] = documents[d]
        \/ /\ documents[d] \in Document
           /\ documents'[d] = [life |-> "gone", source |-> documents[d].source]
  BY <1>1 DEF GoneDocument, DocumentsInv, StoredOK, NeverDocument
<1>6. \A d \in Documents :
        /\ OnRecord(d)' = OnRecord(d) /\ documents'[d] \in {NeverDocument} \cup [life : {"gone"}, source : Sources] \cup Document
        /\ OnRecord(d) => documents'[d].source = documents[d].source
        /\ documents'[d].life \notin {"never", "gone"} => documents'[d] = documents[d]
  <2> TAKE d \in Documents
  <2>1. CASE documents'[d] = documents[d]
    BY <2>1 DEF DocumentsInv, StoredOK, OnRecord
  <2>2. CASE documents[d] \in Document /\ documents'[d] = [life |-> "gone", source |-> documents[d].source]
    <3>1. documents'[d].life = "gone" /\ documents'[d].source = documents[d].source
          /\ documents[d].source \in Sources /\ documents[d].life # "never"
      BY <2>2 DEF Document
    <3>2. documents'[d] \in [life : {"gone"}, source : Sources]
      BY <2>2, <3>1
    <3>3. documents'[d] # NeverDocument /\ documents[d] # NeverDocument
      BY <3>1 DEF NeverDocument
    <3> QED
      BY <3>1, <3>2, <3>3 DEF OnRecord
  <2> QED
    BY <1>5, <2>1, <2>2
<1>7. \A a \in Artifacts : MadeOf(a)' \subseteq MadeOf(a) /\ (Became(a) => Became(a)')
  BY <1>6 DEF MadeOf, Became, OnRecord
<1>8. StoredOK'
  <2>1. \A p \in Callers : Carries(call[p], approvedOnce)'
    <3> TAKE p \in Callers
    <3>1. Carries(call'[p], approvedOnce)
      BY <1>3, <1>4, IdleCarries DEF DocumentsInv, StoredOK
    <3> QED
      BY <3>1, <1>2 DEF Carries, Saves, Reads, Stores, Held
  <2>2. cases' \in [Cases -> {NeverCase, GoneCase} \cup Case]
    BY <1>1 DEF DocumentsInv, StoredOK
  <2>3. documents' \in [Documents -> {NeverDocument} \cup [life : {"gone"}, source : Sources] \cup Document]
    BY <1>1, <1>6
  <2>4. \A d \in Documents : documents'[d].life = "approved" => d \in approvedOnce
    BY <1>6 DEF DocumentsInv, StoredOK
  <2> QED
    BY <1>1, <1>2, <1>4, <2>1, <2>2, <2>3, <2>4 DEF DocumentsInv, StoredOK
<1>9. WritesKeep'
  <2>1. \A p \in Callers : Keeps(call'[p]) /\ (call'[p].at = "adopted" => Became(call'[p].artifact))
    BY <1>3, <1>4, IdleCarries DEF DocumentsInv, WritesKeep, At
  <2>2. \A p \in Callers : Carries(call'[p], approvedOnce)
    BY <1>3, <1>4, IdleCarries DEF DocumentsInv, StoredOK
  <2>3. \A p \in Callers : Keeps(call[p])'
    BY <2>1, <2>2, <1>2, <1>6, <1>7 DEF Keeps, OnRecord, Carries, Stores
  <2>4. \A p \in Callers : (At(p, "adopted") => Became(call[p].artifact))'
    <3> SUFFICES ASSUME NEW p \in Callers, call'[p].at = "adopted"
                 PROVE  Became(call[p].artifact)'
      BY DEF At
    <3>1. PICK s : s = call'[p]
      OBVIOUS
    <3>2. s.artifact \in Artifacts /\ Became(s.artifact)
      BY <2>1, <2>2, <3>1 DEF Carries, Held
    <3>3. Became(s.artifact)'
      BY <3>2, <1>7
    <3> QED
      BY <3>1, <3>3 DEF Became
  <2>5. \A p, s \in Callers :
            call'[p].at = "document" /\ call'[s].at = "document"
            /\ call'[p].document = call'[s].document /\ p # s
            => OnRecord(call'[p].document) /\ call'[p].document \in Documents
    BY <1>3, <1>4, <2>2 DEF DocumentsInv, WritesKeep, At, Carries, Stores
  <2>6. \A p, s \in Callers :
            call'[p].at = "document" /\ call'[s].at = "document"
            /\ call'[p].document = call'[s].document /\ p # s
            => OnRecord(call[p].document)'
    BY <2>5, <1>6 DEF OnRecord
  <2> QED
    BY <2>3, <2>4, <2>6 DEF WritesKeep, At
<1>10. OneAdopts'
  <2>1. \A p \in Callers : InStore(call'[p]) => storing' = p
    BY <1>2, <1>3, <1>4, IdleCarries DEF DocumentsInv, OneAdopts
  <2> QED
    BY <2>1 DEF OneAdopts, InStore
<1>11. OnlyApprovedLeaves'
  BY <1>1, <1>2 DEF DocumentsInv, DocumentsAreTrue, OnlyApprovedLeaves, GoneCase, Released
<1>12. AdoptedOnce'
  <2> SUFFICES ASSUME NEW a \in Artifacts
               PROVE  /\ \A d, e \in MadeOf(a)' \ restored : d = e
                      /\ artifacts[a].life = "used" => Became(a)'
    BY <1>2 DEF AdoptedOnce, Became, OnRecord
  <2> QED
    BY <1>7 DEF DocumentsInv, DocumentsAreTrue, AdoptedOnce, Became, OnRecord
<1>13. HistoryNamesState'
  <2> SUFFICES ASSUME NEW k \in Cases, cases'[k].state \in unlogged'[k]
               PROVE  \E p \in Callers : call'[p].at = "log" /\ call'[p].case = k
                                         /\ call'[p].to.state = cases'[k].state
    BY DEF HistoryNamesState, At
  <2>1. cases'[k] = cases[k] /\ unlogged'[k] = unlogged[k]
    BY <1>1
  <2>2. PICK p \in Callers : At(p, "log") /\ call[p].case = k /\ call[p].to.state = cases[k].state
    BY <2>1 DEF DocumentsInv, DocumentsAreTrue, HistoryNamesState
  <2>3. p # q
    BY <2>2, <1>2 DEF At
  <2> QED
    BY <2>1, <2>2, <2>3, <1>4 DEF At
<1> QED
  BY <1>8, <1>9, <1>10, <1>11, <1>12, <1>13 DEF DocumentsInv, DocumentsAreTrue

LEMMA SavesDocumentStep ==
    ASSUME DocumentsInv, NEW q \in Callers, SavesDocument(q)
    PROVE  DocumentsInv'
<1>1. PICK d, e, next : d = call[q].document /\ e = call[q].content /\ next = call[q].next
  OBVIOUS
<1>2. /\ At(q, "document")
      /\ documents' = [documents EXCEPT ![d] = e]
      /\ approvedOnce' = approvedOnce \cup (IF e.life = "approved" THEN {d} ELSE {})
      /\ restored' = restored \cup (IF documents[d].life = "gone" THEN {d} ELSE {})
      /\ call' = [call EXCEPT ![q] = next]
      /\ UNCHANGED <<cases, unlogged, artifacts, storing>>
  BY <1>1 DEF SavesDocument, Goes, store
<1>3. /\ d \in Documents /\ e \in Document
      /\ next.at \in {"idle", "save", "adopted"} /\ Saves(next, approvedOnce)
      /\ next.at = "adopted" => next.artifact = e.source /\ Held(next)
  BY <1>1, <1>2 DEF DocumentsInv, StoredOK, Carries, Stores, At
<1>4. /\ OnRecord(d) => documents[d].source = e.source
      /\ ~OnRecord(d) /\ e.source \in Artifacts => next.at = "adopted"
      /\ next.at = "adopted" => ~OnRecord(d) /\ e.source \in Artifacts /\ MadeOf(e.source) \subseteq restored
  BY <1>1, <1>2 DEF DocumentsInv, WritesKeep, Keeps, At
<1>5. call' = [p \in Callers |-> call'[p]] /\ call'[q] = next
      /\ \A p \in Callers \ {q} : call'[p] = call[p]
  BY <1>2 DEF DocumentsInv, StoredOK
<1>6. e.life \notin {"never", "gone"} /\ e # NeverDocument
  BY <1>3 DEF Document, NeverDocument
<1>7. /\ documents'[d] = e /\ \A x \in Documents \ {d} : documents'[x] = documents[x]
      /\ documents' \in [Documents -> {NeverDocument} \cup [life : {"gone"}, source : Sources] \cup Document]
  BY <1>2, <1>3 DEF DocumentsInv, StoredOK
<1>8. \A x \in Documents : OnRecord(x) => OnRecord(x)' /\ documents'[x].source = documents[x].source
  BY <1>4, <1>6, <1>7 DEF OnRecord
<1>9. \A a : Became(a) => Became(a)'
  BY <1>8 DEF Became
<1>10. \A a \in Artifacts : \A x \in MadeOf(a)' :
         x \in MadeOf(a) \/ x \in restored' \/ (x = d /\ next.at = "adopted" /\ next.artifact = a)
  <2> TAKE a \in Artifacts
  <2> TAKE x \in MadeOf(a)'
  <2>0. x \in Documents /\ documents'[x].life \notin {"never", "gone"} /\ documents'[x].source = a
    BY DEF MadeOf
  <2>1. CASE x # d
    BY <2>0, <2>1, <1>7 DEF MadeOf
  <2>2. CASE x = d /\ ~OnRecord(d)
    BY <2>0, <2>2, <1>3, <1>4, <1>7
  <2>3. CASE x = d /\ OnRecord(d)
    <3>1. documents[d].source = a
      BY <2>0, <2>3, <1>4, <1>7
    <3>2. documents[d].life # "never"
      BY <2>3, <1>3 DEF OnRecord, DocumentsInv, StoredOK, Document, NeverDocument
    <3> QED
      BY <2>3, <3>1, <3>2, <1>2, <1>3 DEF MadeOf
  <2> QED
    BY <2>1, <2>2, <2>3
<1>11. StoredOK'
  <2>1. approvedOnce \subseteq approvedOnce' /\ \A x \in Documents : documents'[x].life = "approved" => x \in approvedOnce'
    BY <1>2, <1>7 DEF DocumentsInv, StoredOK
  <2>2. Carries(next, approvedOnce')
    <3>1. Carries(next, approvedOnce)
      BY <1>3 DEF Carries, Reads, Stores
    <3> QED
      BY <3>1, <2>1, CarriesMore
  <2>3. \A p \in Callers : Carries(call'[p], approvedOnce')
    BY <1>5, <2>1, <2>2, CarriesMore DEF DocumentsInv, StoredOK
  <2>4. \A p \in Callers : Carries(call[p], approvedOnce)'
    BY <2>3, <1>2 DEF Carries, Saves, Reads, Stores, Held
  <2> QED
    BY <1>2, <1>5, <1>7, <2>1, <2>4 DEF DocumentsInv, StoredOK
<1>12. \A p \in Callers \ {q} : At(p, "document") /\ call[p].document = d => OnRecord(d)
  BY <1>1, <1>2 DEF DocumentsInv, WritesKeep, At
<1>13. \A p \in Callers : ~(InStore(call[p]) /\ p # q /\ next.at = "adopted")
  BY <1>1, <1>2 DEF DocumentsInv, OneAdopts, InStore, At
<1>14. WritesKeep'
  <2>1. \A p \in Callers : Keeps(call[p])'
    <3> SUFFICES ASSUME NEW p \in Callers, NEW s, s = call'[p], s.at = "document"
                 PROVE  /\ OnRecord(s.document)' => documents'[s.document].source = s.content.source
                        /\ ~OnRecord(s.document)' => (s.content.source \in Artifacts => s.next.at = "adopted")
                        /\ s.next.at = "adopted" =>
                              /\ ~OnRecord(s.document)' /\ s.content.source \in Artifacts
                              /\ \A x \in MadeOf(s.content.source)' : x \in restored'
      BY DEF Keeps, OnRecord, MadeOf
    <3>1. p # q /\ s = call[p] /\ s.document \in Documents /\ Keeps(s)
      BY <1>3, <1>5 DEF DocumentsInv, StoredOK, Carries, Stores, WritesKeep
    <3>2. CASE s.document = d
      <4>1. OnRecord(d) /\ documents[d].source = s.content.source /\ s.next.at # "adopted"
        BY <3>1, <3>2, <1>12 DEF At, Keeps
      <4> QED
        BY <4>1, <3>2, <1>3, <1>8
    <3>3. CASE s.document # d
      <4>1. documents'[s.document] = documents[s.document] /\ OnRecord(s.document)' = OnRecord(s.document)
        BY <3>1, <3>3, <1>7 DEF OnRecord
      <4>2. CASE s.next.at = "adopted"
        <5>1. InStore(s) /\ next.at # "adopted"
          BY <4>2, <3>1, <1>13 DEF InStore
        <5>2. s.content.source \in Artifacts /\ MadeOf(s.content.source) \subseteq restored /\ ~OnRecord(s.document)
          BY <4>2, <3>1 DEF Keeps
        <5>3. PICK a \in Artifacts : a = s.content.source
          BY <5>2
        <5>4. \A x \in MadeOf(a)' : x \in restored'
          BY <5>1, <5>2, <5>3, <1>2, <1>10
        <5>5. MadeOf(s.content.source)' = MadeOf(a)'
          BY <5>3 DEF MadeOf
        <5> QED
          BY <4>1, <4>2, <5>2, <5>3, <5>4, <5>5
      <4> QED
        BY <4>1, <4>2, <3>1 DEF Keeps
    <3> QED
      BY <3>2, <3>3
  <2>2. \A p \in Callers : (At(p, "adopted") => Became(call[p].artifact))'
    <3> SUFFICES ASSUME NEW p \in Callers, NEW s, s = call'[p], s.at = "adopted"
                 PROVE  Became(s.artifact)'
      BY DEF At, Became
    <3>1. CASE p = q
      BY <3>1, <1>3, <1>5, <1>6, <1>7 DEF Became, OnRecord
    <3>2. CASE p # q
      BY <3>2, <1>5, <1>9 DEF DocumentsInv, WritesKeep, At
    <3> QED
      BY <3>1, <3>2
  <2>3. \A p, s \in Callers :
            call'[p].at = "document" /\ call'[s].at = "document"
            /\ call'[p].document = call'[s].document /\ p # s
            => OnRecord(call'[p].document) /\ call'[p].document \in Documents
    BY <1>3, <1>5 DEF DocumentsInv, WritesKeep, At, StoredOK, Carries, Stores
  <2>4. \A p, s \in Callers :
            call'[p].at = "document" /\ call'[s].at = "document"
            /\ call'[p].document = call'[s].document /\ p # s
            => OnRecord(call[p].document)'
    BY <2>3, <1>8 DEF OnRecord
  <2> QED
    BY <2>1, <2>2, <2>4 DEF WritesKeep, At
<1>15. OneAdopts'
  <2>1. \A p \in Callers : InStore(call'[p]) => storing' = p
    BY <1>1, <1>2, <1>3, <1>5 DEF DocumentsInv, OneAdopts, InStore, At
  <2> QED
    BY <2>1 DEF OneAdopts, InStore
<1>16. OnlyApprovedLeaves'
  BY <1>2 DEF DocumentsInv, DocumentsAreTrue, OnlyApprovedLeaves
<1>17. AdoptedOnce'
  <2> SUFFICES ASSUME NEW a \in Artifacts
               PROVE  /\ \A x, y \in MadeOf(a)' \ restored' : x = y
                      /\ artifacts[a].life = "used" => Became(a)'
    BY <1>2 DEF AdoptedOnce, Became, OnRecord
  <2>1. artifacts[a].life = "used" => Became(a)'
    BY <1>9 DEF DocumentsInv, DocumentsAreTrue, AdoptedOnce, Became, OnRecord
  <2>2. \A x, y \in MadeOf(a) \ restored : x = y
    BY DEF DocumentsInv, DocumentsAreTrue, AdoptedOnce
  <2>3. \A x \in MadeOf(a)' \ restored' :
           x \in MadeOf(a) \ restored \/ (x = d /\ next.at = "adopted" /\ e.source = a)
    BY <1>2, <1>3, <1>10
  <2>4. next.at = "adopted" /\ e.source = a => MadeOf(a) \ restored = {}
    BY <1>4
  <2> QED
    BY <2>1, <2>2, <2>3, <2>4
<1>18. HistoryNamesState'
  <2> SUFFICES ASSUME NEW k \in Cases, cases[k].state \in unlogged[k]
               PROVE  \E p \in Callers : call'[p].at = "log" /\ call'[p].case = k
                                         /\ call'[p].to.state = cases[k].state
    BY <1>2 DEF HistoryNamesState, At
  <2>2. PICK p \in Callers : At(p, "log") /\ call[p].case = k /\ call[p].to.state = cases[k].state
    BY DEF DocumentsInv, DocumentsAreTrue, HistoryNamesState
  <2>3. p # q
    BY <2>2, <1>2 DEF At
  <2> QED
    BY <2>2, <2>3, <1>5 DEF At
<1> QED
  BY <1>11, <1>14, <1>15, <1>16, <1>17, <1>18 DEF DocumentsInv, DocumentsAreTrue

-----------------------------------------------------------------------------
(* The handlers *)

LEMMA AdoptedStep ==
    ASSUME DocumentsInv, NEW q \in Callers, Adopted(q)
    PROVE  DocumentsInv'
<1>1. PICK a : a = call[q].artifact
  OBVIOUS
<1>2. /\ At(q, "adopted") /\ a \in Artifacts /\ artifacts[a] \in Bound /\ Became(a) /\ storing = q
      /\ artifacts' = [artifacts EXCEPT ![a].life = "used"] /\ storing' = Nobody
      /\ UNCHANGED <<cases, documents, unlogged, approvedOnce, restored>>
  BY <1>1 DEF Adopted, DocumentsInv, StoredOK, Carries, Held, WritesKeep, OneAdopts, InStore, At, workspace, past
<1>3. PICK r : r = [at |-> "idle"]
  OBVIOUS
<1>4. call' = [p \in Callers |-> call'[p]] /\ call'[q] = r
      /\ \A p \in Callers \ {q} : call'[p] = call[p]
  BY <1>3 DEF Adopted, Finishes, Goes, DocumentsInv, StoredOK
<1>5. /\ artifacts' \in [Artifacts -> {[life |-> "none"]} \cup Bound]
      /\ \A b \in Artifacts : b # a => artifacts'[b] = artifacts[b]
      /\ artifacts'[a] \in Bound
  <2>1. [artifacts[a] EXCEPT !.life = "used"] \in Bound
    BY <1>2 DEF Bound
  <2> QED
    BY <1>2, <2>1 DEF DocumentsInv, StoredOK
<1>6. \A b \in Artifacts : artifacts[b] \in Bound => artifacts'[b] \in Bound
  BY <1>5
<1>7. StoredOK'
  <2>1. \A p \in Callers : Carries(call[p], approvedOnce)'
    <3> TAKE p \in Callers
    <3>1. Carries(call'[p], approvedOnce)
      BY <1>3, <1>4, IdleCarries DEF DocumentsInv, StoredOK
    <3> QED
      BY <3>1, <1>2, <1>6 DEF Carries, Saves, Reads, Stores, Held
  <2> QED
    BY <1>2, <1>4, <1>5, <2>1 DEF DocumentsInv, StoredOK
<1>8. WritesKeep'
  <2>1. \A p \in Callers : Keeps(call'[p]) /\ (call'[p].at = "adopted" => Became(call'[p].artifact))
    BY <1>3, <1>4, IdleCarries DEF DocumentsInv, WritesKeep, At
  <2>2. \A p \in Callers : Keeps(call[p])' /\ (At(p, "adopted") => Became(call[p].artifact))'
    BY <2>1, <1>2 DEF Keeps, Became, OnRecord, MadeOf, At
  <2>3. \A p, s \in Callers :
            call'[p].at = "document" /\ call'[s].at = "document"
            /\ call'[p].document = call'[s].document /\ p # s
            => OnRecord(call'[p].document)
    BY <1>3, <1>4 DEF DocumentsInv, WritesKeep, At
  <2> QED
    BY <2>2, <2>3, <1>2 DEF WritesKeep, At, OnRecord
<1>9. OneAdopts'
  <2>1. \A p \in Callers : InStore(call'[p]) => storing' = p
    BY <1>2, <1>3, <1>4, IdleCarries DEF DocumentsInv, OneAdopts
  <2> QED
    BY <2>1 DEF OneAdopts, InStore
<1>10. OnlyApprovedLeaves'
  BY <1>2 DEF DocumentsInv, DocumentsAreTrue, OnlyApprovedLeaves
<1>11. AdoptedOnce'
  BY <1>2, <1>5 DEF DocumentsInv, DocumentsAreTrue, AdoptedOnce, MadeOf, Became, OnRecord
<1>12. HistoryNamesState'
  <2> SUFFICES ASSUME NEW k \in Cases, cases[k].state \in unlogged[k]
               PROVE  \E p \in Callers : call'[p].at = "log" /\ call'[p].case = k
                                         /\ call'[p].to.state = cases[k].state
    BY <1>2 DEF HistoryNamesState, At
  <2>2. PICK p \in Callers : At(p, "log") /\ call[p].case = k /\ call[p].to.state = cases[k].state
    BY DEF DocumentsInv, DocumentsAreTrue, HistoryNamesState
  <2>3. p # q
    BY <2>2, <1>2 DEF At
  <2> QED
    BY <2>2, <2>3, <1>4 DEF At
<1> QED
  BY <1>7, <1>8, <1>9, <1>10, <1>11, <1>12 DEF DocumentsInv, DocumentsAreTrue

\* A handler outside the artifact store goes on.
LEMMA StepsStep ==
    ASSUME DocumentsInv, NEW q \in Callers, NEW r, Steps(q, r), ~At(q, "log"),
           NewCall(q, r), ~InStore(r)
    PROVE  DocumentsInv'
<1>1. NewHolder(q, r)
  BY DEF NewHolder, DocumentsInv, OneAdopts, Steps, store
<1> QED
  BY <1>1, CallStep DEF Steps, store, past

LEMMA EmptyStep ==
    ASSUME DocumentsInv, NEW q \in Callers, NEW r, Steps(q, r), ~At(q, "log"),
           r.at \in {"idle", "erase", "log"}
    PROVE  DocumentsInv'
<1>1. NewCall(q, r) /\ ~InStore(r)
  BY IdleCarries DEF NewCall
<1> QED
  BY <1>1, StepsStep

LEMMA SaveStep ==
    ASSUME DocumentsInv, NEW q \in Callers, NEW r, Steps(q, r), ~At(q, "log"),
           r.at = "save", Sound(r.to, approvedOnce)
    PROVE  DocumentsInv'
<1>1. NewCall(q, r) /\ ~InStore(r)
  BY DEF NewCall, Carries, Saves, Reads, Stores, Keeps, InStore
<1> QED
  BY <1>1, StepsStep

LEMMA StatesAre ==
    States = {"selected", "analysis", "questions", "draft", "review", "approved", "exported",
              "dry_run", "submitted", "closed"}
BY DEF States, Follows

\* From approval on there is no way to a released state but from another one.
LEMMA OnlyThroughApproval ==
    ASSUME NEW s \in States, NEW t \in Follows[s], t \in Released, t # "approved"
    PROVE  s \in Released
BY StatesAre DEF Follows, Released

LEMMA BecomeShape ==
    ASSUME NEW a \in Case, NEW t \in States
    PROVE  /\ Become(a, t) \in Case /\ Become(a, t).state = t
           /\ Become(a, t).mode = a.mode /\ Become(a, t).binding = a.binding
<1>1. PICK n \in Int : n = a.revision + 1
  BY DEF Case
<1>2. PICK b : b = [a EXCEPT !.state = t, !.revision = n]
  OBVIOUS
<1>3. b \in Case /\ b.state = t /\ b.mode = a.mode /\ b.binding = a.binding
  BY <1>2 DEF Case
<1>4. Become(a, t) = IF t = a.state THEN a ELSE b
  BY <1>1, <1>2 DEF Become
<1> QED
  BY <1>3, <1>4

LEMMA ExistingCase ==
    ASSUME DocumentsInv, NEW c \in Cases, Exists(c)
    PROVE  Sound(cases[c], approvedOnce)
<1>1. cases[c].state \notin {"never", "gone"}
  BY StatesAre DEF Exists
<1>2. cases[c] \in Case
  BY <1>1 DEF DocumentsInv, StoredOK, NeverCase, GoneCase
<1> QED
  BY <1>2 DEF Sound, DocumentsInv, DocumentsAreTrue, OnlyApprovedLeaves

LEMMA ExistingDocument ==
    ASSUME DocumentsInv, NEW d \in Documents, documents[d].life \notin {"never", "gone"}
    PROVE  documents[d] \in Document /\ OnRecord(d)
BY DEF DocumentsInv, StoredOK, NeverDocument, OnRecord

LEMMA CreateStep ==
    ASSUME DocumentsInv, NEW q \in Callers, NEW c \in Cases,
           NEW mode \in {"real", "incognito"}, Create(q, c, mode)
    PROVE  DocumentsInv'
<1>1. PICK r : r = [at |-> "save", case |-> c, to |-> NewCase(mode)]
  OBVIOUS
<1>2. Steps(q, r) /\ ~At(q, "log") /\ r.at = "save" /\ r.to = NewCase(mode)
  BY <1>1 DEF Create, At
<1>3. Sound(r.to, approvedOnce)
  BY <1>2, StatesAre DEF NewCase, Sound, Case, Released
<1> QED
  BY <1>2, <1>3, SaveStep

LEMMA TransitionStep ==
    ASSUME DocumentsInv, NEW q \in Callers, NEW c \in Cases, NEW target \in States,
           Transition(q, c, target)
    PROVE  DocumentsInv'
<1>1. PICK a : a = cases[c]
  OBVIOUS
<1>2. PICK r : r = [at |-> "save", case |-> c, to |-> Become(a, target)]
  OBVIOUS
<1>3. Steps(q, r) /\ ~At(q, "log") /\ r.at = "save" /\ r.to = Become(a, target)
  BY <1>1, <1>2 DEF Transition, At
<1>4. Sound(a, approvedOnce) /\ a \in Case
  BY <1>1, ExistingCase DEF Transition, Sound
<1>5. target = a.state \/ target \in Follows[a.state]
  BY <1>1 DEF Transition, MayBecome
<1>6. target \in Released => a.state \in Released
  <2>1. a.state \in States /\ target # "approved"
    BY <1>4 DEF Case, Transition
  <2> QED
    BY <2>1, <1>5, OnlyThroughApproval
<1>7. Sound(r.to, approvedOnce)
  BY <1>3, <1>4, <1>6, BecomeShape DEF Sound
<1> QED
  BY <1>3, <1>7, SaveStep

LEMMA AsksApprovalStep ==
    ASSUME DocumentsInv, NEW q \in Callers, NEW c \in Cases, NEW d \in Documents,
           AsksApproval(q, c, d)
    PROVE  DocumentsInv'
<1>1. PICK a : a = cases[c]
  OBVIOUS
<1>2. PICK r : r = [at |-> "approve", case |-> c, read |-> a, document |-> d]
  OBVIOUS
<1>3. Steps(q, r) /\ ~At(q, "log") /\ a.mode = "real" /\ Sound(a, approvedOnce)
  BY <1>1, <1>2, ExistingCase DEF AsksApproval, At
<1>4. r.at = "approve" /\ r.read = a /\ r.document = d
  BY <1>2
<1>5. NewCall(q, r) /\ ~InStore(r)
  BY <1>3, <1>4 DEF NewCall, Carries, Saves, Reads, Stores, Keeps, InStore
<1> QED
  BY <1>3, <1>5, StepsStep

LEMMA BindsStep ==
    ASSUME DocumentsInv, NEW q \in Callers, Binds(q)
    PROVE  DocumentsInv'
<1>1. PICK a, d, c : a = call[q].read /\ d = call[q].document /\ c = call[q].case
  OBVIOUS
<1>2. At(q, "approve") /\ ~At(q, "log") /\ Sound(a, approvedOnce) /\ a.mode = "real" /\ d \in Documents
  BY <1>1 DEF Binds, At, DocumentsInv, StoredOK, Carries, Reads
<1>3. PICK b : b = [Become(a, "approved") EXCEPT !.binding = d]
  OBVIOUS
<1>4. PICK r : r = [at |-> "save", case |-> c, to |-> b]
  OBVIOUS
<1>5. (ApprovalReady(d, c) /\ Steps(q, r)) \/ Steps(q, [at |-> "idle"])
  BY <1>1, <1>3, <1>4 DEF Binds, Gives
<1>6. CASE ApprovalReady(d, c) /\ Steps(q, r)
  <2>1. d \in approvedOnce
    BY <1>2, <1>6 DEF ApprovalReady, DocumentsInv, StoredOK
  <2>2. "approved" \in States /\ a \in Case
    BY <1>2, StatesAre DEF Sound
  <2>3. Become(a, "approved") \in Case /\ Become(a, "approved").mode = "real"
    BY <2>2, <1>2, BecomeShape
  <2>4. b \in Case /\ b.mode = "real" /\ b.binding = d
    BY <2>3, <1>2, <1>3 DEF Case
  <2>5. r.at = "save" /\ Sound(r.to, approvedOnce)
    BY <1>4, <2>1, <2>4 DEF Sound
  <2> QED
    BY <1>2, <1>6, <2>5, SaveStep
<1>7. CASE Steps(q, [at |-> "idle"])
  BY <1>2, <1>7, EmptyStep
<1> QED
  BY <1>5, <1>6, <1>7

LEMMA EmptyRequests ==
    ASSUME DocumentsInv, NEW q \in Callers,
           \/ \E c \in Cases : Note(q, c) \/ Delete(q, c)
           \/ Clear(q) \/ Retention(q)
    PROVE  DocumentsInv'
<1>1. PICK r : Steps(q, r) /\ r.at \in {"erase", "log"} /\ ~At(q, "log")
  <2>1. ASSUME NEW c \in Cases, Note(q, c)
        PROVE  \E r : Steps(q, r) /\ r.at \in {"erase", "log"} /\ ~At(q, "log")
    BY <2>1 DEF Note, EventOf, At
  <2>2. ASSUME NEW c \in Cases, Delete(q, c)
        PROVE  \E r : Steps(q, r) /\ r.at \in {"erase", "log"} /\ ~At(q, "log")
    BY <2>2 DEF Delete, At
  <2>3. CASE Clear(q) \/ Retention(q)
    BY <2>3 DEF Clear, Retention, At
  <2> QED
    BY <2>1, <2>2, <2>3
<1> QED
  BY <1>1, EmptyStep

LEMMA ProposeStep ==
    ASSUME DocumentsInv, NEW q \in Callers, NEW c \in Cases, NEW d \in Documents, Propose(q, c, d)
    PROVE  DocumentsInv'
<1>1. PICK proof \in BOOLEAN : Steps(q, WriteTo(d, Proposed(c, proof, NoArtifact), [at |-> "idle"]))
  BY DEF Propose
<1>2. PICK r : r = WriteTo(d, Proposed(c, proof, NoArtifact), [at |-> "idle"])
  OBVIOUS
<1>3. r.at = "document" /\ r.document = d /\ r.content = Proposed(c, proof, NoArtifact) /\ r.next.at = "idle"
  BY <1>2 DEF WriteTo
<1>4. r.content \in Document /\ r.content.source = NoArtifact
  BY <1>3 DEF Proposed, Document, Sources
<1>5. ~At(q, "log") /\ ~OnRecord(d) /\ \A p \in Callers : At(p, "document") => call[p].document # d
  BY DEF Propose, At, Unwritten, OnRecord
<1>6. Carries(r, approvedOnce)
  BY <1>3, <1>4 DEF Carries, Saves, Reads, Stores
<1>7. Keeps(r) /\ ~InStore(r)
  BY <1>3, <1>4, <1>5, ApplicationsAssumption DEF Keeps, InStore
<1>8. NewCall(q, r)
  BY <1>3, <1>5, <1>6, <1>7 DEF NewCall
<1> QED
  BY <1>1, <1>2, <1>5, <1>7, <1>8, StepsStep

\* A decision on a document and its use write what was read, but for its life.
LEMMA WriteStep ==
    ASSUME DocumentsInv, NEW q \in Callers, NEW d \in Documents, NEW next, ~At(q, "log"),
           NEW life \in {"approved", "rejected", "used"},
           documents[d].life \notin {"never", "gone"},
           next.at \in {"idle", "save"}, Saves(next, approvedOnce),
           Steps(q, WriteTo(d, [documents[d] EXCEPT !.life = life], next))
    PROVE  DocumentsInv'
<1>1. PICK e : e = [documents[d] EXCEPT !.life = life]
  OBVIOUS
<1>2. PICK r : r = WriteTo(d, e, next)
  OBVIOUS
<1>3. r.at = "document" /\ r.document = d /\ r.content = e /\ r.next = next
  BY <1>2 DEF WriteTo
<1>4. documents[d] \in Document /\ OnRecord(d)
  BY ExistingDocument
<1>5. e \in Document /\ e.source = documents[d].source
  BY <1>1, <1>4 DEF Document
<1>6. Carries(r, approvedOnce)
  BY <1>3, <1>5 DEF Carries, Saves, Reads, Stores
<1>7. Keeps(r) /\ ~InStore(r)
  BY <1>3, <1>4, <1>5 DEF Keeps, InStore
<1>8. NewCall(q, r)
  BY <1>3, <1>4, <1>6, <1>7 DEF NewCall
<1>9. Steps(q, r)
  BY <1>1, <1>2
<1> QED
  BY <1>7, <1>8, <1>9, StepsStep

LEMMA ReviewStep ==
    ASSUME DocumentsInv, NEW q \in Callers, NEW c \in Cases, NEW d \in Documents, Review(q, c, d)
    PROVE  DocumentsInv'
<1>1. PICK decision \in {"approved", "rejected"} :
        Steps(q, WriteTo(d, [documents[d] EXCEPT !.life = decision], [at |-> "idle"]))
  BY DEF Review
<1>2. ~At(q, "log") /\ documents[d].life \notin {"never", "gone"}
  BY DEF Review, At
<1>3. PICK next : next = [at |-> "idle"]
  OBVIOUS
<1>4. next.at = "idle" /\ Saves(next, approvedOnce)
  BY <1>3 DEF Saves
<1> QED
  BY <1>1, <1>2, <1>3, <1>4, WriteStep

LEMMA MarksStep ==
    ASSUME DocumentsInv, NEW q \in Callers, NEW a, NEW c, NEW d \in Documents, NEW next,
           ~At(q, "log"), next.at \in {"idle", "save"}, Saves(next, approvedOnce),
           Marks(q, a, c, d, next)
    PROVE  DocumentsInv'
<1>1. \/ Steps(q, next)
      \/ Steps(q, [at |-> "idle"])
      \/ /\ documents[d].life = "approved"
         /\ Steps(q, WriteTo(d, [documents[d] EXCEPT !.life = "used"], next))
  BY DEF Marks, Gives
<1>2. CASE Steps(q, next)
  <2>1. CASE next.at = "idle"
    BY <1>2, <2>1, EmptyStep
  <2>2. CASE next.at = "save"
    BY <1>2, <2>2, SaveStep DEF Saves
  <2> QED
    BY <2>1, <2>2
<1>3. CASE Steps(q, [at |-> "idle"])
  BY <1>3, EmptyStep
<1>4. CASE documents[d].life = "approved"
           /\ Steps(q, WriteTo(d, [documents[d] EXCEPT !.life = "used"], next))
  BY <1>4, WriteStep
<1> QED
  BY <1>1, <1>2, <1>3, <1>4

LEMMA UseCaseStep ==
    ASSUME DocumentsInv, NEW q \in Callers, NEW c \in Cases, NEW d \in Documents, Use(q, c, d)
    PROVE  DocumentsInv'
<1>1. PICK a : a = cases[c]
  OBVIOUS
<1>2. PICK next : next = [at |-> "idle"]
  OBVIOUS
<1>3. Marks(q, a, c, d, next) /\ ~At(q, "log")
  BY <1>1, <1>2 DEF Use, At
<1>4. next.at = "idle" /\ Saves(next, approvedOnce)
  BY <1>2 DEF Saves
<1> QED
  BY <1>3, <1>4, MarksStep

LEMMA ExportStep ==
    ASSUME DocumentsInv, NEW q \in Callers, NEW c \in Cases, NEW d \in Documents, Export(q, c, d)
    PROVE  DocumentsInv'
<1>1. PICK a : a = cases[c]
  OBVIOUS
<1>2. PICK r : r = [at |-> "rendered", case |-> c, read |-> a, document |-> d]
  OBVIOUS
<1>3. Steps(q, r) /\ ~At(q, "log") /\ a.mode = "real" /\ a.state = "approved" /\ Sound(a, approvedOnce)
  BY <1>1, <1>2, ExistingCase DEF Export, At
<1>4. r.at = "rendered" /\ r.read = a /\ r.document = d
  BY <1>2
<1>5. NewCall(q, r) /\ ~InStore(r)
  BY <1>3, <1>4 DEF NewCall, Carries, Saves, Reads, Stores, Keeps, InStore
<1> QED
  BY <1>3, <1>5, StepsStep

LEMMA RenderedStep ==
    ASSUME DocumentsInv, NEW q \in Callers, Rendered(q)
    PROVE  DocumentsInv'
<1>1. PICK a, d, c : a = call[q].read /\ d = call[q].document /\ c = call[q].case
  OBVIOUS
<1>2. /\ ~At(q, "log") /\ Sound(a, approvedOnce) /\ a.state = "approved" /\ d \in Documents
  BY <1>1 DEF Rendered, At, DocumentsInv, StoredOK, Carries, Reads
<1>3. PICK next : next = [at |-> "save", case |-> c, to |-> Become(a, "exported")]
  OBVIOUS
<1>4. Marks(q, a, c, d, next)
  BY <1>1, <1>3 DEF Rendered
<1>5. a.mode = "real" /\ a.binding \in approvedOnce /\ a \in Case
  BY <1>2 DEF Sound, Released
<1>6. "exported" \in States
  BY StatesAre
<1>7. Sound(Become(a, "exported"), approvedOnce)
  BY <1>5, <1>6, BecomeShape DEF Sound
<1>8. next.at = "save" /\ Saves(next, approvedOnce)
  BY <1>3, <1>7 DEF Saves
<1> QED
  BY <1>2, <1>4, <1>8, MarksStep

LEMMA AdoptStep ==
    ASSUME DocumentsInv, NEW q \in Callers, NEW a \in Artifacts, Adopt(q, a)
    PROVE  DocumentsInv'
<1>1. PICK r : r = [at |-> "adopt", artifact |-> a]
  OBVIOUS
<1>2. /\ Goes(q, r) /\ ~At(q, "log") /\ storing = Nobody /\ storing' = q /\ artifacts[a].life = "approved"
      /\ UNCHANGED <<workspace, artifacts, approvedOnce, restored>>
  BY <1>1 DEF Adopt, At, past
<1>3. r.at = "adopt" /\ r.artifact = a
  BY <1>1
<1>4. artifacts[a] \in Bound
  BY <1>2 DEF DocumentsInv, StoredOK
<1>5. NewCall(q, r)
  BY <1>3, <1>4 DEF NewCall, Carries, Saves, Reads, Stores, Held, Keeps
<1>6. NewHolder(q, r)
  BY <1>2, ApplicationsAssumption DEF NewHolder, DocumentsInv, OneAdopts
<1> QED
  BY <1>2, <1>5, <1>6, CallStep

LEMMA AdoptsStep ==
    ASSUME DocumentsInv, NEW q \in Callers, Adopts(q)
    PROVE  DocumentsInv'
<1>1. PICK a : a = call[q].artifact
  OBVIOUS
<1>2. PICK c : c = artifacts[a].case
  OBVIOUS
<1>3. PICK done : done = [at |-> "adopted", artifact |-> a]
  OBVIOUS
<1>4. /\ At(q, "adopt") /\ ~At(q, "log") /\ a \in Artifacts /\ artifacts[a] \in Bound /\ storing = q
      /\ UNCHANGED <<workspace, artifacts, approvedOnce, restored>>
  BY <1>1 DEF Adopts, DocumentsInv, StoredOK, Carries, Held, OneAdopts, InStore, At, past
<1>5. done.at = "adopted" /\ done.artifact = a /\ Held(done)
  BY <1>3, <1>4 DEF Held
<1>6. \A p \in Callers \ {q} : ~InStore(call[p])
  BY <1>4 DEF DocumentsInv, OneAdopts
<1>7. \/ MadeOf(a) # {} /\ Goes(q, done) /\ storing' = storing
      \/ /\ MadeOf(a) = {} /\ storing' = storing
         /\ \E d \in Documents : Unwritten(d) /\ Goes(q, WriteTo(d, Proposed(c, TRUE, a), done))
      \/ Goes(q, [at |-> "idle"]) /\ storing' = Nobody
  BY <1>1, <1>2, <1>3 DEF Adopts, AdoptedBefore, Finishes
<1>8. CASE MadeOf(a) # {} /\ Goes(q, done) /\ storing' = storing
  <2>1. Became(a)
    BY <1>8, ExistingDocument DEF MadeOf, Became
  <2>2. NewCall(q, done)
    BY <1>5, <2>1 DEF NewCall, Carries, Saves, Reads, Stores, Keeps
  <2>3. NewHolder(q, done)
    BY <1>4, <1>6, <1>8 DEF NewHolder
  <2> QED
    BY <1>4, <1>8, <2>2, <2>3, CallStep
<1>9. ASSUME MadeOf(a) = {}, storing' = storing, NEW d \in Documents, Unwritten(d),
             Goes(q, WriteTo(d, Proposed(c, TRUE, a), done))
      PROVE  DocumentsInv'
  <2>1. PICK r : r = WriteTo(d, Proposed(c, TRUE, a), done)
    OBVIOUS
  <2>2. r.at = "document" /\ r.document = d /\ r.content = Proposed(c, TRUE, a) /\ r.next = done
    BY <2>1 DEF WriteTo
  <2>3. c \in Cases
    BY <1>2, <1>4 DEF Bound
  <2>4. r.content \in Document /\ r.content.source = a
    BY <2>2, <2>3, <1>4 DEF Proposed, Document, Sources
  <2>5. ~OnRecord(d) /\ \A p \in Callers : At(p, "document") => call[p].document # d
    BY <1>9 DEF Unwritten, OnRecord
  <2>6. Carries(r, approvedOnce)
    BY <2>2, <2>4, <1>5 DEF Carries, Saves, Reads, Stores
  <2>7. Keeps(r)
    BY <2>2, <2>4, <2>5, <1>4, <1>5, <1>9 DEF Keeps
  <2>8. NewCall(q, r)
    BY <2>2, <2>5, <2>6, <2>7 DEF NewCall
  <2>9. NewHolder(q, r) /\ Goes(q, r)
    BY <1>4, <1>6, <1>9, <2>1 DEF NewHolder
  <2> QED
    BY <1>4, <2>8, <2>9, CallStep
<1>10. CASE Goes(q, [at |-> "idle"]) /\ storing' = Nobody
  <2>1. PICK r : r = [at |-> "idle"]
    OBVIOUS
  <2>2. r.at = "idle" /\ NewCall(q, r) /\ NewHolder(q, r)
    BY <1>6, <2>1, IdleCarries DEF NewCall, NewHolder
  <2> QED
    BY <1>4, <1>10, <2>1, <2>2, CallStep
<1> QED
  BY <1>7, <1>8, <1>9, <1>10

-----------------------------------------------------------------------------

LEMMA HandlesStep ==
    ASSUME DocumentsInv, NEW q \in Callers, Handles(q)
    PROVE  DocumentsInv'
<1>1. CASE Queues(q)
  BY <1>1, QuietStep DEF Queues, past
<1>2. CASE ConflictFailsLine(q)
  BY <1>2, EndsStep DEF ConflictFailsLine, FailsLine
<1>3. CASE SavesCase(q) \/ LogsEvent(q) \/ SavesDocument(q) \/ Erases(q)
  BY <1>3, SavesCaseStep, LogsEventStep, SavesDocumentStep, ErasesStep
<1>4. CASE Binds(q) \/ Rendered(q) \/ Adopts(q) \/ Adopted(q)
  BY <1>4, BindsStep, RenderedStep, AdoptsStep, AdoptedStep
<1> QED
  BY <1>1, <1>2, <1>3, <1>4 DEF Handles

LEMMA AsksStep ==
    ASSUME DocumentsInv, NEW q \in Callers, Asks(q)
    PROVE  DocumentsInv'
<1>1. ASSUME NEW c \in Cases, NEW d \in Documents,
             AsksApproval(q, c, d) \/ Propose(q, c, d) \/ Review(q, c, d) \/ Use(q, c, d) \/ Export(q, c, d)
      PROVE  DocumentsInv'
  BY <1>1, AsksApprovalStep, ProposeStep, ReviewStep, UseCaseStep, ExportStep
<1>2. ASSUME NEW c \in Cases, NEW mode \in {"real", "incognito"}, Create(q, c, mode)
      PROVE  DocumentsInv'
  BY <1>2, CreateStep
<1>3. ASSUME NEW c \in Cases, NEW target \in States, Transition(q, c, target)
      PROVE  DocumentsInv'
  BY <1>3, TransitionStep
<1>4. ASSUME NEW a \in Artifacts, Adopt(q, a)
      PROVE  DocumentsInv'
  BY <1>4, AdoptStep
<1> QED
  BY <1>1, <1>2, <1>3, <1>4, EmptyRequests DEF Asks

LEMMA DocumentsInit == WorkspaceInit => DocumentsInv
<1> SUFFICES ASSUME WorkspaceInit
             PROVE  DocumentsInv
  OBVIOUS
<1>1. /\ \A q \in Callers : call[q].at = "idle"
      /\ \A d \in Documents : documents[d] = NeverDocument /\ documents[d].life = "never"
      /\ \A c \in Cases : unlogged[c] = {}
  BY DEF WorkspaceInit, NeverDocument
<1> DEFINE first == {NeverCase} \cup
               [state : {"review"}, revision : 1 .. MaxRevision, mode : {"real", "incognito"}, binding : {NoDocument}]
           bound == {[life |-> "none"]} \cup {ApprovedFor(c) : c \in {k \in Cases : Exists(k)}}
<1>8. cases \in [Cases -> first] /\ artifacts \in [Artifacts -> bound]
  BY DEF WorkspaceInit
<1>9. /\ cases = [c \in Cases |-> cases[c]] /\ \A c \in Cases : cases[c] \in first
      /\ artifacts = [a \in Artifacts |-> artifacts[a]] /\ \A a \in Artifacts : artifacts[a] \in bound
  <2> HIDE DEF first, bound
  <2> QED
    BY <1>8
<1>2. \A c \in Cases : cases[c] = NeverCase \/ (cases[c] \in Case /\ cases[c].state = "review")
  <2> TAKE c \in Cases
  <2> QED
    BY <1>9, StatesAre DEF Case
<1>3. \A a \in Artifacts : artifacts[a] = [life |-> "none"]
        \/ (artifacts[a] \in Bound /\ artifacts[a].life = "approved")
  <2> TAKE a \in Artifacts
  <2> SUFFICES ASSUME NEW c \in Cases, Exists(c), artifacts[a] = ApprovedFor(c)
               PROVE  artifacts[a] \in Bound /\ artifacts[a].life = "approved"
    BY <1>9
  <2>1. cases[c] \in Case
    BY <1>2, StatesAre DEF Exists, NeverCase
  <2>2. cases[c].revision \in Int /\ cases[c].mode \in {"real", "incognito"}
    BY <2>1 DEF Case
  <2> QED
    BY <2>2 DEF ApprovedFor, Bound
<1>4. StoredOK
  <2>1. \A q \in Callers : Carries(call[q], approvedOnce)
    BY <1>1, IdleCarries
  <2>3. documents = [d \in Documents |-> documents[d]] /\ unlogged = [c \in Cases |-> unlogged[c]]
        /\ call = [q \in Callers |-> call[q]]
    BY DEF WorkspaceInit
  <2>4. cases \in [Cases -> {NeverCase, GoneCase} \cup Case]
    BY <1>2, <1>9
  <2>5. artifacts \in [Artifacts -> {[life |-> "none"]} \cup Bound]
    BY <1>3, <1>9
  <2>6. documents \in [Documents -> {NeverDocument} \cup [life : {"gone"}, source : Sources] \cup Document]
    BY <1>1, <2>3
  <2> QED
    BY <1>1, <2>1, <2>3, <2>4, <2>5, <2>6 DEF StoredOK
<1>5. WritesKeep
  BY <1>1 DEF WritesKeep, Keeps, At
<1>6. OneAdopts
  BY <1>1 DEF OneAdopts, InStore
<1>7. DocumentsAreTrue
  <2>1. OnlyApprovedLeaves
    BY <1>2 DEF OnlyApprovedLeaves, Released, NeverCase
  <2>2. HistoryNamesState
    BY <1>1 DEF HistoryNamesState
  <2>3. \A a \in Artifacts : MadeOf(a) = {} /\ artifacts[a].life # "used"
    BY <1>1, <1>3 DEF MadeOf
  <2> QED
    BY <2>1, <2>2, <2>3 DEF DocumentsAreTrue, AdoptedOnce
<1> QED
  BY <1>4, <1>5, <1>6, <1>7 DEF DocumentsInv

LEMMA DocumentsStep == DocumentsInv /\ [WorkspaceNext]_applications => DocumentsInv'
<1> SUFFICES ASSUME DocumentsInv, [WorkspaceNext]_applications
             PROVE  DocumentsInv'
  OBVIOUS
<1>1. CASE \E q \in Callers : Handles(q) \/ Asks(q)
  BY <1>1, HandlesStep, AsksStep
<1>2. CASE DiskFails
  BY <1>2, EndsStep DEF DiskFails, FailsLine
<1>3. CASE Restart
  BY <1>3, EndsStep DEF Restart
<1>4. CASE UNCHANGED applications
  BY <1>4, QuietStep DEF applications, past
<1> QED
  BY <1>1, <1>2, <1>3, <1>4 DEF WorkspaceNext

\* Only an approved document leaves, in a real case, the history of a case names
\* its state, and an artifact becomes one document (the routes under
\* /api/application-cases), for any number of requests, cases and documents,
\* whichever writes fail and whenever the server restarts.
THEOREM DocumentsAreTrueHolds == WorkspaceSpec => []DocumentsAreTrue
<1>1. DocumentsInv => DocumentsAreTrue
  BY DEF DocumentsInv
<1> QED
  BY DocumentsInit, DocumentsStep, <1>1, PTL DEF WorkspaceSpec

LEMMA UsedStep ==
    DocumentsInv /\ [WorkspaceNext]_applications =>
        \A d \in Documents : documents[d].life = "used" => documents'[d].life \in {"used", "gone"}
<1> SUFFICES ASSUME DocumentsInv, [WorkspaceNext]_applications, NEW d \in Documents,
                    documents[d].life = "used"
             PROVE  documents'[d].life \in {"used", "gone"}
  OBVIOUS
<1>1. CASE documents' = documents
  BY <1>1
<1>2. ASSUME NEW q \in Callers, SavesDocument(q)
      PROVE  documents'[d].life \in {"used", "gone"}
  <2>1. d # call[q].document /\ documents' = [documents EXCEPT ![call[q].document] = call[q].content]
    BY <1>2 DEF SavesDocument, RefusesDocument
  <2> QED
    BY <2>1 DEF DocumentsInv, StoredOK
<1>3. ASSUME NEW q \in Callers, Erases(q)
      PROVE  documents'[d].life \in {"used", "gone"}
  <2>1. \E cs, keep : Removed(cs, keep)
    BY <1>3 DEF Erases
  <2> QED
    BY <2>1 DEF Removed, GoneDocument
<1>4. ASSUME NEW q \in Callers, Handles(q) \/ Asks(q), ~SavesDocument(q), ~Erases(q)
      PROVE  documents' = documents
  <2>1. CASE Handles(q)
    BY <1>4, <2>1 DEF Handles, Queues, SavesCase, LogsEvent, ConflictFailsLine, FailsLine, Binds, Rendered,
       Adopts, Adopted, Marks, Gives, Steps, workspace
  <2>2. CASE Asks(q)
    BY <2>2 DEF Asks, Create, Transition, AsksApproval, Propose, Review, Use, Export, Note, Delete, Adopt,
       Clear, Retention, Marks, Gives, Steps, workspace
  <2> QED
    BY <1>4, <2>1, <2>2
<1>5. CASE DiskFails \/ Restart \/ UNCHANGED applications
  BY <1>5, <1>1 DEF DiskFails, FailsLine, Restart, applications, workspace
<1> QED
  BY <1>1, <1>2, <1>3, <1>4, <1>5 DEF WorkspaceNext

\* A used document stays as it was sent until its case is removed; no review
\* that was on its way changes it (saveArtifactRevision() of workspace-store.ts).
THEOREM UsedIsFinalHolds == WorkspaceSpec => UsedIsFinal
<1>1. DocumentsInv /\ [WorkspaceNext]_applications =>
        [\A d \in Documents : documents[d].life = "used" => documents'[d].life \in {"used", "gone"}]_applications
  BY UsedStep
<1> QED
  BY DocumentsInit, DocumentsStep, <1>1, PTL DEF WorkspaceSpec, UsedIsFinal

-----------------------------------------------------------------------------
(* The style profile *)

\* A request is a record of its fields.
IsStyleRequest(q) ==
    q = [op |-> q.op, base |-> q.base, text |-> q.text, is |-> q.is, got |-> q.got, seen |-> q.seen, raced |-> q.raced]

\* What is being saved was ticked when its page was on the screen; until the file is
\* replaced it is the one of that page, unless somebody edited it at the last moment.
Replaces(q) ==
    /\ q.op = "save" => q.base = q.seen
    /\ q.is \in {"validating", "publishing", "renamed"} => q.op = "save"
    /\ q.is \in {"validating", "publishing"} => q.base.text # Style!Missing
    /\ q.is = "publishing" => file = q.base.text \/ q.raced

StyleInv ==
    /\ \A q \in net : IsStyleRequest(q) /\ Replaces(q)
    /\ \A q, x \in net : Style!Working(q) /\ Style!Working(x) => q = x
    /\ tick /\ view # Style!NoView => seen = view

LEMMA StyleInit == Style!Init => StyleInv
BY Zenon DEF Style!Init, StyleInv

\* An answer takes the request away and may ask another question, none of which is a save.
LEMMA StyleAnswers ==
    ASSUME StyleInv, net' \subseteq net \cup {Style!Ask("style", Style!NoView, Style!Missing)}, file' = file,
           tick' /\ view' # Style!NoView => seen' = view'
    PROVE  StyleInv'
<1>1. PICK a : a = Style!Ask("style", Style!NoView, Style!Missing)
  OBVIOUS
<1>2. IsStyleRequest(a) /\ a.op = "style" /\ a.is = "sent"
  BY <1>1 DEF Style!Ask, IsStyleRequest
<1>3. \A q \in net' : q \in net \/ q = a
  BY <1>1
<1>4. \A q \in net' : IsStyleRequest(q) /\ Replaces(q)'
  BY <1>2, <1>3 DEF StyleInv, Replaces
<1>5. \A q, x \in net' : Style!Working(q) /\ Style!Working(x) => q = x
  BY <1>2, <1>3 DEF StyleInv, Style!Working
<1> QED
  BY <1>4, <1>5 DEF StyleInv

\* A request moves on.
LEMMA StyleMoves ==
    ASSUME StyleInv, NEW q \in net, NEW r, net' = (net \ {q}) \cup {r}, IsStyleRequest(r),
           r.op = q.op, r.base = q.base, r.seen = q.seen,
           Style!Working(r) => Style!Working(q) \/ Style!Idle,
           r.is \in {"validating", "publishing", "renamed"} => r.op = "save",
           r.is \in {"validating", "publishing"} => r.base.text # Style!Missing,
           r.is = "publishing" => file' = r.base.text \/ r.raced,
           file' # file => \A x \in net \ {q} : x.is = "publishing" => x.raced,
           UNCHANGED <<tick, view, seen>>
    PROVE  StyleInv'
<1>1. \A x \in net' : (x \in net /\ x # q) \/ x = r
  OBVIOUS
<1>2. Replaces(r)'
  BY DEF StyleInv, Replaces
<1>3. ASSUME NEW x \in net, x # q
      PROVE  IsStyleRequest(x) /\ Replaces(x)'
  BY <1>3 DEF StyleInv, Replaces
<1>4. \A x \in net' : IsStyleRequest(x) /\ Replaces(x)'
  BY <1>1, <1>2, <1>3, Zenon
<1>5. \A x, y \in net' : Style!Working(x) /\ Style!Working(y) => x = y
  BY <1>1, Zenon DEF StyleInv, Style!Idle
<1> QED
  BY <1>4, <1>5, Zenon DEF StyleInv

\* Of those that save at most one replaces the file, and it looks at the file before.
LEMMA StyleServes ==
    ASSUME StyleInv, NEW q \in net, Style!Serve(q)
    PROVE  StyleInv'
<1>1. IsStyleRequest(q) /\ Replaces(q) /\ UNCHANGED <<tick, view, seen>>
  BY DEF StyleInv, Style!Serve
<1>2. ASSUME file' = file, NEW is \in {"answered", "refused"}, NEW got,
             net' = (net \ {q}) \cup {[q EXCEPT !.is = is, !.got = got]}
      PROVE  StyleInv'
  <2>1. PICK r : r = [q EXCEPT !.is = is, !.got = got]
    OBVIOUS
  <2>2. IsStyleRequest(r) /\ r.op = q.op /\ r.base = q.base /\ r.seen = q.seen /\ r.is = is
    BY <1>1, <2>1 DEF IsStyleRequest
  <2> QED
    BY <1>1, <1>2, <2>1, <2>2, StyleMoves DEF Style!Working
<1>3. ASSUME NEW is \in {"validating", "publishing", "renamed"}, q.op = "save", Style!Working(q) \/ Style!Idle,
             net' = (net \ {q}) \cup {[q EXCEPT !.is = is]},
             is \in {"validating", "publishing"} => q.base.text # Style!Missing,
             is = "publishing" => file' = q.base.text,
             file' # file => \A x \in net \ {q} : x.is = "publishing" => x.raced
      PROVE  StyleInv'
  <2>1. PICK r : r = [q EXCEPT !.is = is]
    OBVIOUS
  <2>2. IsStyleRequest(r) /\ r.op = q.op /\ r.base = q.base /\ r.seen = q.seen /\ r.is = is
    BY <1>1, <2>1 DEF IsStyleRequest
  <2> QED
    BY <1>1, <1>3, <2>1, <2>2, StyleMoves DEF Style!Working
<1>4. CASE Style!ServeSetup(q) \/ Style!ServeStyle(q) \/ Style!PublishesRevision(q) \/ Style!FailsToPublish(q)
  BY <1>2, <1>4, Zenon DEF Style!ServeSetup, Style!ServeStyle, Style!PublishesRevision, Style!FailsToPublish,
     Style!Answer, Style!Refuse, Style!Becomes
<1>5. CASE Style!BeginsUpdate(q)
  <2>1. file # Style!Missing /\ Style!Loaded = q.base => q.base.text # Style!Missing
    BY DEF Style!Loaded
  <2> QED
    BY <1>2, <1>3, <1>5, <2>1, Zenon DEF Style!BeginsUpdate, Style!Refuse, Style!Becomes
<1>6. CASE Style!Validates(q)
  <2>1. Style!StillCurrent(q) => file = q.base.text
    BY DEF Style!StillCurrent, Style!Loaded
  <2>2. Style!Working(q)
    BY <1>1, <1>6 DEF Style!Validates, Style!Working, Replaces
  <2> QED
    BY <1>1, <1>2, <1>3, <1>6, <2>1, <2>2, Zenon DEF Style!Validates, Style!Refuse, Style!Becomes, Style!Working, Replaces
<1>7. CASE Style!PublishesText(q)
  <2>1. Style!Working(q) /\ q.op = "save" /\ \A x \in net \ {q} : x.is # "publishing"
    BY <1>1, <1>7, Zenon DEF StyleInv, Style!PublishesText, Style!Working, Replaces
  <2> QED
    BY <1>3, <1>7, <2>1, Zenon DEF Style!PublishesText, Style!Becomes
<1>8. CASE Style!ServeInitialize(q)
  <2>1. PICK r : r = [q EXCEPT !.is = "answered", !.got = [rev |-> 0, text |-> "present"]]
    OBVIOUS
  <2>2. net' = (net \ {q}) \cup {r} /\ (file' # file => file = Style!Missing)
    BY <1>8, <2>1, Zenon DEF Style!ServeInitialize, Style!Answer, Style!Becomes
  <2>3. IsStyleRequest(r) /\ r.op = q.op /\ r.base = q.base /\ r.seen = q.seen /\ r.is = "answered"
    BY <1>1, <2>1 DEF IsStyleRequest
  <2>4. file' # file => \A x \in net \ {q} : x.is = "publishing" => x.raced
    BY <2>2, Zenon DEF StyleInv, Replaces
  <2> QED
    BY <1>1, <2>2, <2>3, <2>4, StyleMoves DEF Style!Working
<1> QED
  BY <1>4, <1>5, <1>6, <1>7, <1>8, Zenon DEF Style!Serve

\* A request of another kind is started.
LEMMA StyleAsks ==
    ASSUME StyleInv, NEW op \in {"setup", "initialize", "style"},
           Style!Starts(Style!Ask(op, Style!NoView, Style!Missing)), UNCHANGED <<file, tick, view, seen>>
    PROVE  StyleInv'
<1>1. PICK a : a = Style!Ask(op, Style!NoView, Style!Missing)
  OBVIOUS
<1>2. net' = net \cup {a}
  BY <1>1, Zenon DEF Style!Starts
<1>3. IsStyleRequest(a) /\ a.op = op /\ a.is = "sent"
  BY <1>1 DEF Style!Ask, IsStyleRequest
<1>4. \A q \in net' : IsStyleRequest(q) /\ Replaces(q)'
  BY <1>2, <1>3 DEF StyleInv, Replaces
<1>5. \A q, x \in net' : Style!Working(q) /\ Style!Working(x) => q = x
  BY <1>2, <1>3 DEF StyleInv, Style!Working
<1> QED
  BY <1>4, <1>5 DEF StyleInv

LEMMA StyleStep == StyleInv /\ [Style!Next]_styleVars => StyleInv'
<1> SUFFICES ASSUME StyleInv, [Style!Next]_styleVars
             PROVE  StyleInv'
  OBVIOUS
<1>1. ASSUME NEW q \in net, Style!Serve(q)
      PROVE  StyleInv'
  BY <1>1, StyleServes
<1>2. ASSUME NEW q \in net, Style!Handles(q)
      PROVE  StyleInv'
  <2>1. CASE Style!SetupAnswered(q)
    <3>1. net' \subseteq net \cup {Style!Ask("style", Style!NoView, Style!Missing)}
      BY <2>1, Zenon DEF Style!SetupAnswered
    <3>2. file' = file /\ tick' = tick /\ seen' = seen /\ view' \in {view, Style!NoView}
      BY <2>1, Zenon DEF Style!SetupAnswered, Style!Quiet
    <3> QED
      BY <3>1, <3>2, StyleAnswers DEF StyleInv
  <2>2. CASE Style!StyleAnswered(q)
    <3>1. net' \subseteq net /\ file' = file
      BY <2>2, Zenon DEF Style!StyleAnswered, Style!Quiet
    <3>2. tick' /\ view' # Style!NoView => seen' = view'
      BY <2>2, Zenon DEF Style!StyleAnswered, Style!Shows, StyleInv
    <3> QED
      BY <3>1, <3>2, StyleAnswers
  <2> QED
    BY <1>2, <2>1, <2>2, Zenon DEF Style!Handles
<1>3. CASE Style!Stops
  <2>1. \A x \in net' : \E q \in net : x = [q EXCEPT !.is = "refused", !.got = Style!NoView]
    BY <1>3 DEF Style!Stops
  <2>2. ASSUME NEW x \in net'
        PROVE  IsStyleRequest(x) /\ (x.op = "save" => x.base = x.seen) /\ x.is = "refused"
    <3>1. PICK q \in net : x = [q EXCEPT !.is = "refused", !.got = Style!NoView]
      BY <2>1
    <3>2. IsStyleRequest(q) /\ (q.op = "save" => q.base = q.seen)
      BY DEF StyleInv, Replaces
    <3> QED
      BY <3>1, <3>2 DEF IsStyleRequest
  <2>3. tick' = tick /\ view' = view /\ seen' = seen
    BY <1>3 DEF Style!Stops
  <2> QED
    BY <2>2, <2>3 DEF StyleInv, Replaces, Style!Working
<1>4. CASE Style!LoadProfileSetup \/ Style!InitializeApplicationProfiles \/ Style!LoadApplicationStyleProfile
  BY <1>4, StyleAsks DEF Style!LoadProfileSetup, Style!InitializeApplicationProfiles,
     Style!LoadApplicationStyleProfile, Style!Quiet, Style!Page
<1>5. CASE Style!Ticks
  <2>1. file' = file /\ net' = net /\ (tick' => seen' = view')
    BY <1>5, Zenon DEF Style!Ticks, Style!Quiet
  <2> QED
    BY <2>1, StyleAnswers
<1>6. CASE Style!SaveApplicationStyleProfile
  <2>1. PICK a : a = Style!Ask("save", view, Style!Normalized(draft))
    OBVIOUS
  <2>2. PICK r : r = [a EXCEPT !.seen = seen]
    OBVIOUS
  <2>3. net' = net \cup {r} /\ UNCHANGED <<file, view, tick, seen>>
    BY <1>6, <2>1, <2>2, Zenon DEF Style!SaveApplicationStyleProfile, Style!Starts, Style!Quiet
  <2>4. seen = view
    BY <1>6 DEF Style!SaveApplicationStyleProfile, StyleInv
  <2>5. IsStyleRequest(r) /\ r.op = "save" /\ r.is = "sent" /\ r.base = view /\ r.seen = seen
    BY <2>1, <2>2 DEF Style!Ask, IsStyleRequest
  <2>6. \A q \in net' : IsStyleRequest(q) /\ Replaces(q)'
    BY <2>3, <2>4, <2>5 DEF StyleInv, Replaces
  <2>7. \A q, x \in net' : Style!Working(q) /\ Style!Working(x) => q = x
    BY <2>3, <2>5 DEF StyleInv, Style!Working
  <2> QED
    BY <2>3, <2>6, <2>7 DEF StyleInv
<1>7. ASSUME NEW t \in Texts, Style!IsEditedByHand(t)
      PROVE  StyleInv'
  <2>1. \A x \in net' : \E q \in net : x = [q EXCEPT !.raced = @ \/ q.is = "publishing"]
    BY <1>7 DEF Style!IsEditedByHand
  <2>2. ASSUME NEW x \in net'
        PROVE  \E q \in net : /\ IsStyleRequest(x) /\ x.op = q.op /\ x.base = q.base /\ x.seen = q.seen /\ x.is = q.is
                              /\ x = [q EXCEPT !.raced = @ \/ q.is = "publishing"]
                              /\ q.is = "publishing" => x.raced
    <3>1. PICK q \in net : x = [q EXCEPT !.raced = @ \/ q.is = "publishing"]
      BY <2>1
    <3>2. PICK b : b = (q.raced \/ q.is = "publishing")
      OBVIOUS
    <3>3. x = [q EXCEPT !.raced = b]
      BY <3>1, <3>2, Zenon
    <3>4. IsStyleRequest(q)
      BY DEF StyleInv
    <3>5. IsStyleRequest(x) /\ x.op = q.op /\ x.base = q.base /\ x.seen = q.seen /\ x.is = q.is /\ x.raced = b
          /\ x.text = q.text
      BY <3>3, <3>4 DEF IsStyleRequest
    <3>6. q.is = "publishing" => b
      BY <3>2, Zenon
    <3> QED
      BY <3>1, <3>5, <3>6, Zenon
  <2>3. ASSUME NEW x \in net'
        PROVE  IsStyleRequest(x) /\ Replaces(x)'
    BY <2>2 DEF StyleInv, Replaces
  <2>4. ASSUME NEW x \in net', NEW y \in net', Style!Working(x), Style!Working(y)
        PROVE  x = y
    <3>1. PICK q \in net : /\ x.op = q.op /\ x.is = q.is
                               /\ x = [q EXCEPT !.raced = @ \/ q.is = "publishing"]
      BY <2>2
    <3>2. PICK p \in net : /\ y.op = p.op /\ y.is = p.is
                               /\ y = [p EXCEPT !.raced = @ \/ p.is = "publishing"]
      BY <2>2
    <3>3. Style!Working(q) /\ Style!Working(p)
      BY <2>4, <3>1, <3>2 DEF Style!Working
    <3> QED
      BY <3>1, <3>2, <3>3, Zenon DEF StyleInv
  <2>5. tick' = tick /\ view' = view /\ seen' = seen
    BY <1>7, Zenon DEF Style!IsEditedByHand
  <2> QED
    BY <2>3, <2>4, <2>5, Zenon DEF StyleInv
<1>8. ASSUME NEW t \in Texts, Style!EditsDraft(t)
      PROVE  StyleInv'
  <2>1. net' = net /\ UNCHANGED <<file, view, tick, seen>>
    BY <1>8, Zenon DEF Style!EditsDraft, Style!Quiet
  <2> QED
    BY <2>1, StyleAnswers DEF StyleInv
<1>9. CASE UNCHANGED styleVars
  <2>1. net' = net /\ UNCHANGED <<file, view, tick, seen>>
    BY <1>9, Zenon DEF styleVars
  <2> QED
    BY <2>1, StyleAnswers DEF StyleInv
<1> QED
  BY <1>1, <1>2, <1>3, <1>4, <1>5, <1>6, <1>7, <1>8, <1>9, Zenon DEF Style!Next

\* Who is about to replace the file replaces what was seen.
LEMMA SavesSeen == StyleInv => \A q \in net : q.is = "publishing" => file = q.seen.text \/ q.raced
BY DEF StyleInv, Replaces

-----------------------------------------------------------------------------
(* Both, one of which moves *)

BothInv == DocumentsInv /\ StyleInv

LEMMA BothInit == MCInit => BothInv
BY DocumentsInit, StyleInit, Zenon DEF MCInit, BothInv

BothNext == [MCNext]_<<part, caseVars, styleVars, faults>>

\* A step of the style profile may count a fault, which no document depends on.
LEMMA CasesStay == BothInv /\ BothNext => [WorkspaceNext]_applications \/ UNCHANGED caseVars
BY Zenon DEF BothNext, MCNext, caseVars, applications, past

LEMMA StyleStays == BothNext => [Style!Next]_styleVars
BY Zenon DEF BothNext, MCNext

LEMMA BothStep == BothInv /\ BothNext => BothInv'
<1> SUFFICES ASSUME BothInv, BothNext
             PROVE  BothInv'
  OBVIOUS
<1>1. ASSUME UNCHANGED caseVars PROVE DocumentsInv'
  BY <1>1, QuietStep DEF BothInv, caseVars
<1>2. ASSUME [WorkspaceNext]_applications PROVE DocumentsInv'
  BY <1>2, DocumentsStep, Zenon DEF BothInv
<1>3. DocumentsInv'
  BY <1>1, <1>2, CasesStay, Zenon
<1> QED
  BY <1>3, StyleStays, StyleStep, Zenon DEF BothInv

\* What was used stays as it was sent, and a style profile replaces no other than the one its
\* user ticked, whatever saves and edits by hand overlap (artifact-revisions.ts,
\* style-profile.ts).
THEOREM ReplacesOnlySeenHolds == MCSpec => ReplacesOnlySeen
<1>1. BothInv /\ BothNext =>
        [\A d \in Documents : documents[d].life = "used" => documents'[d].life \in {"used", "gone"}]_applications
  <2> SUFFICES ASSUME BothInv, BothNext, NEW d \in Documents, documents[d].life = "used"
               PROVE  documents'[d].life \in {"used", "gone"}
    OBVIOUS
  <2>1. CASE UNCHANGED caseVars
    BY <2>1 DEF caseVars, workspace
  <2>2. CASE [WorkspaceNext]_applications
    BY <2>2, UsedStep DEF BothInv
  <2> QED
    BY <2>1, <2>2, CasesStay
<1>2. BothInv =>
        [\A q \in net : q.is = "publishing" /\ file' # file /\ (\E x \in net' : x.is = "renamed" /\ x.text = q.text) =>
           file = q.seen.text \/ q.raced]_(Style!vars)
  BY SavesSeen DEF BothInv
<1> QED
  BY BothInit, BothStep, <1>1, <1>2, PTL DEF MCSpec, BothNext, ReplacesOnlySeen, UsedIsFinal, Style!SavesOverSeen

=============================================================================
