------------------------ MODULE Idempotency_proofs ------------------------
(***************************************************************************)
(* Proofs about what is done once under a key: RunAdmission and            *)
(* DomainCommands, for any number of requests, calls, keys and proposals.  *)
(*                                                                         *)
(* That a key leads to one run rests on its claim: from Claims to          *)
(* CompletesClaim or AbandonsClaim the claim on disk names the request     *)
(* that works under it, so no other comes as far, and a request that may   *)
(* still find the claim free has seen that the store has no run of the     *)
(* key.  Only a completion that cannot be written breaks this: then the    *)
(* claim is given up though its run exists.                                *)
(*                                                                         *)
(* That a command was approved rests on its record: a key gets its command *)
(* from an approved confirmation and never another one, so that whoever    *)
(* has had the lease of the key carries that command, also after the lease *)
(* has gone to another call.                                               *)
(***************************************************************************)
EXTENDS RunAdmission, DomainCommands, FiniteSetTheorems, TLAPS

NoKey == "none"

Run == [id : Nat, key : RunKeys \cup {NoKey}, body : Bodies \cup {"node"}, active : BOOLEAN]
RunFor(k, b) == {r \in Run : r.key = k /\ r.body = b}

\* What is kept of a key, and what a request carries: a run in it is its own.
Known(k) ==
    {NoEntry} \cup [is : {"pending"}, body : Bodies, owner : RunPosts]
    \cup {e \in [is : {"run"}, body : Bodies, run : Run] : e.run \in RunFor(k, e.body)}
Claimed(k) ==
    {NoEntry} \cup [is : {"pending"}, body : Bodies, lease : RunPosts]
    \cup {e \in [is : {"completed"}, body : Bodies, run : Run] : e.run \in RunFor(k, e.body)}

Plain == [at : {"list", "look", "claim", "enqueue", "abandon"}, key : RunKeys, body : Bodies]
Waiting == [at : {"await"}, key : RunKeys, body : Bodies, owner : RunPosts]
Holding ==
    {h \in [at : {"get", "created", "complete", "abandon", "answered"}, key : RunKeys,
            body : Bodies, run : Run] : h.run \in RunFor(h.key, h.body)}
Request == {AtRest} \cup Plain \cup Waiting \cup Holding

RunsOK ==
    /\ stop \in {"off", "enabled", "done", "unfinished"}
    /\ recent = [k \in RunKeys |-> recent[k]] /\ \A k \in RunKeys : recent[k] \in Known(k)
    /\ claims = [k \in RunKeys |-> claims[k]] /\ \A k \in RunKeys : claims[k] \in Claimed(k)
    /\ runs \subseteq Run /\ IsFiniteSet(runs)
    /\ requests \in [RunPosts -> Request]
    /\ sweep \in [at : {"idle", "memory", "claims"}, gone : SUBSET Run] /\ IsFiniteSet(sweep.gone)
    /\ lapsed \subseteq RunKeys
    /\ mishaps \in Nat

In(q, k, places) == requests[q].at \in places /\ requests[q].key = k

\* The claim names who works under it.
Working == {"enqueue", "created", "complete", "abandon"}
ClaimHeld ==
    \A q \in RunPosts : requests[q].at \in Working =>
        claims[requests[q].key] = [is |-> "pending", body |-> requests[q].body, lease |-> q]

\* Whoever is waited for, in recent or by a request, is at work on the same.
Promising(q, k, b) == In(q, k, {"enqueue", "created"}) /\ requests[q].body = b
PromisesKept ==
    /\ \A k \in RunKeys : recent[k].is = "pending" =>
         Promising(recent[k].owner, k, recent[k].body)
    /\ \A q \in RunPosts : requests[q].at = "await" =>
         Promising(requests[q].owner, requests[q].key, requests[q].body)

SameRun(s, r) == s.id = r.id /\ s.key = r.key /\ s.body = r.body
OnlyRun(k, r) == \A s \in RunsOf(k) : SameRun(s, r)
OneRun(k) == \A s, t \in RunsOf(k) : s = t

KeyInv(k) ==
    /\ OneRun(k)
    /\ claims[k].is = "completed" => OnlyRun(k, claims[k].run)
    /\ \A q \in RunPosts :
         /\ In(q, k, {"enqueue", "abandon"}) => RunsOf(k) = {}
         /\ In(q, k, {"created", "complete"}) => OnlyRun(k, requests[q].run)
         /\ In(q, k, {"look", "get", "claim"}) /\ claims[k].is = "none" => RunsOf(k) = {}

AdmissionInv ==
    /\ RunsOK
    /\ ClaimHeld
    /\ PromisesKept
    /\ \A k \in RunKeys \ lapsed : KeyInv(k)

-----------------------------------------------------------------------------
(* What moves *)

LEMMA PlainShape ==
    ASSUME NEW r \in Request, r.at \in {"list", "look", "claim", "enqueue"}
    PROVE  /\ r \in Plain
           /\ \A place : [r EXCEPT !.at = place] = [at |-> place, key |-> r.key, body |-> r.body]
BY DEF Request, AtRest, Plain, Waiting, Holding

LEMMA HoldingShape ==
    ASSUME NEW r \in Request, r.at \in {"get", "created", "complete", "answered"}
    PROVE  /\ r \in Holding
           /\ \A place : [r EXCEPT !.at = place]
                           = [at |-> place, key |-> r.key, body |-> r.body, run |-> r.run]
BY DEF Request, AtRest, Plain, Waiting, Holding

LEMMA OneMoves ==
    ASSUME RunsOK, NEW q \in RunPosts, NEW r \in Request, Becomes(q, r)
    PROVE  /\ requests' \in [RunPosts -> Request]
           /\ requests'[q] = r
           /\ \A p \in RunPosts \ {q} : requests'[p] = requests[p]
BY DEF RunsOK, Becomes

LEMMA EntryShape ==
    ASSUME RunsOK, NEW k \in RunKeys
    PROVE  /\ recent[k].is \in {"none", "pending", "run"}
           /\ claims[k].is \in {"none", "pending", "completed"}
           /\ recent[k].is = "pending" => recent[k].body \in Bodies /\ recent[k].owner \in RunPosts
           /\ recent[k].is = "run" => recent[k].body \in Bodies /\ recent[k].run \in RunFor(k, recent[k].body)
           /\ claims[k].is = "completed" =>
                claims[k].body \in Bodies /\ claims[k].run \in RunFor(k, claims[k].body)
           /\ NoEntry.is = "none" /\ NoEntry \in Known(k) /\ NoEntry \in Claimed(k)
BY DEF RunsOK, Known, Claimed, NoEntry

LEMMA WaitingShape ==
    ASSUME NEW r \in Request, r.at = "await"
    PROVE  r \in Waiting
BY DEF Request, AtRest, Plain, Waiting, Holding

LEMMA HeldClaim ==
    ASSUME ClaimHeld, NEW q \in RunPosts, requests[q].at \in Working
    PROVE  /\ claims[requests[q].key].is = "pending"
           /\ claims[requests[q].key].lease = q
<1>. DEFINE c == [is |-> "pending", body |-> requests[q].body, lease |-> q]
<1>1. claims[requests[q].key] = c
    BY DEF ClaimHeld
<1>2. c.is = "pending" /\ c.lease = q
    OBVIOUS
<1>. HIDE DEF c
<1>. QED  BY <1>1, <1>2

\* Entries of recent may go at any time.
Forgets ==
    /\ recent' = [k \in RunKeys |-> recent'[k]]
    /\ \A k \in RunKeys : recent'[k] \in {recent[k], NoEntry}

\* A request moves that does no work under a claim.
LEMMA CalmStep ==
    ASSUME AdmissionInv, NEW q \in RunPosts, NEW r \in Request, Becomes(q, r),
           requests[q].at \notin Working, r.at \notin Working,
           r.at = "await" => Promising(r.owner, r.key, r.body),
           r.at \in {"look", "get", "claim"} =>
             \/ RunsOf(r.key) = {}
             \/ In(q, r.key, {"look", "get", "claim"}),
           Forgets, mishaps' \in Nat, UNCHANGED <<stop, claims, runs, sweep, lapsed>>
    PROVE  AdmissionInv'
<1> USE OneMoves DEF AdmissionInv
<1>1. RunsOK'
  <2>1. \A k \in RunKeys : NoEntry \in Known(k)
    BY DEF Known
  <2>2. \A k \in RunKeys : recent'[k] \in Known(k)
    BY <2>1 DEF Forgets, RunsOK
  <2>. QED  BY <2>2 DEF RunsOK, Forgets
<1>2. ClaimHeld'
    BY DEF ClaimHeld
<1>3. ASSUME NEW p \in RunPosts, NEW k \in RunKeys, NEW b \in Bodies, Promising(p, k, b)
      PROVE  p # q /\ requests'[p] = requests[p]
    BY <1>3 DEF Promising, In, Working
<1>4. PromisesKept'
  <2>1. ASSUME NEW k \in RunKeys, recent'[k].is = "pending"
        PROVE  /\ recent'[k] = recent[k]
               /\ requests'[recent[k].owner] = requests[recent[k].owner]
               /\ Promising(recent[k].owner, k, recent[k].body)
    <3>1. recent'[k] = recent[k]
      BY <2>1, EntryShape DEF Forgets
    <3>. QED  BY <2>1, <3>1, <1>3, EntryShape DEF PromisesKept
  <2>2. ASSUME NEW p \in RunPosts, requests'[p].at = "await"
        PROVE  /\ Promising(requests'[p].owner, requests'[p].key, requests'[p].body)
               /\ requests'[requests'[p].owner] = requests[requests'[p].owner]
    <3>1. requests'[p] \in Waiting
      BY <2>2, WaitingShape
    <3>2. Promising(requests'[p].owner, requests'[p].key, requests'[p].body)
      BY <2>2 DEF PromisesKept
    <3>. QED  BY <3>1, <3>2, <1>3 DEF Waiting
  <2>. QED  BY <2>1, <2>2 DEF PromisesKept, Promising, In
<1>5. \A k \in RunKeys \ lapsed : KeyInv(k)'
    BY DEF KeyInv, In, OneRun, OnlyRun, RunsOf, SameRun, Working
<1>. QED  BY <1>1, <1>2, <1>4, <1>5

-----------------------------------------------------------------------------
(* Steps of no request *)

\* No key has another run than it had, nor more of them than one.
RunsKept ==
    \A k \in RunKeys : /\ \A s \in RunsOf(k)' : \E t \in RunsOf(k) : SameRun(s, t)
                       /\ OneRun(k) => OneRun(k)'

\* A claim nobody needs: no request has its key, or its run is gone.
Superfluous(k) ==
    \/ \A q \in RunPosts : requests[q].at # "idle" => requests[q].key # k
    \/ /\ claims[k].is = "completed"
       /\ (k \in lapsed \/ RunsOf(k) = {})

LEMMA QuietStep ==
    ASSUME AdmissionInv, RunsOK', UNCHANGED <<requests, lapsed>>, Forgets, RunsKept,
           \A k \in RunKeys : claims'[k] = claims[k] \/ (claims'[k] = NoEntry /\ Superfluous(k))
    PROVE  AdmissionInv'
<1> USE DEF AdmissionInv
<1>1. \A q \in RunPosts : requests[q].at # "idle" =>
          /\ requests[q].key \in RunKeys
          /\ requests[q].at = "await" => requests[q].owner \in RunPosts
    BY DEF RunsOK, Request, AtRest, Plain, Waiting, Holding
<1>2. ClaimHeld'
  <2> SUFFICES ASSUME NEW q \in RunPosts, requests[q].at \in Working
               PROVE  claims'[requests[q].key] = claims[requests[q].key]
    BY DEF ClaimHeld
  <2>1. requests[q].at # "idle" /\ requests[q].key \in RunKeys
    BY <1>1 DEF Working
  <2>2. claims[requests[q].key].is = "pending"
    BY HeldClaim
  <2>. QED  BY <2>1, <2>2 DEF Superfluous
<1>3. PromisesKept'
  <2>1. \A k \in RunKeys : recent'[k].is = "pending" => recent'[k] = recent[k]
    BY EntryShape DEF Forgets
  <2>. QED  BY <2>1 DEF PromisesKept, Promising, In
<1>4. ASSUME NEW k \in RunKeys \ lapsed
      PROVE  KeyInv(k)'
  <2>1. KeyInv(k) /\ OneRun(k)' /\ \A s \in RunsOf(k)' : \E t \in RunsOf(k) : SameRun(s, t)
    BY DEF RunsKept, KeyInv
  <2>2. RunsOf(k) = {} => RunsOf(k)' = {}
    BY <2>1
  <2>3. \A r : OnlyRun(k, r) => \A s \in RunsOf(k)' : SameRun(s, r)
    BY <2>1 DEF OnlyRun, SameRun
  <2>4. claims'[k].is = "completed" => claims'[k] = claims[k]
    BY EntryShape
  <2>5. claims'[k].is = "completed" => \A s \in RunsOf(k)' : SameRun(s, claims'[k].run)
    BY <2>1, <2>3, <2>4 DEF KeyInv, OnlyRun
  <2>6. ASSUME NEW q \in RunPosts
        PROVE  /\ In(q, k, {"enqueue", "abandon"}) => RunsOf(k)' = {}
               /\ In(q, k, {"created", "complete"}) => \A s \in RunsOf(k)' : SameRun(s, requests[q].run)
               /\ In(q, k, {"look", "get", "claim"}) /\ claims'[k].is = "none" => RunsOf(k)' = {}
    <3>1. In(q, k, {"look", "get", "claim"}) /\ claims'[k] # claims[k] => RunsOf(k)' = {}
      BY <2>2 DEF Superfluous, In
    <3>. QED  BY <2>1, <2>2, <2>3, <3>1 DEF KeyInv
  <2>. QED  BY <2>1, <2>5, <2>6 DEF KeyInv, In, OnlyRun
<1>. QED  BY <1>2, <1>3, <1>4

LEMMA GoneMeans ==
    ASSUME RunsOK, NEW r \in Run
    PROVE  Gone(r) <=> \A s \in runs : ~SameRun(s, r)
BY DEF RunsOK, Gone, SameRun, Run

\* Ending runs.
LEMMA EndedRuns ==
    ASSUME RunsOK, runs' = {[r EXCEPT !.active = FALSE] : r \in runs}
    PROVE  runs' \subseteq Run /\ IsFiniteSet(runs') /\ RunsKept
<1>1. \A r \in runs : /\ [r EXCEPT !.active = FALSE] \in Run
                      /\ SameRun([r EXCEPT !.active = FALSE], r)
    BY DEF RunsOK, Run, SameRun
<1>2. IsFiniteSet(runs')
  <2>. DEFINE ended == [r \in runs |-> [r EXCEPT !.active = FALSE]]
  <2>1. ended \in Surjection(runs, runs')
    BY DEF Surjection
  <2>. QED  BY <2>1, FS_Surjection DEF RunsOK
<1>3. \A k \in RunKeys : \A s \in RunsOf(k)' : \E t \in RunsOf(k) :
          SameRun(s, t) /\ s = [t EXCEPT !.active = FALSE]
    BY <1>1 DEF RunsOf, SameRun
<1>. QED  BY <1>1, <1>2, <1>3 DEF RunsKept, OneRun

LEMMA RunEndsStep ==
    ASSUME AdmissionInv, NEW r \in runs, RunEndsItself(r)
    PROVE  AdmissionInv'
<1> USE DEF AdmissionInv
<1>1. /\ [r EXCEPT !.active = FALSE] \in Run
      /\ SameRun([r EXCEPT !.active = FALSE], r)
    BY DEF RunsOK, Run, SameRun
<1>2. runs' = (runs \ {r}) \cup {[r EXCEPT !.active = FALSE]}
    BY DEF RunEndsItself
<1>3. IsFiniteSet(runs')
    BY <1>2, FS_RemoveElement, FS_AddElement DEF RunsOK
<1>4. RunsKept
    BY <1>1, <1>2 DEF RunsKept, OneRun, RunsOf, SameRun
<1>5. RunsOK' /\ Forgets
    BY <1>1, <1>2, <1>3 DEF RunsOK, RunEndsItself, Forgets
<1>. QED  BY <1>4, <1>5, QuietStep DEF RunEndsItself

LEMMA SameRuns == UNCHANGED runs => RunsKept
BY DEF RunsKept, OneRun, RunsOf, SameRun

LEMMA ExpiryStep ==
    ASSUME AdmissionInv, NEW k \in RunKeys, EntryExpires(k) \/ ClaimExpires(k)
    PROVE  AdmissionInv'
<1> USE DEF AdmissionInv
<1>1. RunsKept
    BY SameRuns DEF EntryExpires, ClaimExpires
<1>2. RunsOK' /\ Forgets
    BY EntryShape DEF RunsOK, EntryExpires, ClaimExpires, Forgets
<1>3. \A j \in RunKeys : claims'[j] = claims[j] \/ (claims'[j] = NoEntry /\ Superfluous(j))
    BY DEF EntryExpires, ClaimExpires, Superfluous, Stands, RunsOK
<1>. QED  BY <1>1, <1>2, <1>3, QuietStep DEF EntryExpires, ClaimExpires

LEMMA SweepStep ==
    ASSUME AdmissionInv, (\E gone \in SUBSET runs : DeletesRuns(gone)) \/ ForgetsRuns \/ DeletesClaims
    PROVE  AdmissionInv'
<1> USE DEF AdmissionInv
<1>1. CASE \E gone \in SUBSET runs : DeletesRuns(gone)
  <2>1. PICK gone \in SUBSET runs : DeletesRuns(gone)
    BY <1>1
  <2>2. IsFiniteSet(gone) /\ IsFiniteSet(runs \ gone)
    BY FS_Subset DEF RunsOK
  <2>3. IsFiniteSet(sweep.gone \cup gone)
    BY <2>2, FS_Union DEF RunsOK
  <2>4. RunsOK' /\ Forgets
    BY <2>1, <2>2, <2>3 DEF RunsOK, DeletesRuns, Forgets
  <2>5. RunsKept
    BY <2>1 DEF DeletesRuns, RunsKept, OneRun, RunsOf, SameRun
  <2>. QED  BY <2>1, <2>4, <2>5, QuietStep DEF DeletesRuns
<1>2. CASE ForgetsRuns
  <2>1. RunsKept
    BY <1>2, SameRuns DEF ForgetsRuns
  <2>2. RunsOK' /\ Forgets
    BY <1>2, EntryShape DEF RunsOK, ForgetsRuns, Forgets
  <2>. QED  BY <1>2, <2>1, <2>2, QuietStep DEF ForgetsRuns
<1>3. CASE DeletesClaims
  <2>1. RunsKept
    BY <1>3, SameRuns DEF DeletesClaims
  <2>2. RunsOK' /\ Forgets
    BY <1>3, EntryShape DEF RunsOK, DeletesClaims, Forgets
  <2>3. ASSUME NEW k \in RunKeys, OfDeleted(claims[k])
        PROVE  Superfluous(k)
    <3>1. claims[k].is = "completed" /\ claims[k].run \in Run /\ Gone(claims[k].run)
      BY <2>3, EntryShape DEF OfDeleted, RunFor
    <3>2. \A s \in runs : ~SameRun(s, claims[k].run)
      BY <3>1, GoneMeans
    <3>. QED  BY <3>1, <3>2 DEF Superfluous, KeyInv, OnlyRun, RunsOf
  <2>. QED  BY <1>3, <2>1, <2>2, <2>3, QuietStep DEF DeletesClaims
<1>. QED  BY <1>1, <1>2, <1>3

\* The stop, and runs that no request has asked for.
LEMMA StopStep ==
    ASSUME AdmissionInv, Stops \/ CancelsRuns \/ Releases \/ Continues
    PROVE  AdmissionInv'
<1> USE DEF AdmissionInv
<1>1. CASE Stops \/ Releases
  <2>1. RunsKept
    BY <1>1, SameRuns DEF Stops, Releases
  <2>2. RunsOK' /\ Forgets
    BY <1>1 DEF RunsOK, Stops, Releases, Goof, Forgets
  <2>. QED  BY <1>1, <2>1, <2>2, QuietStep DEF Stops, Releases
<1>2. CASE CancelsRuns
  <2>1. runs' \subseteq Run /\ IsFiniteSet(runs') /\ RunsKept
    BY <1>2, EndedRuns DEF CancelsRuns
  <2>2. RunsOK' /\ Forgets
    BY <1>2, <2>1 DEF RunsOK, CancelsRuns, Forgets
  <2>. QED  BY <1>2, <2>1, <2>2, QuietStep DEF CancelsRuns
<1>3. CASE Continues
  <2>1. Cardinality(runs) \in Nat /\ Cardinality(sweep.gone) \in Nat
    BY FS_CardinalityType DEF RunsOK
  <2>2. NewRun(NoKey, "node") \in Run /\ NewRun(NoKey, "node").key = NoKey
    BY <2>1 DEF NewRun, Run, NoKey
  <2>3. runs' = runs \cup {NewRun(NoKey, "node")} /\ IsFiniteSet(runs')
    BY <1>3, FS_AddElement DEF Continues, RunsOK, NoKey
  <2>4. \A k \in RunKeys : RunsOf(k)' = RunsOf(k)
    BY <2>2, <2>3, AdmissionAssumption DEF RunsOf, NoKey
  <2>5. RunsKept
    BY <2>4 DEF RunsKept, OneRun, SameRun
  <2>6. RunsOK' /\ Forgets
    BY <1>3, <2>2, <2>3 DEF RunsOK, Continues, Forgets
  <2>. QED  BY <1>3, <2>5, <2>6, QuietStep DEF Continues
<1>. QED  BY <1>1, <1>2, <1>3

-----------------------------------------------------------------------------
(* Steps of a request that holds no claim *)

LEMMA LooksStep ==
    ASSUME AdmissionInv, NEW q \in RunPosts,
           \/ \E k \in RunKeys, b \in Bodies : Post(q, k, b)
           \/ LooksForRun(q)
           \/ Replies(q)
    PROVE  AdmissionInv'
<1> USE DEF AdmissionInv
<1>0. AtRest \in Request /\ AtRest.at = "idle"
    BY DEF Request, AtRest
<1>1. ASSUME NEW k \in RunKeys, NEW b \in Bodies, Post(q, k, b)
      PROVE  AdmissionInv'
  <2>. DEFINE r == [at |-> "list", key |-> k, body |-> b]
  <2>1. r \in Request /\ r.at = "list"
    BY DEF Request, Plain
  <2>2. Becomes(q, r) /\ requests[q].at \notin Working /\ Forgets /\ mishaps' \in Nat
    BY <1>1 DEF Post, Stands, Working, Forgets, RunsOK
  <2>. QED  BY <1>1, <2>1, <2>2, CalmStep DEF Post, Working
<1>2. CASE Replies(q)
  <2>1. Becomes(q, AtRest) /\ requests[q].at \notin Working /\ Forgets /\ mishaps' \in Nat
    BY <1>2 DEF Replies, Refused, Stands, Working, Forgets, RunsOK
  <2>. QED  BY <1>0, <1>2, <2>1, CalmStep DEF Replies, Working
<1>3. CASE LooksForRun(q)
  <2>. DEFINE k == requests[q].key
  <2>1. /\ requests[q].at \notin Working /\ Forgets /\ mishaps' \in Nat
        /\ requests[q] \in Plain /\ k \in RunKeys
        /\ UNCHANGED <<stop, claims, runs, sweep, lapsed>>
    BY <1>3, PlainShape DEF LooksForRun, Stands, Working, Forgets, RunsOK, Plain
  <2>2. CASE RunsOf(k) = {} /\ MovesTo(q, "look")
    <3>. DEFINE r == [at |-> "look", key |-> k, body |-> requests[q].body]
    <3>1. r \in Request /\ r.at = "look" /\ r.key = k
      BY <2>1 DEF Request, Plain
    <3>2. Becomes(q, r)
      BY <1>3, <2>2, PlainShape DEF LooksForRun, Stands, MovesTo, RunsOK
    <3>. QED  BY <2>1, <2>2, <3>1, <3>2, CalmStep DEF Working
  <2>3. ASSUME NEW s \in RunsOf(k), s.body = requests[q].body, Becomes(q, Answered(q, s))
        PROVE  AdmissionInv'
    <3>1. Answered(q, s) \in Request /\ Answered(q, s).at = "answered"
      BY <2>1, <2>3 DEF Answered, Request, Holding, Plain, RunsOf, RunFor, RunsOK
    <3>. QED  BY <2>1, <2>3, <3>1, CalmStep DEF Working
  <2>4. CASE Refused(q)
    BY <1>0, <2>1, <2>4, CalmStep DEF Refused, Working
  <2>. QED  BY <1>3, <2>2, <2>3, <2>4 DEF LooksForRun
<1>. QED  BY <1>1, <1>2, <1>3

LEMMA MemoryStep ==
    ASSUME AdmissionInv, NEW q \in RunPosts, LooksInMemory(q)
    PROVE  AdmissionInv'
<1> USE DEF AdmissionInv
<1>0. AtRest \in Request /\ AtRest.at = "idle"
    BY DEF Request, AtRest
<1>. DEFINE k == requests[q].key
            entry == recent[k]
<1>1. /\ requests[q].at = "look" /\ Forgets /\ mishaps' \in Nat
      /\ requests[q] \in Plain /\ k \in RunKeys /\ requests[q].body \in Bodies
      /\ UNCHANGED <<stop, claims, runs, sweep, lapsed>>
    BY PlainShape DEF LooksInMemory, Stands, Forgets, RunsOK, Plain
<1>2. requests[q].at \notin Working /\ In(q, k, {"look", "get", "claim"})
    BY <1>1 DEF Working, In
<1>3. entry.is \in {"none", "pending", "run"}
    BY <1>1, EntryShape
<1>4. CASE entry.is = "none"
  <2>. DEFINE r == [at |-> "claim", key |-> k, body |-> requests[q].body]
  <2>1. r \in Request /\ r.at = "claim" /\ r.key = k
    BY <1>1 DEF Request, Plain
  <2>2. MovesTo(q, "claim")
    BY <1>4 DEF LooksInMemory
  <2>3. Becomes(q, r)
    BY <1>1, <2>2, PlainShape DEF MovesTo, RunsOK
  <2>. QED  BY <1>1, <1>2, <2>1, <2>3, CalmStep DEF Working
<1>5. CASE entry.is # "none" /\ ~SameBody(q, entry)
  <2>1. Refused(q)
    BY <1>3, <1>5 DEF LooksInMemory
  <2>. QED  BY <1>0, <1>1, <1>2, <2>1, CalmStep DEF Refused, Working
<1>6. CASE entry.is = "pending" /\ SameBody(q, entry)
  <2>. DEFINE r == [at |-> "await", key |-> k, body |-> requests[q].body, owner |-> entry.owner]
  <2>1. r \in Request /\ r.at = "await" /\ Promising(r.owner, r.key, r.body)
    BY <1>1, <1>6, EntryShape DEF Request, Waiting, SameBody, PromisesKept
  <2>2. Becomes(q, r)
    BY <1>6 DEF LooksInMemory
  <2>. QED  BY <1>1, <1>2, <2>1, <2>2, CalmStep DEF Working
<1>7. CASE entry.is = "run" /\ SameBody(q, entry)
  <2>. DEFINE r == [at |-> "get", key |-> k, body |-> requests[q].body, run |-> entry.run]
  <2>1. r \in Request /\ r.at = "get" /\ r.key = k
    BY <1>1, <1>7, EntryShape DEF Request, Holding, SameBody, RunFor
  <2>2. Becomes(q, r)
    BY <1>7 DEF LooksInMemory
  <2>. QED  BY <1>1, <1>2, <2>1, <2>2, CalmStep DEF Working
<1>. QED  BY <1>3, <1>4, <1>5, <1>6, <1>7

LEMMA GetStep ==
    ASSUME AdmissionInv, NEW q \in RunPosts, GetsRun(q)
    PROVE  AdmissionInv'
<1> USE DEF AdmissionInv
<1>. DEFINE k == requests[q].key
<1>1. /\ requests[q].at = "get" /\ mishaps' \in Nat
      /\ requests[q] \in Holding /\ k \in RunKeys
      /\ UNCHANGED <<stop, claims, runs, sweep, lapsed>>
    BY HoldingShape DEF GetsRun, Stands, RunsOK, Holding
<1>2. requests[q].at \notin Working /\ In(q, k, {"look", "get", "claim"})
    BY <1>1 DEF Working, In
<1>3. Forgets
    BY <1>1 DEF GetsRun, Forgets, RunsOK
<1>4. CASE Gone(requests[q].run)
  <2>. DEFINE r == [at |-> "claim", key |-> k, body |-> requests[q].body]
  <2>1. r \in Request /\ r.at = "claim" /\ r.key = k
    BY <1>1 DEF Request, Plain, Holding
  <2>2. Becomes(q, r)
    BY <1>4 DEF GetsRun
  <2>. QED  BY <1>1, <1>2, <1>3, <2>1, <2>2, CalmStep DEF Working
<1>5. CASE ~Gone(requests[q].run)
  <2>. DEFINE r == Answered(q, requests[q].run)
  <2>1. r \in Request /\ r.at = "answered"
    BY <1>1 DEF Request, Holding, Answered
  <2>2. Becomes(q, r)
    BY <1>5 DEF GetsRun
  <2>. QED  BY <1>1, <1>2, <1>3, <2>1, <2>2, CalmStep DEF Working
<1>. QED  BY <1>4, <1>5

-----------------------------------------------------------------------------
(* Steps of a request that works under its claim *)

LEMMA ClaimsStep ==
    ASSUME AdmissionInv, NEW q \in RunPosts, Claims(q)
    PROVE  AdmissionInv'
<1> USE DEF AdmissionInv
<1>0. AtRest \in Request /\ AtRest.at = "idle"
    BY DEF Request, AtRest
<1>. DEFINE k == requests[q].key
            claim == claims[k]
            entry == recent[k]
<1>1. /\ requests[q].at = "claim"
      /\ requests[q] \in Plain /\ k \in RunKeys /\ requests[q].body \in Bodies
      /\ UNCHANGED <<stop, runs, sweep, lapsed>>
    BY PlainShape DEF Claims, Stands, RunsOK, Plain
<1>2. requests[q].at \notin Working /\ In(q, k, {"look", "get", "claim"})
    BY <1>1 DEF Working, In
<1>3. ASSUME UNCHANGED <<claims, recent>>, mishaps' \in Nat, NEW r \in Request, Becomes(q, r),
             \/ r.at \in {"idle", "answered"}
             \/ r.at = "await" /\ Promising(r.owner, r.key, r.body)
      PROVE  AdmissionInv'
  <2>1. Forgets
    BY <1>3 DEF Forgets, RunsOK
  <2>. QED  BY <1>1, <1>2, <1>3, <2>1, CalmStep DEF Working
<1>4. CASE Goof /\ Refused(q) /\ UNCHANGED <<claims, recent>>
    BY <1>0, <1>3, <1>4 DEF Goof, Refused, RunsOK
<1>5. CASE ~MayClaim(claim) /\ UNCHANGED <<claims, recent, mishaps>>
  <2>0. mishaps' \in Nat
    BY <1>5 DEF RunsOK
  <2>1. claim.is \in {"pending", "completed"} /\ claims'[k] = claims[k]
    BY <1>1, <1>5, EntryShape DEF MayClaim
  <2>2. CASE Refused(q)
    BY <1>0, <1>3, <1>5, <2>0, <2>2 DEF Refused
  <2>3. CASE SameBody(q, claim) /\ claim.is = "completed" /\ Becomes(q, Answered(q, claim.run))
    <3>. DEFINE r == Answered(q, claim.run)
    <3>1. r \in Request /\ r.at = "answered"
      BY <1>1, <2>3, EntryShape DEF Answered, SameBody, Request, Holding, RunFor
    <3>. QED  BY <1>3, <1>5, <2>0, <2>3, <3>1
  <2>4. CASE /\ SameBody(q, claim) /\ claim.is = "pending" /\ entry.is = "pending"
             /\ Becomes(q, [at |-> "await", key |-> k, body |-> requests[q].body,
                            owner |-> entry.owner])
    <3>. DEFINE r == [at |-> "await", key |-> k, body |-> requests[q].body, owner |-> entry.owner]
    <3>1. Promising(entry.owner, k, entry.body) /\ entry.owner \in RunPosts
      BY <1>1, <2>4, EntryShape DEF PromisesKept
    <3>2. claim = [is |-> "pending", body |-> entry.body, lease |-> entry.owner]
      BY <3>1 DEF ClaimHeld, Promising, In, Working
    <3>3. r \in Request /\ r.at = "await" /\ Promising(r.owner, r.key, r.body)
      BY <1>1, <2>4, <3>1, <3>2 DEF Request, Waiting, SameBody
    <3>. QED  BY <1>3, <1>5, <2>0, <2>4, <3>3
  <2>. QED  BY <1>5, <2>1, <2>2, <2>3, <2>4 DEF Claims, MayClaim
<1>6. CASE /\ MayClaim(claim)
           /\ claims' = [claims EXCEPT ![k] = [is |-> "pending", body |-> requests[q].body, lease |-> q]]
           /\ recent' = [recent EXCEPT ![k] = [is |-> "pending", body |-> requests[q].body, owner |-> q]]
           /\ MovesTo(q, "enqueue") /\ UNCHANGED mishaps
  <2>. DEFINE r == [at |-> "enqueue", key |-> k, body |-> requests[q].body]
  <2>1. r \in Request /\ Becomes(q, r)
    BY <1>1, <1>6, PlainShape DEF Request, Plain, MovesTo, RunsOK
  <2>2. /\ requests' \in [RunPosts -> Request] /\ requests'[q] = r
        /\ \A p \in RunPosts \ {q} : requests'[p] = requests[p]
    BY <2>1, OneMoves
  <2>3. /\ claims'[k] = [is |-> "pending", body |-> requests[q].body, lease |-> q]
        /\ recent'[k] = [is |-> "pending", body |-> requests[q].body, owner |-> q]
        /\ \A j \in RunKeys \ {k} : claims'[j] = claims[j] /\ recent'[j] = recent[j]
    BY <1>1, <1>6 DEF RunsOK
  <2>4. RunsOK'
    <3>1. recent'[k] \in Known(k) /\ claims'[k] \in Claimed(k)
      BY <1>1, <2>3 DEF Known, Claimed
    <3>. QED  BY <1>1, <1>6, <2>2, <2>3, <3>1 DEF RunsOK
  <2>5. \A p \in RunPosts : requests[p].at \in Working => requests[p].key # k
    BY <1>6, HeldClaim DEF MayClaim
  <2>6. ClaimHeld'
    <3> SUFFICES ASSUME NEW p \in RunPosts, requests'[p].at \in Working
                 PROVE  claims'[requests'[p].key]
                          = [is |-> "pending", body |-> requests'[p].body, lease |-> p]
      BY DEF ClaimHeld
    <3>1. CASE p = q
      BY <2>2, <2>3, <3>1
    <3>2. CASE p # q
      <4>1. requests[p].key \in RunKeys
        BY <2>2, <3>2 DEF RunsOK, Request, AtRest, Plain, Waiting, Holding, Working
      <4>. QED  BY <2>2, <2>3, <2>5, <3>2, <4>1 DEF ClaimHeld
    <3>. QED  BY <3>1, <3>2
  <2>7. \A p \in RunPosts, j \in RunKeys : \A b \in Bodies :
           Promising(p, j, b) => p # q /\ requests'[p] = requests[p]
    BY <1>1, <2>2 DEF Promising, In
  <2>8. PromisesKept'
    <3>1. \A j \in RunKeys \ {k} : recent'[j].is = "pending" =>
            /\ recent'[j] = recent[j]
            /\ requests'[recent[j].owner] = requests[recent[j].owner]
            /\ Promising(recent[j].owner, j, recent[j].body)
      BY <2>3, <2>7, EntryShape DEF PromisesKept
    <3>2. \A p \in RunPosts : requests'[p].at = "await" =>
            /\ requests'[p] = requests[p]
            /\ Promising(requests[p].owner, requests[p].key, requests[p].body)
            /\ requests'[requests[p].owner] = requests[requests[p].owner]
      BY <2>2, <2>7, WaitingShape DEF PromisesKept, RunsOK, Waiting
    <3>3. requests'[q].at = "enqueue" /\ requests'[q].key = k /\ requests'[q].body = requests[q].body
      BY <2>2
    <3>. QED  BY <2>3, <3>1, <3>2, <3>3 DEF PromisesKept, Promising, In
  <2>9. ASSUME NEW j \in RunKeys \ lapsed
        PROVE  KeyInv(j)'
    <3>1. CASE j = k
      <4>1. RunsOf(k) = {} /\ claims'[k].is = "pending"
        BY <1>2, <1>6, <2>3, <3>1 DEF KeyInv, MayClaim
      <4>. QED  BY <1>1, <2>2, <2>5, <3>1, <4>1
                DEF KeyInv, In, OneRun, OnlyRun, RunsOf, Working
    <3>2. CASE j # k
      BY <1>1, <2>2, <2>3, <3>2 DEF KeyInv, In, OneRun, OnlyRun, RunsOf
    <3>. QED  BY <3>1, <3>2
  <2>. QED  BY <1>1, <2>4, <2>6, <2>8, <2>9
<1>. QED  BY <1>4, <1>5, <1>6 DEF Claims

LEMMA WorkShape ==
    ASSUME AdmissionInv, NEW q \in RunPosts, requests[q].at \in Working
    PROVE  /\ requests[q].key \in RunKeys /\ requests[q].body \in Bodies
           /\ requests[q].at = "enqueue" => requests[q] \in Plain
           /\ requests[q].at \in {"created", "complete"} => requests[q] \in Holding
           /\ \A p \in RunPosts \ {q} :
                requests[p].at \in Working => requests[p].key # requests[q].key
<1>1. requests[q] \in Request
    BY DEF AdmissionInv, RunsOK
<1>2. \A p \in RunPosts \ {q} : requests[p].at \in Working => requests[p].key # requests[q].key
    BY HeldClaim DEF AdmissionInv
<1>. QED  BY <1>1, <1>2 DEF Request, AtRest, Plain, Waiting, Holding, Working

\* Other keys than the one under which q works.
LEMMA OtherKeys ==
    ASSUME AdmissionInv, NEW q \in RunPosts, requests[q].at \in Working,
           NEW j \in RunKeys \ lapsed, j # requests[q].key,
           RunsOf(j)' = RunsOf(j), claims'[j] = claims[j],
           requests'[q].at # "idle" => requests'[q].key # j,
           requests'[q].at = "idle" => requests'[q] = AtRest,
           \A p \in RunPosts \ {q} :
             \/ requests'[p] = requests[p]
             \/ requests'[p].at \in {"idle", "answered"}
    PROVE  KeyInv(j)'
<1>1. KeyInv(j)
    BY DEF AdmissionInv
<1>2. OneRun(j)' /\ \A r : (\A s \in RunsOf(j)' : SameRun(s, r)) <=> OnlyRun(j, r)
    BY <1>1 DEF KeyInv, OneRun, OnlyRun
<1>3. ASSUME NEW p \in RunPosts, NEW places, places \subseteq Working \cup {"look", "get", "claim"},
             requests'[p].at \in places, requests'[p].key = j
      PROVE  requests'[p] = requests[p] /\ In(p, j, places)
    BY <1>3 DEF In, Working
<1>4. ASSUME NEW p \in RunPosts
      PROVE  /\ requests'[p].at \in {"enqueue", "abandon"} /\ requests'[p].key = j
                  => RunsOf(j)' = {}
             /\ requests'[p].at \in {"created", "complete"} /\ requests'[p].key = j
                  => \A s \in RunsOf(j)' : SameRun(s, requests'[p].run)
             /\ requests'[p].at \in {"look", "get", "claim"} /\ requests'[p].key = j
                  /\ claims'[j].is = "none" => RunsOf(j)' = {}
  <2>1. {"enqueue", "abandon"} \subseteq Working /\ {"created", "complete"} \subseteq Working
    BY DEF Working
  <2>. QED  BY <1>1, <1>2, <1>3, <2>1 DEF KeyInv
<1>5. claims'[j].is = "completed" => \A s \in RunsOf(j)' : SameRun(s, claims'[j].run)
    BY <1>1, <1>2 DEF KeyInv
<1>. QED  BY <1>2, <1>4, <1>5 DEF KeyInv, In, OnlyRun

LEMMA EnqueuesStep ==
    ASSUME AdmissionInv, NEW q \in RunPosts, Enqueues(q)
    PROVE  AdmissionInv'
<1> USE DEF AdmissionInv
<1>. DEFINE k == requests[q].key
            b == requests[q].body
<1>1. /\ requests[q].at = "enqueue" /\ requests[q].at \in Working
      /\ UNCHANGED <<stop, claims, sweep, lapsed, mishaps>>
    BY DEF Enqueues, Stands, Working
<1>2. /\ k \in RunKeys /\ b \in Bodies /\ requests[q] \in Plain
      /\ \A p \in RunPosts \ {q} : requests[p].at \in Working => requests[p].key # k
    BY <1>1, WorkShape
<1>3. claims[k] = [is |-> "pending", body |-> b, lease |-> q] /\ claims[k].is = "pending"
    BY <1>1, HeldClaim DEF ClaimHeld
<1>4. k \notin lapsed => RunsOf(k) = {}
    BY <1>1, <1>2 DEF KeyInv, In
<1>5. ASSUME NEW new, new = NewRun(k, b), runs' = runs \cup {new}, UNCHANGED recent,
             Becomes(q, [at |-> "created", key |-> k, body |-> b, run |-> new])
      PROVE  AdmissionInv'
  <2>. DEFINE r == [at |-> "created", key |-> k, body |-> b, run |-> new]
  <2>1. Cardinality(runs) \in Nat /\ Cardinality(sweep.gone) \in Nat
    BY FS_CardinalityType DEF RunsOK
  <2>2. new \in Run /\ new.key = k /\ new.body = b
    BY <1>2, <1>5, <2>1 DEF NewRun, Run
  <2>3. r \in Request
    BY <1>2, <2>2 DEF Request, Holding, RunFor
  <2>4. /\ requests' \in [RunPosts -> Request] /\ requests'[q] = r
        /\ \A p \in RunPosts \ {q} : requests'[p] = requests[p]
    BY <1>5, <2>3, OneMoves
  <2>5. IsFiniteSet(runs')
    BY <1>5, FS_AddElement DEF RunsOK
  <2>6. RunsOK'
    BY <1>1, <1>5, <2>2, <2>4, <2>5 DEF RunsOK
  <2>7. ClaimHeld'
    BY <1>1, <1>3, <2>4 DEF ClaimHeld
  <2>8. \A p \in RunPosts : /\ requests'[p].key = requests[p].key
                            /\ requests'[p].body = requests[p].body
                            /\ requests[p].at \in {"enqueue", "created"} =>
                                 requests'[p].at \in {"enqueue", "created"}
                            /\ requests'[p].at = "await" => requests'[p] = requests[p]
    BY <2>4
  <2>9. PromisesKept'
    <3>1. \A j \in RunKeys : recent[j].is = "pending" => recent[j].owner \in RunPosts
      BY EntryShape
    <3>2. \A p \in RunPosts : requests[p].at = "await" => requests[p].owner \in RunPosts
      BY WaitingShape DEF RunsOK, Waiting
    <3>. QED  BY <1>5, <2>8, <3>1, <3>2 DEF PromisesKept, Promising, In
  <2>10. ASSUME NEW j \in RunKeys \ lapsed
         PROVE  KeyInv(j)'
    <3>1. CASE j = k
      <4>1. RunsOf(j)' = {new}
        BY <1>2, <1>4, <1>5, <2>2, <3>1 DEF RunsOf
      <4>2. claims'[j].is = "pending"
        BY <1>1, <1>3, <3>1
      <4>3. \A p \in RunPosts \ {q} : requests'[p].at \in Working => requests'[p].key # k
        BY <1>2, <2>4
      <4>4. requests'[q].at = "created" /\ requests'[q].run = new
        BY <2>4
      <4>5. OneRun(j)' /\ \A s \in RunsOf(j)' : SameRun(s, new)
        BY <4>1 DEF OneRun, SameRun
      <4>6. \A p \in RunPosts : requests'[p].key = j /\ requests'[p].at \in Working => p = q
        BY <3>1, <4>3
      <4>. QED  BY <3>1, <4>2, <4>4, <4>5, <4>6 DEF KeyInv, In, OnlyRun, Working
    <3>2. CASE j # k
      <4>1. RunsOf(j)' = RunsOf(j) /\ requests'[q].key # j /\ requests'[q].at # "idle"
        BY <1>5, <2>2, <2>4, <3>2 DEF RunsOf
      <4>. QED  BY <1>1, <2>4, <3>2, <4>1, OtherKeys
    <3>. QED  BY <3>1, <3>2
  <2>. QED  BY <1>1, <2>6, <2>7, <2>9, <2>10
<1>6. ASSUME recent' = [recent EXCEPT ![k] = NoEntry], UNCHANGED runs,
             Tells(q, [requests[q] EXCEPT !.at = "abandon"], AtRest)
      PROVE  AdmissionInv'
  <2>. DEFINE r == [at |-> "abandon", key |-> k, body |-> b]
  <2>1. r \in Request /\ [requests[q] EXCEPT !.at = "abandon"] = r /\ AtRest \in Request
    BY <1>1, <1>2, PlainShape DEF Request, Plain, RunsOK
  <2>2. /\ requests' \in [RunPosts -> Request] /\ requests'[q] = r
        /\ \A p \in RunPosts \ {q} :
             \/ requests'[p] = requests[p] /\ (requests[p].at = "await" => requests[p].owner # q)
             \/ requests[p].at = "await" /\ requests'[p] = AtRest
    <3>1. requests' = [p \in RunPosts |->
                         IF p = q THEN r
                         ELSE IF requests[p].at = "await" /\ requests[p].owner = q THEN AtRest
                         ELSE requests[p]]
      <4>1. \A p \in RunPosts :
              p = q => ~(requests[p].at = "await" /\ requests[p].owner = q)
        BY <1>1
      <4>. QED  BY <1>6, <2>1, <4>1 DEF Tells, Stands
    <3>. QED  BY <2>1, <3>1 DEF RunsOK
  <2>3. Forgets /\ recent'[k] = NoEntry
    BY <1>2, <1>6 DEF Forgets, RunsOK
  <2>4. RunsOK'
    BY <1>1, <1>6, <2>2, <2>3, EntryShape DEF RunsOK, Forgets
  <2>5. AtRest.at = "idle"
    BY DEF AtRest
  <2>6. ClaimHeld'
    BY <1>1, <1>3, <2>2, <2>5 DEF ClaimHeld, Working
  <2>7. ASSUME NEW p \in RunPosts, NEW j \in RunKeys, NEW c \in Bodies, Promising(p, j, c), p # q
        PROVE  requests'[p] = requests[p]
    BY <2>2, <2>7 DEF Promising, In
  <2>8. PromisesKept'
    <3>1. ASSUME NEW j \in RunKeys, recent'[j].is = "pending"
          PROVE  /\ recent'[j] = recent[j]
                 /\ Promising(recent[j].owner, j, recent[j].body)
                 /\ requests'[recent[j].owner] = requests[recent[j].owner]
      <4>1. recent'[j] = recent[j] /\ j # k
        BY <2>3, <3>1, EntryShape DEF Forgets
      <4>2. Promising(recent[j].owner, j, recent[j].body) /\ recent[j].owner # q
        BY <3>1, <4>1 DEF PromisesKept, Promising, In
      <4>. QED  BY <2>7, <3>1, <4>1, <4>2, EntryShape
    <3>2. ASSUME NEW p \in RunPosts, requests'[p].at = "await"
          PROVE  /\ requests'[p] = requests[p]
                 /\ Promising(requests[p].owner, requests[p].key, requests[p].body)
                 /\ requests'[requests[p].owner] = requests[requests[p].owner]
      <4>1. requests'[p] = requests[p] /\ requests[p].owner # q
        BY <2>2, <2>5, <3>2
      <4>2. requests[p] \in Waiting
        BY <3>2, <4>1, WaitingShape DEF RunsOK
      <4>. QED  BY <2>7, <3>2, <4>1, <4>2 DEF PromisesKept, Waiting
    <3>. QED  BY <3>1, <3>2 DEF PromisesKept, Promising, In
  <2>9. ASSUME NEW j \in RunKeys \ lapsed
        PROVE  KeyInv(j)'
    <3>1. RunsOf(j)' = RunsOf(j) /\ claims'[j] = claims[j] /\ KeyInv(j)
      BY <1>1, <1>6 DEF RunsOf
    <3>2. CASE j = k
      <4>1. RunsOf(j)' = {} /\ claims'[j].is = "pending"
        BY <1>1, <1>3, <1>4, <3>1, <3>2
      <4>2. \A p \in RunPosts \ {q} : requests'[p].at \in Working => requests'[p].key # j
        BY <1>2, <2>2, <2>5, <3>2 DEF Working
      <4>. QED  BY <2>2, <3>1, <3>2, <4>1, <4>2 DEF KeyInv, In, OneRun, OnlyRun, Working
    <3>3. CASE j # k
      <4>1. requests'[q].key # j /\ requests'[q].at # "idle"
        BY <2>2, <3>3
      <4>. QED  BY <1>1, <2>2, <2>5, <3>1, <3>3, <4>1, OtherKeys
    <3>. QED  BY <3>2, <3>3
  <2>. QED  BY <1>1, <2>4, <2>6, <2>8, <2>9
<1>. QED  BY <1>5, <1>6 DEF Enqueues

LEMMA ResolvesStep ==
    ASSUME AdmissionInv, NEW q \in RunPosts, Resolves(q)
    PROVE  AdmissionInv'
<1> USE DEF AdmissionInv
<1>. DEFINE k == requests[q].key
            b == requests[q].body
            run == requests[q].run
<1>1. /\ requests[q].at = "created" /\ requests[q].at \in Working
      /\ UNCHANGED <<stop, claims, runs, sweep, lapsed, mishaps>>
    BY DEF Resolves, Stands, Working
<1>2. /\ k \in RunKeys /\ b \in Bodies /\ requests[q] \in Holding
      /\ \A p \in RunPosts \ {q} : requests[p].at \in Working => requests[p].key # k
    BY <1>1, WorkShape
<1>3. claims[k] = [is |-> "pending", body |-> b, lease |-> q] /\ claims[k].is = "pending"
    BY <1>1, HeldClaim DEF ClaimHeld
<1>4. run \in Run /\ run.key = k /\ run.body = b
    BY <1>2 DEF Holding, RunFor
<1>. DEFINE r == [at |-> "complete", key |-> k, body |-> b, run |-> run]
            e == [is |-> "run", body |-> b, run |-> run]
<1>5. r \in Request /\ [requests[q] EXCEPT !.at = "complete"] = r
    BY <1>1, <1>2, HoldingShape DEF Request, Holding, RunsOK
<1>6. requests' = [p \in RunPosts |->
                     IF p = q THEN r
                     ELSE IF requests[p].at = "await" /\ requests[p].owner = q THEN Answered(p, run)
                     ELSE requests[p]]
  <2>1. \A p \in RunPosts : p = q => ~(requests[p].at = "await" /\ requests[p].owner = q)
    BY <1>1
  <2>. QED  BY <1>5, <2>1 DEF Resolves, Stands
<1>7. ASSUME NEW p \in RunPosts, requests[p].at = "await", requests[p].owner = q
      PROVE  Answered(p, run) \in Request /\ Answered(p, run).at = "answered"
  <2>1. requests[p] \in Waiting
    BY <1>7, WaitingShape DEF RunsOK
  <2>2. requests[p].key = k /\ requests[p].body = b
    BY <1>7 DEF PromisesKept, Promising, In
  <2>. QED  BY <1>4, <2>1, <2>2 DEF Waiting, Answered, Request, Holding, RunFor
<1>8. /\ requests' \in [RunPosts -> Request] /\ requests'[q] = r
      /\ \A p \in RunPosts \ {q} :
           \/ requests'[p] = requests[p] /\ (requests[p].at = "await" => requests[p].owner # q)
           \/ requests[p].at = "await" /\ requests'[p].at = "answered"
    BY <1>5, <1>6, <1>7 DEF RunsOK
<1>9. recent' = [recent EXCEPT ![k] = e] /\ e \in Known(k) /\ e.is = "run"
    BY <1>2, <1>4 DEF Resolves, Known, RunFor
<1>10. RunsOK'
    BY <1>1, <1>2, <1>8, <1>9 DEF RunsOK
<1>11. ClaimHeld'
    BY <1>1, <1>3, <1>8 DEF ClaimHeld, Working
<1>12. ASSUME NEW p \in RunPosts, NEW j \in RunKeys, NEW c \in Bodies, Promising(p, j, c), p # q
       PROVE  requests'[p] = requests[p]
    BY <1>8, <1>12 DEF Promising, In
<1>13. PromisesKept'
  <2>1. ASSUME NEW j \in RunKeys, recent'[j].is = "pending"
        PROVE  /\ recent'[j] = recent[j]
               /\ Promising(recent[j].owner, j, recent[j].body)
               /\ requests'[recent[j].owner] = requests[recent[j].owner]
    <3>1. j # k /\ recent'[j] = recent[j]
      BY <1>9, <2>1 DEF RunsOK
    <3>2. Promising(recent[j].owner, j, recent[j].body) /\ recent[j].owner # q
      BY <2>1, <3>1 DEF PromisesKept, Promising, In
    <3>. QED  BY <1>12, <2>1, <3>1, <3>2, EntryShape
  <2>2. ASSUME NEW p \in RunPosts, requests'[p].at = "await"
        PROVE  /\ requests'[p] = requests[p]
               /\ Promising(requests[p].owner, requests[p].key, requests[p].body)
               /\ requests'[requests[p].owner] = requests[requests[p].owner]
    <3>1. requests'[p] = requests[p] /\ requests[p].owner # q
      BY <1>8, <2>2
    <3>2. requests[p] \in Waiting
      BY <2>2, <3>1, WaitingShape DEF RunsOK
    <3>. QED  BY <1>12, <2>2, <3>1, <3>2 DEF PromisesKept, Waiting
  <2>. QED  BY <2>1, <2>2 DEF PromisesKept, Promising, In
<1>14. ASSUME NEW j \in RunKeys \ lapsed
       PROVE  KeyInv(j)'
  <2>1. RunsOf(j)' = RunsOf(j) /\ claims'[j] = claims[j] /\ KeyInv(j)
    BY <1>1 DEF RunsOf
  <2>2. CASE j = k
    <3>1. claims'[j].is = "pending" /\ OnlyRun(j, run) /\ OneRun(j)
      BY <1>1, <1>3, <2>1, <2>2 DEF KeyInv, In
    <3>2. \A p \in RunPosts : requests'[p].at \in Working /\ requests'[p].key = j => p = q
      BY <1>2, <1>8, <2>2 DEF Working
    <3>3. requests'[q].at = "complete" /\ requests'[q].run = run
      BY <1>8
    <3>. QED  BY <2>1, <3>1, <3>2, <3>3 DEF KeyInv, In, OneRun, OnlyRun, Working
  <2>3. CASE j # k
    <3>1. requests'[q].key # j /\ requests'[q].at # "idle"
      BY <1>8, <2>3
    <3>. QED  BY <1>1, <1>8, <2>1, <2>3, <3>1, OtherKeys
  <2>. QED  BY <2>2, <2>3
<1>. QED  BY <1>1, <1>10, <1>11, <1>13, <1>14

\* When a request moves that nobody waits for, the promises stand.
LEMMA PromisesStay ==
    ASSUME AdmissionInv, NEW q \in RunPosts, NEW r, Forgets,
           requests[q].at \in {"complete", "abandon"}, r.at # "await",
           requests'[q] = r, \A p \in RunPosts \ {q} : requests'[p] = requests[p]
    PROVE  PromisesKept'
<1> USE DEF AdmissionInv
<1>1. \A p \in RunPosts, j \in RunKeys : \A c \in Bodies : Promising(p, j, c) => requests'[p] = requests[p]
    BY DEF Promising, In
<1>2. ASSUME NEW j \in RunKeys, recent'[j].is = "pending"
      PROVE  /\ recent'[j] = recent[j]
             /\ Promising(recent[j].owner, j, recent[j].body)
             /\ requests'[recent[j].owner] = requests[recent[j].owner]
  <2>1. recent'[j] = recent[j]
    BY <1>2, EntryShape DEF Forgets
  <2>. QED  BY <1>1, <1>2, <2>1, EntryShape DEF PromisesKept
<1>3. ASSUME NEW p \in RunPosts, requests'[p].at = "await"
      PROVE  /\ requests'[p] = requests[p]
             /\ Promising(requests[p].owner, requests[p].key, requests[p].body)
             /\ requests'[requests[p].owner] = requests[requests[p].owner]
  <2>1. requests'[p] = requests[p] /\ requests[p] \in Waiting
    BY <1>3, WaitingShape DEF RunsOK
  <2>. QED  BY <1>1, <1>3, <2>1 DEF PromisesKept, Waiting
<1>. QED  BY <1>2, <1>3 DEF PromisesKept, Promising, In

LEMMA CompletesStep ==
    ASSUME AdmissionInv, NEW q \in RunPosts, CompletesClaim(q)
    PROVE  AdmissionInv'
<1> USE DEF AdmissionInv
<1>. DEFINE k == requests[q].key
            b == requests[q].body
            run == requests[q].run
<1>1. /\ requests[q].at = "complete" /\ requests[q].at \in Working
      /\ UNCHANGED <<stop, runs, sweep>>
    BY DEF CompletesClaim, Stands, Working
<1>2. /\ k \in RunKeys /\ b \in Bodies /\ requests[q] \in Holding
      /\ \A p \in RunPosts \ {q} : requests[p].at \in Working => requests[p].key # k
    BY <1>1, WorkShape
<1>3. run \in Run /\ run.key = k /\ run.body = b
    BY <1>2 DEF Holding, RunFor
<1>4. CASE /\ claims' = [claims EXCEPT ![k] = [is |-> "completed", body |-> b, run |-> run]]
           /\ Becomes(q, Answered(q, run))
           /\ UNCHANGED <<recent, lapsed, mishaps>>
  <2>. DEFINE r == Answered(q, run)
              c == [is |-> "completed", body |-> b, run |-> run]
  <2>1. r \in Request /\ r.at = "answered" /\ r.key = k
    BY <1>2, <1>3 DEF Answered, Request, Holding, RunFor
  <2>2. /\ requests' \in [RunPosts -> Request] /\ requests'[q] = r
        /\ \A p \in RunPosts \ {q} : requests'[p] = requests[p]
    BY <1>4, <2>1, OneMoves
  <2>3. c \in Claimed(k) /\ claims'[k] = c /\ \A j \in RunKeys \ {k} : claims'[j] = claims[j]
    BY <1>2, <1>3, <1>4 DEF Claimed, RunFor, RunsOK
  <2>4. RunsOK'
    BY <1>1, <1>2, <1>4, <2>2, <2>3 DEF RunsOK
  <2>5. ClaimHeld'
    <3>1. \A p \in RunPosts \ {q} : requests[p].at \in Working => requests[p].key \in RunKeys \ {k}
      BY <1>2, WorkShape
    <3>. QED  BY <2>1, <2>2, <2>3, <3>1 DEF ClaimHeld, Working
  <2>6. PromisesKept'
    <3>1. Forgets
      BY <1>4 DEF Forgets, RunsOK
    <3>. QED  BY <1>1, <2>1, <2>2, <3>1, PromisesStay
  <2>7. ASSUME NEW j \in RunKeys \ lapsed
        PROVE  KeyInv(j)'
    <3>1. RunsOf(j)' = RunsOf(j) /\ KeyInv(j)
      BY <1>1 DEF RunsOf
    <3>2. CASE j = k
      <4>1. c.is = "completed" /\ c.run = run
        OBVIOUS
      <4>2. claims'[j].is = "completed" /\ claims'[j].run = run
        BY <2>3, <3>2, <4>1
      <4>3. OnlyRun(j, run) /\ OneRun(j)
        BY <1>1, <3>1, <3>2 DEF KeyInv, In
      <4>4. \A p \in RunPosts : ~(requests'[p].at \in Working /\ requests'[p].key = j)
        BY <1>2, <2>1, <2>2, <3>2 DEF Working
      <4>. QED  BY <3>1, <4>2, <4>3, <4>4 DEF KeyInv, In, OneRun, OnlyRun, Working
    <3>3. CASE j # k
      <4>1. requests'[q].key # j /\ requests'[q].at # "idle" /\ claims'[j] = claims[j]
        BY <2>1, <2>2, <2>3, <3>3
      <4>. QED  BY <1>1, <2>2, <3>1, <3>3, <4>1, OtherKeys
    <3>. QED  BY <3>2, <3>3
  <2>. QED  BY <1>4, <2>4, <2>5, <2>6, <2>7
<1>5. CASE /\ Goof
           /\ recent' = [recent EXCEPT ![k] = NoEntry]
           /\ lapsed' = lapsed \cup {k}
           /\ MovesTo(q, "abandon") /\ UNCHANGED claims
  <2>. DEFINE r == [at |-> "abandon", key |-> k, body |-> b, run |-> run]
  <2>1. r \in Request /\ Becomes(q, r)
    BY <1>1, <1>2, <1>5, HoldingShape DEF Request, Holding, MovesTo, RunsOK
  <2>2. /\ requests' \in [RunPosts -> Request] /\ requests'[q] = r
        /\ \A p \in RunPosts \ {q} : requests'[p] = requests[p]
    BY <2>1, OneMoves
  <2>3. Forgets
    BY <1>2, <1>5 DEF Forgets, RunsOK
  <2>4. RunsOK'
    BY <1>1, <1>2, <1>5, <2>2, <2>3, EntryShape DEF RunsOK, Forgets, Goof
  <2>5. ClaimHeld'
    BY <1>1, <1>5, <2>2 DEF ClaimHeld
  <2>6. PromisesKept'
    BY <1>1, <2>2, <2>3, PromisesStay
  <2>7. ASSUME NEW j \in RunKeys \ lapsed'
        PROVE  KeyInv(j)'
    <3>1. RunsOf(j)' = RunsOf(j) /\ claims'[j] = claims[j] /\ j \in RunKeys \ lapsed /\ j # k
      BY <1>1, <1>5 DEF RunsOf
    <3>2. requests'[q].key # j /\ requests'[q].at # "idle"
      BY <2>2, <3>1
    <3>. QED  BY <1>1, <2>2, <3>1, <3>2, OtherKeys
  <2>. QED  BY <2>4, <2>5, <2>6, <2>7
<1>. QED  BY <1>4, <1>5 DEF CompletesClaim

LEMMA AbandonsStep ==
    ASSUME AdmissionInv, NEW q \in RunPosts, AbandonsClaim(q)
    PROVE  AdmissionInv'
<1> USE DEF AdmissionInv
<1>. DEFINE k == requests[q].key
<1>1. /\ requests[q].at = "abandon" /\ requests[q].at \in Working
      /\ UNCHANGED <<stop, recent, runs, sweep, lapsed>>
    BY DEF AbandonsClaim, Stands, Working
<1>2. /\ k \in RunKeys
      /\ \A p \in RunPosts \ {q} :
           requests[p].at \in Working => requests[p].key \in RunKeys \ {k}
    BY <1>1, WorkShape
<1>3. AtRest \in Request /\ AtRest.at = "idle"
    BY DEF Request, AtRest
<1>4. /\ requests' \in [RunPosts -> Request] /\ requests'[q] = AtRest
      /\ \A p \in RunPosts \ {q} : requests'[p] = requests[p]
    BY <1>3, OneMoves DEF AbandonsClaim, Refused
<1>5. \A j \in RunKeys : \/ claims'[j] = claims[j]
                         \/ j = k /\ claims'[j] = NoEntry
    BY <1>2 DEF AbandonsClaim, RunsOK
<1>6. RunsOK'
  <2>1. claims' = [j \in RunKeys |-> claims'[j]] /\ mishaps' \in Nat
    BY <1>2 DEF AbandonsClaim, RunsOK, Goof
  <2>2. \A j \in RunKeys : claims'[j] \in Claimed(j)
    BY <1>5, EntryShape DEF RunsOK
  <2>. QED  BY <1>1, <1>4, <2>1, <2>2 DEF RunsOK
<1>7. ClaimHeld'
    BY <1>2, <1>3, <1>4, <1>5 DEF ClaimHeld, Working
<1>8. PromisesKept'
  <2>1. Forgets
    BY <1>1 DEF Forgets, RunsOK
  <2>. QED  BY <1>1, <1>3, <1>4, <2>1, PromisesStay
<1>9. ASSUME NEW j \in RunKeys \ lapsed
      PROVE  KeyInv(j)'
  <2>1. RunsOf(j)' = RunsOf(j) /\ KeyInv(j)
    BY <1>1 DEF RunsOf
  <2>2. CASE j = k
    <3>1. RunsOf(j) = {}
      BY <1>1, <2>1, <2>2 DEF KeyInv, In
    <3>. QED  BY <2>1, <3>1 DEF KeyInv, OneRun, OnlyRun
  <2>3. CASE j # k
    <3>1. claims'[j] = claims[j]
      BY <1>5, <2>3
    <3>. QED  BY <1>1, <1>3, <1>4, <2>1, <2>3, <3>1, OtherKeys
  <2>. QED  BY <2>2, <2>3
<1>. QED  BY <1>1, <1>6, <1>7, <1>8, <1>9

LEMMA RestartStep ==
    ASSUME AdmissionInv, Restarts
    PROVE  AdmissionInv'
<1> USE DEF AdmissionInv
<1>1. AtRest \in Request /\ \A q \in RunPosts : requests'[q].at = "idle"
    BY DEF Request, AtRest, Restarts
<1>2. runs' \subseteq Run /\ IsFiniteSet(runs') /\ RunsKept
    BY EndedRuns DEF Restarts
<1>3. \A k \in RunKeys : recent'[k] = NoEntry /\ recent'[k].is = "none" /\ NoEntry \in Known(k)
    BY EntryShape DEF Restarts
<1>4. RunsOK'
    BY <1>1, <1>2, <1>3 DEF RunsOK, Restarts, Goof
<1>5. ClaimHeld' /\ PromisesKept'
    BY <1>1, <1>3 DEF ClaimHeld, PromisesKept, Working
<1>6. ASSUME NEW k \in RunKeys \ lapsed
      PROVE  KeyInv(k)'
  <2>1. KeyInv(k) /\ OneRun(k)' /\ claims' = claims
    BY <1>2 DEF RunsKept, KeyInv, Restarts
  <2>2. claims[k].is = "completed" => \A s \in RunsOf(k)' : SameRun(s, claims[k].run)
    BY <1>2, <2>1 DEF RunsKept, KeyInv, OnlyRun, SameRun
  <2>. QED  BY <1>1, <2>1, <2>2 DEF KeyInv, In, OnlyRun
<1>. QED  BY <1>4, <1>5, <1>6 DEF Restarts

-----------------------------------------------------------------------------

LEMMA AdmissionInitInv == AdmissionInit => AdmissionInv
<1> SUFFICES ASSUME AdmissionInit
             PROVE  AdmissionInv
    OBVIOUS
<1>1. /\ AtRest \in Request /\ AtRest.at = "idle" /\ NoEntry.is = "none"
      /\ \A k \in RunKeys : NoEntry \in Known(k) /\ NoEntry \in Claimed(k)
    BY DEF Request, AtRest, NoEntry, Known, Claimed
<1>2. RunsOK
    BY <1>1, FS_EmptySet DEF AdmissionInit, RunsOK, NoSweep
<1>3. ClaimHeld /\ PromisesKept
    BY <1>1 DEF AdmissionInit, ClaimHeld, PromisesKept, Working
<1>4. \A k \in RunKeys : KeyInv(k)
    BY <1>1 DEF AdmissionInit, KeyInv, In, OneRun, OnlyRun, RunsOf
<1>. QED  BY <1>2, <1>3, <1>4 DEF AdmissionInv

LEMMA AdmissionStep ==
    AdmissionInv /\ [AdmissionNext]_admission => AdmissionInv'
<1> SUFFICES ASSUME AdmissionInv, [AdmissionNext]_admission
             PROVE  AdmissionInv'
    OBVIOUS
<1>1. CASE UNCHANGED admission
    BY <1>1 DEF admission, AdmissionInv, RunsOK, ClaimHeld, PromisesKept, Promising, KeyInv, In,
                OneRun, OnlyRun, RunsOf
<1>2. ASSUME NEW q \in RunPosts,
             \/ \E k \in RunKeys, b \in Bodies : Post(q, k, b)
             \/ LooksForRun(q) \/ LooksInMemory(q) \/ GetsRun(q) \/ Claims(q) \/ Enqueues(q)
             \/ Resolves(q) \/ CompletesClaim(q) \/ AbandonsClaim(q) \/ Replies(q)
      PROVE  AdmissionInv'
    BY <1>2, LooksStep, MemoryStep, GetStep, ClaimsStep, EnqueuesStep, ResolvesStep,
       CompletesStep, AbandonsStep
<1>. QED  BY <1>1, <1>2, RunEndsStep, ExpiryStep, SweepStep, StopStep, RestartStep
          DEF AdmissionNext

LEMMA AdmissionCorrect == AdmissionSpec => []AdmissionInv
BY AdmissionInitInv, AdmissionStep, PTL DEF AdmissionSpec

\* POST /api/agent-runs: requests under one key, at the same time, one after the
\* other or across restarts, lead to one run, for any number of them, unless the
\* completion of the claim could not be written; and each of them is answered with
\* a run of its key, made for its body.
THEOREM KeyMeansOneRunHolds == AdmissionSpec => []KeyMeansOneRun
<1>1. AdmissionInv => OneRunPerKey
  <2> SUFFICES ASSUME AdmissionInv, NEW k \in RunKeys \ lapsed
               PROVE  Cardinality(RunsOf(k)) <= 1
      BY DEF OneRunPerKey
  <2>1. OneRun(k)
    BY DEF AdmissionInv, KeyInv
  <2>2. CASE RunsOf(k) = {}
    BY <2>2, FS_EmptySet
  <2>3. CASE RunsOf(k) # {}
    <3>1. PICK r : r \in RunsOf(k)
      BY <2>3
    <3>2. RunsOf(k) = {r}
      BY <2>1, <3>1 DEF OneRun
    <3>3. Cardinality({r}) = 1
      BY FS_Singleton
    <3>. QED  BY <3>2, <3>3
  <2>. QED  BY <2>2, <2>3
<1>2. AdmissionInv => AnswerIsOwnRun
    BY HoldingShape DEF AdmissionInv, RunsOK, AnswerIsOwnRun, Stands, Holding, RunFor
<1>. QED  BY <1>1, <1>2, AdmissionCorrect, PTL DEF KeyMeansOneRun

-----------------------------------------------------------------------------
(* DomainCommands: what is recorded, and what a call carries *)

CaseStates == {"draft", "other", "target"}
Effects == case.log \cup case.mails \cup case.reminders

CommandSet == [proposal : Proposals, revision : Nat, key : Keys, from : CaseStates]
CallSet ==
    [tool : {"confirm"}, proposal : Proposals, revision : Nat, key : Keys]
    \cup [tool : {"execute"}, command : CommandSet, key : Keys]
RecordSet ==
    {None} \cup [state : {"confirmed", "completed"}, command : CommandSet]
    \cup [state : {"executing"}, command : CommandSet, lease : Callers, live : BOOLEAN]

Confirming == [at : {"revision", "preview"}, key : Keys, call : CallSet]
Confirmable == [at : {"confirm"}, key : Keys, command : CommandSet]
UnderLease == {"check", "read", "save", "log", "append", "complete", "abandon"}
Executing ==
    [at : {"begin"} \cup UnderLease, key : Keys, command : CommandSet, resumed : BOOLEAN]
CallerSet == {Idle} \cup Confirming \cup Confirmable \cup Executing

CommandsOK ==
    /\ case \in [there : BOOLEAN, deleted : BOOLEAN, revision : Nat, state : CaseStates,
                 log : SUBSET Proposals, mails : SUBSET Proposals, reminders : SUBSET Proposals]
    /\ records \in [Keys -> RecordSet]
    /\ facade \in [open : BOOLEAN, proposals : SUBSET Proposals,
                   pending : SUBSET CallSet, tokens : SUBSET CallSet]
    /\ callers \in [Callers -> CallerSet]

\* A person has approved the confirmation of c.
Confirmed(c) == ConfirmCall(c.proposal, c.revision, c.key) \in spent

\* The record of a key is one of its own commands, confirmed.
RecordsConfirmed ==
    \A k \in Keys : records[k] # None =>
        records[k].command.key = k /\ Confirmed(records[k].command)

\* What a call carries was approved for it, and from the lease on it is the command
\* of the record, even if another execution has taken the lease since.
Carries(r) ==
    /\ r.at \in {"revision", "preview"} =>
         r.call.tool = "confirm" /\ r.call.key = r.key /\ r.call \in spent
    /\ r.at = "confirm" => r.command.key = r.key /\ Confirmed(r.command)
    /\ r.at \in {"begin"} \cup UnderLease => ExecuteCall(r.command, r.key) \in spent
    /\ r.at \in UnderLease => records[r.key] # None /\ records[r.key].command = r.command
    /\ r.at = "complete" => case.deleted \/ r.command.proposal \in Effects

CommandsInv ==
    /\ CommandsOK
    /\ RecordsConfirmed
    /\ \A q \in Callers : Carries(callers[q])
    /\ EffectsAreApproved
    /\ CompletedHasEffect

-----------------------------------------------------------------------------
(* Shapes *)

LEMMA CallerShape ==
    ASSUME NEW r \in CallerSet
    PROVE  /\ r.at \in {"revision", "preview"} =>
                /\ r \in Confirming
                /\ [r EXCEPT !.at = "preview"] = [at |-> "preview", key |-> r.key, call |-> r.call]
           /\ r.at = "confirm" => r \in Confirmable
           /\ r.at \in {"begin"} \cup UnderLease =>
                /\ r \in Executing
                /\ \A place : [r EXCEPT !.at = place] =
                     [at |-> place, key |-> r.key, command |-> r.command, resumed |-> r.resumed]
           /\ r.at \notin {"revision", "preview", "confirm", "begin"} \cup UnderLease => r = Idle
BY DEF CallerSet, Idle, Confirming, Confirmable, Executing, UnderLease

LEMMA RecordShape ==
    ASSUME NEW r \in RecordSet
    PROVE  /\ None.state = "none" /\ None \in RecordSet
           /\ r # None => r.command \in CommandSet /\ r.state \in {"confirmed", "executing", "completed"}
           /\ r.state = "none" => r = None
           /\ r.state = "executing" =>
                /\ r.lease \in Callers /\ r.live \in BOOLEAN
                /\ [r EXCEPT !.live = FALSE] \in RecordSet \ {None}
                /\ [r EXCEPT !.live = FALSE].command = r.command
                /\ [r EXCEPT !.live = FALSE].state = "executing"
<1>1. None.state = "none" /\ None \in RecordSet
    BY DEF RecordSet, None
<1>2. CASE r = None
    BY <1>1, <1>2
<1>3. CASE r \in [state : {"confirmed", "completed"}, command : CommandSet]
    BY <1>1, <1>3
<1>4. CASE r \in [state : {"executing"}, command : CommandSet, lease : Callers, live : BOOLEAN]
  <2>1. /\ r.state = "executing" /\ r.command \in CommandSet
        /\ r.lease \in Callers /\ r.live \in BOOLEAN
    BY <1>4
  <2>2. /\ [r EXCEPT !.live = FALSE]
              \in [state : {"executing"}, command : CommandSet, lease : Callers, live : BOOLEAN]
        /\ [r EXCEPT !.live = FALSE].command = r.command
        /\ [r EXCEPT !.live = FALSE].state = "executing"
    BY <1>4
  <2>. QED  BY <1>1, <2>1, <2>2 DEF RecordSet
<1>. QED  BY <1>2, <1>3, <1>4 DEF RecordSet

LEMMA IdleShape == Idle \in CallerSet /\ Idle.at = "idle" /\ Carries(Idle)
BY DEF CallerSet, Idle, Carries, UnderLease

-----------------------------------------------------------------------------
(* What a step keeps *)

\* Nothing is taken back: an approval, the command of a key, a change of a case that
\* is still there.
Grows ==
    /\ spent \subseteq spent'
    /\ \A k \in Keys : records[k] # None =>
         records'[k] # None /\ records'[k].command = records[k].command
    /\ case.deleted => case'.deleted
    /\ \A p \in Effects : case'.deleted \/ p \in Effects'

Approved(p) ==
    \E call \in spent :
      /\ call.tool = "execute" /\ call.command.proposal = p
      /\ call.command.key = call.key
      /\ ConfirmCall(p, call.command.revision, call.key) \in spent

RecordHolds(k) ==
    records[k] # None =>
      /\ records[k].command.key = k /\ Confirmed(records[k].command)
      /\ records[k].state = "completed" => case.deleted \/ records[k].command.proposal \in Effects

LEMMA CommandsKept ==
    ASSUME CommandsInv, CommandsOK', Grows,
           \A q \in Callers : callers'[q] = callers[q] \/ Carries(callers[q])',
           \A k \in Keys : records'[k] = records[k] \/ RecordHolds(k)',
           \A p \in Effects' : p \in Effects \/ Approved(p)'
    PROVE  CommandsInv'
<1>1. RecordsConfirmed'
  <2> SUFFICES ASSUME NEW k \in Keys, records'[k] # None
               PROVE  records'[k].command.key = k /\ Confirmed(records[k].command)'
      BY DEF RecordsConfirmed
  <2>1. CASE records'[k] = records[k]
    BY <2>1 DEF CommandsInv, RecordsConfirmed, Confirmed, ConfirmCall, Grows
  <2>. QED  BY <2>1 DEF RecordHolds
<1>2. ASSUME NEW q \in Callers
      PROVE  Carries(callers[q])'
  <2>1. CASE callers'[q] = callers[q]
    <3>1. callers[q] \in CallerSet /\ Carries(callers[q])
      BY DEF CommandsInv, CommandsOK
    <3>2. callers[q].at \in UnderLease => callers[q].key \in Keys
      BY <3>1, CallerShape DEF Executing
    <3>. QED  BY <2>1, <3>1, <3>2 DEF Carries, Grows, Confirmed, ConfirmCall, ExecuteCall
  <2>. QED  BY <2>1
<1>3. EffectsAreApproved'
  <2> SUFFICES ASSUME NEW p \in Effects'
               PROVE  Approved(p)'
      BY DEF EffectsAreApproved, Effects, Approved
  <2>1. CASE p \in Effects
    BY <2>1 DEF CommandsInv, EffectsAreApproved, Effects, Approved, Grows, ConfirmCall
  <2>. QED  BY <2>1
<1>4. CompletedHasEffect'
  <2> SUFFICES ASSUME NEW k \in Keys, records'[k].state = "completed", ~case'.deleted
               PROVE  records'[k].command.proposal \in Effects'
      BY DEF CompletedHasEffect, Effects
  <2>1. CASE records'[k] = records[k]
    BY <2>1 DEF CommandsInv, CompletedHasEffect, Effects, Grows
  <2>2. CASE RecordHolds(k)'
    BY <2>2, RecordShape DEF RecordHolds, CommandsOK
  <2>. QED  BY <2>1, <2>2
<1>. QED  BY <1>1, <1>2, <1>3, <1>4 DEF CommandsInv

\* Every action but those of the store of executions.
LEMMA StoreAsleep ==
    ASSUME CommandsInv, CommandsOK', UNCHANGED records, spent \subseteq spent',
           case.deleted => case'.deleted,
           \A p \in Effects : case'.deleted \/ p \in Effects',
           \A q \in Callers : callers'[q] = callers[q] \/ Carries(callers[q])',
           \A p \in Effects' : p \in Effects \/ Approved(p)'
    PROVE  CommandsInv'
<1>1. Grows
    BY DEF Grows
<1>. QED  BY <1>1, CommandsKept

-----------------------------------------------------------------------------
(* Steps that write no record *)

LEMMA OneCallMoves ==
    ASSUME CommandsOK, NEW q \in Callers, NEW r \in CallerSet, Goes(q, r)
    PROVE  /\ callers' \in [Callers -> CallerSet]
           /\ callers'[q] = r
           /\ \A p \in Callers : p # q => callers'[p] = callers[p]
BY DEF CommandsOK, Goes

\* The tools of the run, and the approvals of its calls.
LEMMA FacadeStep ==
    ASSUME CommandsInv,
           \/ \E p \in Proposals : Propose(p)
           \/ \E call \in Offered : RequestApproval(call)
           \/ \E call \in facade.pending, approved \in BOOLEAN : ResolveApproval(call, approved)
           \/ RevokeCapability \/ OpenSession
    PROVE  CommandsInv'
<1>1. UNCHANGED <<case, records, callers, spent>>
    BY DEF Propose, RequestApproval, ResolveApproval, RevokeCapability, OpenSession
<1>2. CommandsOK
    BY DEF CommandsInv
<1>3. Offered \subseteq CallSet
  <2>1. ASSUME NEW p \in facade.proposals, NEW k \in Keys
        PROVE  ConfirmCall(p, case.revision, k) \in CallSet
    BY <1>2 DEF CommandsOK, CallSet, ConfirmCall
  <2>2. ASSUME NEW c \in Commands, NEW k \in Keys
        PROVE  ExecuteCall(c, k) \in CallSet
    <3>1. PICK j \in Keys : records[j] # None /\ c = records[j].command
      BY DEF Commands
    <3>2. c \in CommandSet
      BY <1>2, <3>1, RecordShape DEF CommandsOK
    <3>. QED  BY <3>2 DEF CallSet, ExecuteCall
  <2>. QED  BY <2>1, <2>2 DEF Offered
<1>4. facade' \in [open : BOOLEAN, proposals : SUBSET Proposals,
                   pending : SUBSET CallSet, tokens : SUBSET CallSet]
  <2>1. CASE \E p \in Proposals : Propose(p)
    BY <1>2, <2>1 DEF CommandsOK, Propose
  <2>2. CASE \E call \in Offered : RequestApproval(call)
    BY <1>2, <1>3, <2>2 DEF CommandsOK, RequestApproval
  <2>3. CASE \E call \in facade.pending, approved \in BOOLEAN : ResolveApproval(call, approved)
    <3>1. PICK call \in facade.pending, approved \in BOOLEAN : ResolveApproval(call, approved)
      BY <2>3
    <3>2. PICK tokens \in SUBSET CallSet :
            facade' = [facade EXCEPT !.pending = @ \ {call}, !.tokens = tokens]
      BY <1>2, <3>1 DEF CommandsOK, ResolveApproval
    <3>. QED  BY <1>2, <3>2 DEF CommandsOK
  <2>4. CASE RevokeCapability
    <3>1. facade' = [facade EXCEPT !.open = FALSE, !.pending = {}, !.tokens = {}]
      BY <2>4 DEF RevokeCapability
    <3>. QED  BY <1>2, <3>1, FALSE \in BOOLEAN DEF CommandsOK
  <2>5. CASE OpenSession
    BY <2>5 DEF OpenSession, NewSession
  <2>. QED  BY <2>1, <2>2, <2>3, <2>4, <2>5
<1>5. CommandsOK'
    BY <1>1, <1>2, <1>4 DEF CommandsOK
<1>. QED  BY <1>1, <1>5, StoreAsleep DEF Effects

\* A call uses up its approval.
LEMMA CallStep ==
    ASSUME CommandsInv, NEW q \in Callers, NEW call \in facade.tokens, Call(q, call)
    PROVE  CommandsInv'
<1>1. CommandsOK /\ call \in CallSet
    BY DEF CommandsInv, CommandsOK
<1>2. PICK r \in CallerSet : Goes(q, r) /\ Carries(r)'
  <2>1. CASE /\ call.tool = "confirm"
             /\ Goes(q, [at |-> "revision", key |-> call.key, call |-> call])
    <3> DEFINE r == [at |-> "revision", key |-> call.key, call |-> call]
    <3>1. r \in CallerSet
      BY <1>1 DEF CallSet, CallerSet, Confirming
    <3>2. Carries(r)'
      BY <2>1 DEF Carries, Call, UnderLease
    <3>. QED  BY <2>1, <3>1, <3>2
  <2>2. CASE /\ call.tool = "execute"
             /\ Goes(q, [at |-> "begin", key |-> call.key, command |-> call.command,
                         resumed |-> FALSE])
    <3> DEFINE r == [at |-> "begin", key |-> call.key, command |-> call.command,
                     resumed |-> FALSE]
    <3>1. call \in [tool : {"execute"}, command : CommandSet, key : Keys]
      BY <1>1, <2>2 DEF CallSet
    <3>2. r \in CallerSet
      BY <3>1 DEF CallerSet, Executing
    <3>3. ExecuteCall(call.command, call.key) = call
      BY <3>1 DEF ExecuteCall
    <3>4. Carries(r)'
      BY <3>3 DEF Carries, Call, UnderLease, ExecuteCall
    <3>. QED  BY <2>2, <3>2, <3>4
  <2>. QED  BY <2>1, <2>2 DEF Call
<1>3. CommandsOK'
    BY <1>1, <1>2, OneCallMoves DEF CommandsOK, Call
<1>4. \A p \in Callers : callers'[p] = callers[p] \/ Carries(callers[p])'
    BY <1>1, <1>2, OneCallMoves
<1>5. Effects' = Effects /\ UNCHANGED <<case, records>> /\ spent \subseteq spent'
    BY DEF Effects, Call
<1>. QED  BY <1>3, <1>4, <1>5, StoreAsleep

\* Confirming, up to the store: the command is made of the call that was approved.
LEMMA ConfirmingStep ==
    ASSUME CommandsInv, NEW q \in Callers, ReadsRevision(q) \/ Preview(q)
    PROVE  CommandsInv'
<1>1. CommandsOK /\ callers[q] \in CallerSet /\ Carries(callers[q])
    BY DEF CommandsInv, CommandsOK
<1>2. /\ callers[q] \in Confirming
      /\ [callers[q] EXCEPT !.at = "preview"]
           = [at |-> "preview", key |-> callers[q].key, call |-> callers[q].call]
    BY <1>1, CallerShape DEF ReadsRevision, Preview, At
<1>3. UNCHANGED <<case, records, facade, spent>>
    BY DEF ReadsRevision, Preview
<1>4. PICK r \in CallerSet : Goes(q, r) /\ Carries(r)'
  <2>1. CASE Goes(q, Idle)
    BY <2>1, IdleShape DEF Carries, Idle, UnderLease
  <2>2. CASE Walks(q, "preview")
    <3>1. PICK r \in CallerSet : r = [at |-> "preview", key |-> callers[q].key, call |-> callers[q].call]
      BY <1>2 DEF CallerSet, Confirming
    <3>2. Carries(r)'
      BY <1>1, <1>2, <1>3, <3>1 DEF Carries, UnderLease, Confirming
    <3>. QED  BY <1>2, <2>2, <3>1, <3>2 DEF Walks, To
  <2>3. CASE /\ CanBePrepared(callers[q].call) /\ Preview(q)
             /\ ~Goes(q, Idle)
    <3>1. PICK call : /\ call = callers[q].call
                      /\ call \in [tool : {"confirm"}, proposal : Proposals, revision : Nat, key : Keys]
                      /\ call \in spent
      BY <1>1, <1>2 DEF Confirming, CallSet, Carries
    <3>2. PICK c \in CommandSet : c = Command(call.proposal, call.revision, call.key, case.state)
      BY <1>1, <3>1 DEF CommandSet, Command, CommandsOK
    <3>3. PICK r \in CallerSet : r = [at |-> "confirm", key |-> call.key, command |-> c]
      BY <3>1, <3>2 DEF CallerSet, Confirmable
    <3>4. c.key = call.key /\ ConfirmCall(c.proposal, c.revision, c.key) = call
      BY <3>1, <3>2 DEF Command, ConfirmCall
    <3>5. Carries(r)'
      BY <1>3, <3>1, <3>3, <3>4 DEF Carries, Confirmed, UnderLease
    <3>6. Goes(q, r)
      BY <2>3, <3>1, <3>2, <3>3 DEF Preview
    <3>. QED  BY <3>5, <3>6
  <2>. QED  BY <2>1, <2>2, <2>3 DEF ReadsRevision, Preview
<1>5. CommandsOK'
    BY <1>1, <1>3, <1>4, OneCallMoves DEF CommandsOK
<1>6. \A p \in Callers : callers'[p] = callers[p] \/ Carries(callers[p])'
    BY <1>1, <1>4, OneCallMoves
<1>. QED  BY <1>3, <1>5, <1>6, StoreAsleep DEF Effects

-----------------------------------------------------------------------------
(* Steps under a lease *)

LEMMA LeaseShape ==
    ASSUME CommandsInv, NEW q \in Callers, callers[q].at \in UnderLease
    PROVE  /\ callers[q].key \in Keys /\ callers[q].command \in CommandSet
           /\ callers[q].command.proposal \in Proposals
           /\ callers[q].resumed \in BOOLEAN
           /\ Approved(callers[q].command.proposal)
<1>1. callers[q] \in CallerSet /\ Carries(callers[q])
    BY DEF CommandsInv, CommandsOK
<1>2. callers[q] \in Executing
    BY <1>1, CallerShape
<1>3. /\ callers[q].key \in Keys /\ callers[q].command \in CommandSet
      /\ callers[q].resumed \in BOOLEAN
    BY <1>2 DEF Executing
<1>4. PICK c \in CommandSet : c = callers[q].command
    BY <1>3
<1>5. PICK call : call = ExecuteCall(c, callers[q].key)
    OBVIOUS
<1>6. c.key = callers[q].key /\ Confirmed(c) /\ call \in spent
    BY <1>1, <1>3, <1>4, <1>5 DEF Carries, CommandsInv, RecordsConfirmed
<1>7. call.tool = "execute" /\ call.command = c /\ call.key = c.key
    BY <1>5, <1>6 DEF ExecuteCall
<1>8. Approved(c.proposal)
    BY <1>6, <1>7 DEF Approved, Confirmed
<1>. QED  BY <1>3, <1>4, <1>8 DEF CommandSet

LEMMA LeaseMoves ==
    ASSUME CommandsInv, NEW q \in Callers, callers[q].at \in UnderLease,
           NEW place \in UnderLease, Goes(q, To(q, place)), UNCHANGED <<records, spent>>,
           case.deleted => case'.deleted,
           \A p \in Effects : case'.deleted \/ p \in Effects',
           place = "complete" => case'.deleted \/ callers[q].command.proposal \in Effects'
    PROVE  /\ callers' \in [Callers -> CallerSet]
           /\ \A p \in Callers : callers'[p] = callers[p] \/ Carries(callers[p])'
<1>1. CommandsOK /\ callers[q] \in CallerSet /\ Carries(callers[q])
    BY DEF CommandsInv, CommandsOK
<1>2. To(q, place) = [at |-> place, key |-> callers[q].key, command |-> callers[q].command,
                      resumed |-> callers[q].resumed]
    BY <1>1, CallerShape DEF To
<1>3. PICK r \in CallerSet : r = To(q, place)
    BY <1>2, LeaseShape DEF CallerSet, Executing
<1>4. Carries(r)'
    BY <1>1, <1>2, <1>3 DEF Carries, UnderLease
<1>. QED  BY <1>1, <1>3, <1>4, OneCallMoves

\* The case is looked at.
LEMMA LookStep ==
    ASSUME CommandsInv, NEW q \in Callers, Check(q) \/ Read(q) \/ Log(q)
    PROVE  CommandsInv'
<1>1. UNCHANGED <<case, records, facade, spent>> /\ Effects' = Effects
    BY DEF Check, Read, Log, Effects
<1>2. callers[q].at \in UnderLease
    BY DEF Check, Read, Log, At, UnderLease
<1>3. PICK place \in UnderLease :
        /\ Goes(q, To(q, place))
        /\ place = "complete" => callers[q].command.proposal \in Effects
  <2>1. CASE Check(q)
    BY <2>1 DEF Check, Walks, Joins, UnderLease
  <2>2. CASE Read(q)
    BY <2>2 DEF Read, Walks, Joins, UnderLease, Applied, Effects
  <2>3. CASE Log(q)
    BY <2>3 DEF Log, Walks, Joins, UnderLease, Effects
  <2>. QED  BY <2>1, <2>2, <2>3
<1>4. /\ callers' \in [Callers -> CallerSet]
      /\ \A p \in Callers : callers'[p] = callers[p] \/ Carries(callers[p])'
    BY <1>1, <1>2, <1>3, LeaseMoves
<1>5. CommandsOK'
    BY <1>1, <1>4 DEF CommandsInv, CommandsOK
<1>. QED  BY <1>1, <1>4, <1>5, StoreAsleep

\* The case is changed: the status, the mail or the reminder, and then the event.
LEMMA EffectStep ==
    ASSUME CommandsInv, NEW q \in Callers, Save(q) \/ AppendEvent(q)
    PROVE  CommandsInv'
<1> DEFINE p == callers[q].command.proposal
<1>1. UNCHANGED <<records, facade, spent>> /\ CommandsOK
    BY DEF Save, AppendEvent, CommandsInv
<1>2. callers[q].at \in UnderLease
    BY DEF Save, AppendEvent, At, UnderLease
<1>3. p \in Proposals /\ callers[q].command \in CommandSet /\ Approved(p)
    BY <1>2, LeaseShape
<1>4. /\ case' \in [there : BOOLEAN, deleted : BOOLEAN, revision : Nat, state : CaseStates,
                    log : SUBSET Proposals, mails : SUBSET Proposals, reminders : SUBSET Proposals]
      /\ case'.deleted = case.deleted
      /\ Effects \subseteq Effects' /\ Effects' \subseteq Effects \cup {p}
      /\ \E place \in UnderLease : Goes(q, To(q, place)) /\ (place = "complete" => p \in Effects')
  <2>1. CASE UNCHANGED case /\ Joins(q, "abandon")
    BY <1>1, <2>1 DEF CommandsOK, Effects, Joins, UnderLease
  <2>2. CASE /\ case' = Changed(callers[q].command)
             /\ IF Kind[p] = "application_status" THEN Walks(q, "log") ELSE Joins(q, "complete")
    <3>1. PICK c \in CommandSet : c = callers[q].command
      BY <1>3
    <3>2. CASE Kind[c.proposal] = "application_status"
      <4>1. case' = [case EXCEPT !.there = TRUE, !.revision = c.revision + 1, !.state = "target"]
        BY <2>2, <3>1, <3>2 DEF Changed
      <4>2. c.revision + 1 \in Nat /\ "target" \in CaseStates
        BY DEF CommandSet, CaseStates
      <4>3. case' = [there |-> TRUE, deleted |-> case.deleted, revision |-> c.revision + 1,
                     state |-> "target", log |-> case.log, mails |-> case.mails,
                     reminders |-> case.reminders]
        BY <1>1, <4>1 DEF CommandsOK
      <4>4. Goes(q, To(q, "log"))
        BY <2>2, <3>1, <3>2 DEF Walks
      <4>. QED  BY <1>1, <4>2, <4>3, <4>4 DEF CommandsOK, Effects, UnderLease
    <3>3. CASE Kind[c.proposal] = "mail_correlation"
      <4>1. case' = [case EXCEPT !.mails = @ \cup {p}]
        BY <2>2, <3>1, <3>3 DEF Changed
      <4>2. Goes(q, To(q, "complete"))
        BY <2>2, <3>1, <3>3 DEF Joins
      <4>. QED  BY <1>1, <1>3, <4>1, <4>2 DEF CommandsOK, Effects, UnderLease
    <3>4. CASE Kind[c.proposal] \notin {"application_status", "mail_correlation"}
      <4>1. case' = [case EXCEPT !.reminders = @ \cup {p}]
        BY <2>2, <3>1, <3>4 DEF Changed
      <4>2. Goes(q, To(q, "complete"))
        BY <2>2, <3>1, <3>4 DEF Joins
      <4>. QED  BY <1>1, <1>3, <4>1, <4>2 DEF CommandsOK, Effects, UnderLease
    <3>. QED  BY <3>2, <3>3, <3>4
  <2>3. CASE case' = [case EXCEPT !.log = @ \cup {p}] /\ Joins(q, "complete")
    BY <1>1, <1>3, <2>3 DEF CommandsOK, Effects, Joins, UnderLease
  <2>. QED  BY <2>1, <2>2, <2>3 DEF Save, AppendEvent, Fails
<1>5. /\ callers' \in [Callers -> CallerSet]
      /\ \A a \in Callers : callers'[a] = callers[a] \/ Carries(callers[a])'
    BY <1>1, <1>2, <1>4, LeaseMoves
<1>6. CommandsOK'
    BY <1>1, <1>4, <1>5 DEF CommandsOK
<1>7. \A a \in Effects' : a \in Effects \/ Approved(a)'
    BY <1>1, <1>3, <1>4 DEF Approved
<1>. QED  BY <1>1, <1>4, <1>5, <1>6, <1>7, StoreAsleep

-----------------------------------------------------------------------------
(* Time, the person and the machine *)

LEMMA PersonStep ==
    ASSUME CommandsInv,
           \/ \E state \in CaseStates : PersonMoves(state)
           \/ PersonDeletes
    PROVE  CommandsInv'
<1>1. UNCHANGED <<records, facade, callers, spent>> /\ CommandsOK
    BY DEF PersonMoves, PersonDeletes, CommandsInv
<1>2. /\ case' \in [there : BOOLEAN, deleted : BOOLEAN, revision : Nat, state : CaseStates,
                    log : SUBSET Proposals, mails : SUBSET Proposals, reminders : SUBSET Proposals]
      /\ case'.deleted \/ (case'.deleted = case.deleted /\ Effects' = Effects)
      /\ Effects' \subseteq Effects
  <2>1. CASE \E state \in CaseStates : PersonMoves(state)
    <3>1. PICK state \in CaseStates : PersonMoves(state)
      BY <2>1
    <3>2. case' = [there |-> case.there, deleted |-> case.deleted, revision |-> case.revision + 1,
                   state |-> state, log |-> case.log, mails |-> case.mails,
                   reminders |-> case.reminders]
      BY <1>1, <3>1 DEF CommandsOK, PersonMoves
    <3>. QED  BY <1>1, <3>2 DEF CommandsOK, Effects
  <2>2. CASE PersonDeletes
    <3>1. PICK there \in BOOLEAN, log \in SUBSET case.log, mails \in SUBSET case.mails,
               reminders \in SUBSET case.reminders :
             case' = [there |-> there, deleted |-> TRUE, revision |-> case.revision,
                      state |-> case.state, log |-> log, mails |-> mails, reminders |-> reminders]
      <4>1. CASE \E reminders \in {{}, case.reminders} :
                   case' = [case EXCEPT !.there = FALSE, !.deleted = TRUE, !.log = {}, !.reminders = reminders]
        BY <1>1, <4>1 DEF CommandsOK
      <4>2. CASE \E mails \in SUBSET case.mails, reminders \in SUBSET case.reminders :
                   case' = [case EXCEPT !.deleted = TRUE, !.mails = mails, !.reminders = reminders]
        BY <1>1, <4>2 DEF CommandsOK
      <4>. QED  BY <2>2, <4>1, <4>2 DEF PersonDeletes
    <3>. QED  BY <1>1, <3>1 DEF CommandsOK, Effects
  <2>. QED  BY <2>1, <2>2
<1>3. CommandsOK'
    BY <1>1, <1>2 DEF CommandsOK
<1>. QED  BY <1>1, <1>2, <1>3, StoreAsleep

LEMMA FacadeRestart ==
    ASSUME CommandsInv, Restart
    PROVE  CommandsInv'
<1>1. CommandsOK /\ UNCHANGED <<case, records, spent>> /\ Effects' = Effects
    BY DEF CommandsInv, Restart, Effects
<1>2. \A q \in Callers : callers'[q] = Idle
    BY DEF Restart
<1>3. facade' = [open |-> FALSE, proposals |-> facade.proposals, pending |-> {}, tokens |-> {}]
    BY <1>1 DEF Restart, CommandsOK
<1>4. callers' \in [Callers -> CallerSet]
    BY IdleShape DEF Restart
<1>5. CommandsOK'
    BY <1>1, <1>3, <1>4 DEF CommandsOK
<1>6. \A q \in Callers : Carries(callers[q])'
    BY <1>2 DEF Carries, Idle, UnderLease
<1>. QED  BY <1>1, <1>5, <1>6, StoreAsleep

LEMMA LeaseStep ==
    ASSUME CommandsInv, NEW k \in Keys, LeaseExpires(k)
    PROVE  CommandsInv'
<1>1. CommandsOK /\ UNCHANGED <<case, facade, callers, spent>> /\ Effects' = Effects
    BY DEF CommandsInv, LeaseExpires, Effects
<1>2. PICK r \in RecordSet \ {None} : /\ r.command = records[k].command /\ r.state = "executing"
                                      /\ records' = [records EXCEPT ![k] = r]
    BY <1>1, RecordShape DEF CommandsOK, LeaseExpires
<1>3. CommandsOK'
    BY <1>1, <1>2 DEF CommandsOK
<1>4. Grows
    BY <1>1, <1>2 DEF Grows, CommandsOK
<1>5. RecordHolds(k)'
    BY <1>1, <1>2, RecordShape DEF RecordHolds, CommandsInv, RecordsConfirmed, CommandsOK,
       Confirmed, LeaseExpires
<1>. QED  BY <1>1, <1>2, <1>3, <1>4, <1>5, CommandsKept DEF CommandsOK

-----------------------------------------------------------------------------
(* The store of executions *)

\* A call that leaves the store is idle, or has the lease of its command.
LEMMA LeavesStep ==
    ASSUME CommandsInv, NEW q \in Callers, Leaves(q, Idle), UNCHANGED <<case, records, facade, spent>>
    PROVE  CommandsInv'
<1>1. CommandsOK /\ Effects' = Effects /\ Goes(q, Idle)
    BY DEF CommandsInv, Leaves, Effects
<1>2. CommandsOK'
    BY <1>1, IdleShape, OneCallMoves DEF CommandsOK
<1>3. \A p \in Callers : callers'[p] = callers[p] \/ Carries(callers[p])'
  <2>1. Carries(callers[q])'
    BY <1>1, IdleShape, OneCallMoves DEF Carries, Idle, UnderLease
  <2>. QED  BY <1>1, <2>1, IdleShape, OneCallMoves
<1>. QED  BY <1>1, <1>2, <1>3, StoreAsleep

\* A rejected completion keeps what it carries, and gives the lease back.
LEMMA ThrowsStep ==
    ASSUME CommandsInv, NEW q \in Callers, Throws(q), UNCHANGED <<case, facade, spent>>
    PROVE  CommandsInv'
<1>1. CommandsOK /\ UNCHANGED records /\ Effects' = Effects
    BY DEF CommandsInv, Throws, Effects
<1>2. ASSUME NEW p \in Callers
      PROVE  /\ Rejected(callers[p]) \in CallerSet
             /\ callers'[p] = Rejected(callers[p]) => Carries(callers[p])'
  <2>1. callers[p] \in CallerSet /\ Carries(callers[p])
    BY <1>1 DEF CommandsInv, CommandsOK
  <2>2. CASE callers[p].at = "complete"
    <3>1. callers[p].at \in UnderLease
      BY <2>2 DEF UnderLease
    <3>2. Rejected(callers[p]) = [at |-> "abandon", key |-> callers[p].key,
                                  command |-> callers[p].command, resumed |-> callers[p].resumed]
      BY <2>1, <2>2, <3>1, CallerShape DEF Rejected
    <3>3. Rejected(callers[p]) \in CallerSet
      BY <3>1, <3>2, LeaseShape DEF CallerSet, Executing, UnderLease
    <3>4. ASSUME callers'[p] = Rejected(callers[p])
          PROVE  Carries(callers[p])'
      BY <1>1, <2>1, <2>2, <3>2, <3>4 DEF Carries, UnderLease
    <3>. QED  BY <3>3, <3>4
  <2>3. CASE callers[p].at # "complete"
    <3>1. Rejected(callers[p]) = Idle
      BY <2>3 DEF Rejected
    <3>. QED  BY <3>1, IdleShape DEF Carries, Idle, UnderLease
  <2>. QED  BY <2>2, <2>3
<1>3. \A p \in Callers : callers'[p] \in {callers[p], Rejected(callers[p])}
    BY DEF Throws
<1>4. callers' \in [Callers -> CallerSet]
  <2>1. \A p \in Callers : callers'[p] \in CallerSet
    BY <1>1, <1>2, <1>3 DEF CommandsOK
  <2>. QED  BY <2>1 DEF Throws
<1>5. CommandsOK'
    BY <1>1, <1>4 DEF CommandsOK
<1>6. \A p \in Callers : callers'[p] = callers[p] \/ Carries(callers[p])'
    BY <1>2, <1>3
<1>. QED  BY <1>1, <1>5, <1>6, StoreAsleep

\* A record that is written is confirmed, keeps its command, and is completed only by
\* a call whose change is made.
LEMMA WritesStep ==
    ASSUME CommandsInv, NEW q \in Callers, NEW k \in Keys, k = callers[q].key,
           NEW r \in RecordSet \ {None}, NEW c \in CallerSet, Writes(q, r, c),
           records[k] # None => r.command = records[k].command,
           r.command.key = k, Confirmed(r.command),
           r.state = "completed" => case.deleted \/ r.command.proposal \in Effects,
           c = Idle \/ (/\ c.at = "check" /\ c.key = k /\ c.command = r.command
                        /\ ExecuteCall(c.command, k) \in spent),
           UNCHANGED <<case, facade, spent>>
    PROVE  CommandsInv'
<1>1. CommandsOK /\ Effects' = Effects
    BY DEF CommandsInv, Effects
<1>2. CASE Throws(q)
    BY <1>2, ThrowsStep
<1>3. CASE records' = [records EXCEPT ![k] = r] /\ Leaves(q, c)
  <2>1. records'[k] = r /\ \A j \in Keys : j # k => records'[j] = records[j]
    BY <1>1, <1>3 DEF CommandsOK
  <2>2. Grows
    BY <1>1, <2>1 DEF Grows
  <2>3. /\ callers' \in [Callers -> CallerSet] /\ callers'[q] = c
        /\ \A p \in Callers : p # q => callers'[p] = callers[p]
    BY <1>1, <1>3, OneCallMoves DEF Leaves
  <2>4. CommandsOK'
    BY <1>1, <1>3, <2>3 DEF CommandsOK
  <2>5. Carries(callers[q])'
    BY <2>1, <2>3 DEF Carries, Idle, UnderLease
  <2>6. RecordHolds(k)'
    BY <1>1, <2>1 DEF RecordHolds, Confirmed
  <2>. QED  BY <1>1, <2>1, <2>2, <2>3, <2>4, <2>5, <2>6, CommandsKept
<1>. QED  BY <1>2, <1>3 DEF Writes

LEMMA ConfirmStep ==
    ASSUME CommandsInv, NEW q \in Callers, Confirm(q)
    PROVE  CommandsInv'
<1>1. CommandsOK /\ UNCHANGED <<case, facade, spent>> /\ Carries(callers[q])
    BY DEF CommandsInv, Confirm
<1>2. /\ callers[q].key \in Keys /\ callers[q].command \in CommandSet
      /\ callers[q].command.key = callers[q].key /\ Confirmed(callers[q].command)
  <2>1. callers[q] \in CallerSet
    BY <1>1 DEF CommandsOK
  <2>. QED  BY <1>1, <2>1, CallerShape DEF Confirm, At, Confirmable, Carries
<1>3. CASE /\ records[callers[q].key] = None
           /\ Writes(q, [state |-> "confirmed", command |-> callers[q].command], Idle)
  <2>1. PICK r \in RecordSet \ {None} : r = [state |-> "confirmed", command |-> callers[q].command]
    BY <1>2 DEF RecordSet, None
  <2>. QED  BY <1>1, <1>2, <1>3, <2>1, IdleShape, WritesStep
<1>. QED  BY <1>1, <1>3, LeavesStep, ThrowsStep DEF Confirm

LEMMA BeginStep ==
    ASSUME CommandsInv, NEW q \in Callers, Begin(q)
    PROVE  CommandsInv'
<1> DEFINE old == records[callers[q].key]
<1>1. /\ CommandsOK /\ UNCHANGED <<case, facade, spent>>
      /\ callers[q] \in CallerSet /\ Carries(callers[q])
    BY DEF CommandsInv, CommandsOK, Begin
<1>2. /\ callers[q] \in Executing /\ callers[q].key \in Keys
      /\ callers[q].command \in CommandSet /\ callers[q].resumed \in BOOLEAN
      /\ ExecuteCall(callers[q].command, callers[q].key) \in spent
    BY <1>1, CallerShape DEF Begin, At, Executing, Carries
<1>3. CASE /\ IsSameCommand(q, old)
           /\ Writes(q, [state |-> "executing", command |-> old.command, lease |-> q, live |-> TRUE],
                     [callers[q] EXCEPT !.at = "check", !.command = old.command,
                                        !.resumed = old.state = "executing"])
  <2>1. old # None /\ old.command = callers[q].command
    BY <1>3 DEF IsSameCommand
  <2>2. old.command.key = callers[q].key /\ Confirmed(old.command)
    BY <1>2, <2>1 DEF CommandsInv, RecordsConfirmed
  <2>3. PICK r \in RecordSet \ {None} :
          r = [state |-> "executing", command |-> old.command, lease |-> q, live |-> TRUE]
    BY <1>2, <2>1 DEF RecordSet, None
  <2>4. PICK resumed \in BOOLEAN : resumed = (old.state = "executing")
    OBVIOUS
  <2>5. PICK c : c = [callers[q] EXCEPT !.at = "check", !.command = old.command, !.resumed = resumed]
    OBVIOUS
  <2>6. /\ c \in CallerSet
        /\ c.at = "check" /\ c.key = callers[q].key /\ c.command = callers[q].command
        /\ c = [callers[q] EXCEPT !.at = "check", !.command = old.command,
                                  !.resumed = old.state = "executing"]
    <3>1. /\ c \in Executing
          /\ c.at = "check" /\ c.key = callers[q].key /\ c.command = callers[q].command
      BY <1>2, <2>1, <2>5 DEF Executing, UnderLease
    <3>2. c = [callers[q] EXCEPT !.at = "check", !.command = old.command,
                                 !.resumed = old.state = "executing"]
      BY <2>4, <2>5, Zenon
    <3>. QED  BY <3>1, <3>2 DEF CallerSet
  <2>7. Writes(q, r, c)
    BY <1>3, <2>3, <2>6
  <2>8. r.command = old.command /\ r.state # "completed"
    BY <2>3
  <2>9. PICK k \in Keys : k = callers[q].key
    BY <1>2
  <2>10. /\ records[k] # None => r.command = records[k].command
         /\ r.command.key = k /\ Confirmed(r.command)
         /\ c.at = "check" /\ c.key = k /\ c.command = r.command
         /\ ExecuteCall(c.command, k) \in spent
    BY <1>2, <2>1, <2>2, <2>6, <2>8, <2>9
  <2>. QED  BY <1>1, <2>6, <2>7, <2>8, <2>9, <2>10, WritesStep
<1>. QED  BY <1>1, <1>3, LeavesStep, ThrowsStep DEF Begin

LEMMA EndStep ==
    ASSUME CommandsInv, NEW q \in Callers, Complete(q) \/ Abandon(q)
    PROVE  CommandsInv'
<1> DEFINE old == records[callers[q].key]
<1>1. /\ CommandsOK /\ UNCHANGED <<case, facade, spent>>
      /\ callers[q].at \in UnderLease /\ Carries(callers[q])
    BY DEF CommandsInv, Complete, Abandon, At, UnderLease
<1>2. /\ callers[q].key \in Keys /\ old # None /\ old.command = callers[q].command
      /\ old.command \in CommandSet
    BY <1>1, LeaseShape DEF Carries
<1>3. old.command.key = callers[q].key /\ Confirmed(old.command)
    BY <1>2 DEF CommandsInv, RecordsConfirmed
<1>4. ASSUME NEW state \in {"confirmed", "completed"},
             Writes(q, [state |-> state, command |-> old.command], Idle),
             state = "completed" => callers[q].at = "complete"
      PROVE  CommandsInv'
  <2>1. PICK r \in RecordSet \ {None} : r = [state |-> state, command |-> old.command]
    BY <1>2 DEF RecordSet, None
  <2>2. r.state = "completed" => case.deleted \/ r.command.proposal \in Effects
    BY <1>1, <1>2, <1>4, <2>1 DEF Carries
  <2>. QED  BY <1>1, <1>2, <1>3, <1>4, <2>1, <2>2, IdleShape, WritesStep
<1>. QED  BY <1>1, <1>4, LeavesStep, ThrowsStep DEF Complete, Abandon, At

-----------------------------------------------------------------------------

LEMMA CommandsInitInv == CommandsInit => CommandsInv
<1> SUFFICES ASSUME CommandsInit
             PROVE  CommandsInv
    OBVIOUS
<1>1. CommandsOK
    BY RecordShape, IdleShape DEF CommandsInit, CommandsOK, NewSession, CaseStates, RecordSet
<1>2. RecordsConfirmed /\ \A q \in Callers : Carries(callers[q])
    BY IdleShape DEF CommandsInit, RecordsConfirmed
<1>3. EffectsAreApproved /\ CompletedHasEffect
    BY DEF CommandsInit, EffectsAreApproved, CompletedHasEffect, None
<1>. QED  BY <1>1, <1>2, <1>3 DEF CommandsInv

LEMMA CommandsStep == CommandsInv /\ [CommandsNext]_commands => CommandsInv'
<1> SUFFICES ASSUME CommandsInv, [CommandsNext]_commands
             PROVE  CommandsInv'
    OBVIOUS
<1>1. CASE UNCHANGED commands
  <2>1. CommandsOK' /\ Effects' = Effects
    BY <1>1 DEF commands, CommandsInv, CommandsOK, Effects
  <2>. QED  BY <1>1, <2>1, StoreAsleep DEF commands
<1>2. ASSUME NEW q \in Callers,
             \/ \E call \in facade.tokens : Call(q, call)
             \/ ReadsRevision(q) \/ Preview(q) \/ Confirm(q)
             \/ Begin(q) \/ Check(q) \/ Read(q) \/ Save(q) \/ Log(q) \/ AppendEvent(q)
             \/ Complete(q) \/ Abandon(q)
      PROVE  CommandsInv'
    BY <1>2, CallStep, ConfirmingStep, ConfirmStep, BeginStep, LookStep, EffectStep, EndStep
<1>. QED  BY <1>1, <1>2, FacadeStep, LeaseStep, PersonStep, FacadeRestart
          DEF CommandsNext, CaseStates

\* RestrictedAgentMcpFacade.call with the store of executions, for any number of
\* calls, keys and proposals: whatever a command has changed in the case, a person
\* had approved its confirmation and its execution, for this proposal, revision and
\* key; and a command recorded as completed has changed what it was to change.
THEOREM CommandsAreApprovedHolds == CommandsSpec => []CommandsAreApproved
<1>1. CommandsInv => CommandsAreApproved
    BY DEF CommandsInv, CommandsAreApproved
<1>. QED  BY <1>1, CommandsInitInv, CommandsStep, PTL DEF CommandsSpec

=============================================================================
