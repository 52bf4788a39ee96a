---------------------------- MODULE Pages_proofs ----------------------------
(***************************************************************************)
(* Proofs about what several work on at the same time: the places of the   *)
(* orchestrations, for any number of executions, signals and places; the   *)
(* settings, for any number of identities, requests and revisions; the     *)
(* application cases and their page, for any number of cases and jobs; the *)
(* vault of the mails, for any number of accounts, mails and calls; the    *)
(* pages of the web client, for any number of imports, flows and runs.     *)
(***************************************************************************)
EXTENDS MCPages, MCWeb, FiniteSetTheorems, SequenceTheorems, TLAPS

-----------------------------------------------------------------------------
(* The places of the orchestrations *)

(***************************************************************************)
(* Type correctness, with the meaning of the counter: it is the number of  *)
(* executions that hold a place, and so never goes below zero.             *)
(***************************************************************************)

Counted == active = Cardinality(Holders)

TypeInv == TypeOK /\ Counted /\ WaitersWait

\* A set of executions is finite, and gains or loses exactly one element.
LEMMA HoldersFinite ==
    ASSUME NEW S \in SUBSET Callers
    PROVE  /\ IsFiniteSet(S) /\ Cardinality(S) \in Nat
           /\ \A c \in Callers \ S :
                Cardinality(S \union {c}) = Cardinality(S) + 1
           /\ \A c \in S : /\ Cardinality(S \ {c}) = Cardinality(S) - 1
                           /\ Cardinality(S) >= 1
<1>1. IsFiniteSet(S)
    BY SemaphoreAssumption, FS_Subset
<1>2. Cardinality(S) \in Nat
    BY <1>1, FS_CardinalityType
<1>3. ASSUME NEW c \in Callers \ S
      PROVE  Cardinality(S \union {c}) = Cardinality(S) + 1
    BY <1>1, FS_AddElement
<1>4. ASSUME NEW c \in S
      PROVE  Cardinality(S \ {c}) = Cardinality(S) - 1 /\ Cardinality(S) >= 1
  <2>1. Cardinality(S \ {c}) = Cardinality(S) - 1
      BY <1>1, FS_RemoveElement
  <2>2. IsFiniteSet(S \ {c})
      BY <1>1, FS_Subset
  <2>3. Cardinality(S \ {c}) \in Nat
      BY <2>2, FS_CardinalityType
  <2>. QED  BY <1>2, <2>1, <2>3
<1>. QED  BY <1>1, <1>2, <1>3, <1>4

\* One execution begins or ceases to hold a place.
LEMMA TakesPlace ==
    ASSUME TypeInv, NEW c \in Callers, pc[c] # "holding",
           Holders' = Holders \union {c}, active' = active + 1
    PROVE  Counted'
<1>1. c \in Callers \ Holders /\ Holders \in SUBSET Callers
    BY DEF Holders
<1>. QED  BY <1>1, HoldersFinite DEF TypeInv, Counted

LEMMA LeavesPlace ==
    ASSUME TypeInv, NEW c \in Callers, pc[c] = "holding",
           Holders' = Holders \ {c}, active' = active - 1
    PROVE  Counted' /\ active' \in Nat
<1>1. c \in Holders /\ Holders \in SUBSET Callers
    BY DEF Holders
<1>2. active \in Nat /\ active >= 1
    BY <1>1, HoldersFinite DEF TypeInv, Counted
<1>. QED  BY <1>1, <1>2, HoldersFinite DEF TypeInv, Counted

\* What a grant finds: an array whose elements wait, each of them once.
LEMMA HeadWaits ==
    ASSUME TypeInv, waiters # <<>>
    PROVE  /\ Head(waiters) \in Callers /\ pc[Head(waiters)] = "waiting"
           /\ Tail(waiters) \in Seq(Callers)
           /\ DOMAIN Tail(waiters) = 1 .. Len(waiters) - 1
           /\ \A i \in 1 .. Len(waiters) - 1 : Tail(waiters)[i] = waiters[i + 1]
           /\ DOMAIN waiters = 1 .. Len(waiters) /\ Len(waiters) \in Nat \ {0}
<1>1. waiters \in Seq(Callers)
    BY DEF TypeInv, TypeOK
<1>2. /\ Len(waiters) \in Nat \ {0} /\ DOMAIN waiters = 1 .. Len(waiters)
      /\ Head(waiters) = waiters[1]
    BY <1>1
<1>3. /\ Tail(waiters) \in Seq(Callers) /\ Len(Tail(waiters)) = Len(waiters) - 1
      /\ \A i \in 1 .. Len(waiters) - 1 : Tail(waiters)[i] = waiters[i + 1]
    BY <1>1
<1>4. Head(waiters) \in {waiters[i] : i \in DOMAIN waiters}
    BY <1>2
<1>5. Head(waiters) \in {c \in Callers : pc[c] = "waiting"}
    BY <1>4 DEF TypeInv, WaitersWait
<1>. QED  BY <1>1, <1>2, <1>3, <1>5

\* An array that stays, while no execution begins or ceases to wait.
LEMMA SameWaiters ==
    ASSUME WaitersWait, waiters' = waiters,
           \A c \in Callers : pc'[c] = "waiting" <=> pc[c] = "waiting"
    PROVE  WaitersWait'
<1>1. {c \in Callers : pc'[c] = "waiting"} = {c \in Callers : pc[c] = "waiting"}
    OBVIOUS
<1>. QED  BY <1>1 DEF WaitersWait

\* The initial states.
LEMMA TypeInit == Init => TypeInv
<1> SUFFICES ASSUME Init PROVE TypeInv
    OBVIOUS
<1>1. Holders = {}
    BY DEF Init, Holders
<1>2. Counted
    BY <1>1, FS_EmptySet DEF Init, Counted
<1>3. {waiters[i] : i \in DOMAIN waiters} = {}
    BY DEF Init
<1>4. {c \in Callers : pc[c] = "waiting"} = {}
    BY DEF Init
<1>5. WaitersWait
    BY <1>3, <1>4 DEF Init, WaitersWait
<1>. QED  BY <1>2, <1>5 DEF Init, TypeInv, TypeOK, Places

LEMMA AcquireRefusedType ==
    ASSUME TypeInv, NEW c \in Callers, AcquireRefused(c)
    PROVE  TypeInv'
<1> USE DEF AcquireRefused, TypeInv
<1>1. TypeOK' /\ Holders' = Holders
    BY DEF TypeOK, Places, Holders
<1>2. WaitersWait'
    BY SameWaiters DEF TypeOK
<1>. QED  BY <1>1, <1>2 DEF Counted

LEMMA AcquireFreeType ==
    ASSUME TypeInv, NEW c \in Callers, AcquireFree(c)
    PROVE  TypeInv'
<1>1. /\ TypeOK' /\ pc[c] # "holding" /\ active' = active + 1
      /\ Holders' = Holders \union {c}
    BY DEF AcquireFree, TypeInv, TypeOK, Places, Holders
<1>2. Counted'
    BY <1>1, TakesPlace
<1>3. WaitersWait'
    BY SameWaiters DEF AcquireFree, TypeInv, TypeOK
<1>. QED  BY <1>1, <1>2, <1>3 DEF TypeInv

LEMMA AcquireWaitsType ==
    ASSUME TypeInv, NEW c \in Callers, AcquireWaits(c)
    PROVE  TypeInv'
<1>1. /\ waiters \in Seq(Callers) /\ waiters' = Append(waiters, c)
      /\ pc[c] = "out" /\ pc' = [pc EXCEPT ![c] = "waiting"]
      /\ pc \in [Callers -> Places]
    BY DEF AcquireWaits, TypeInv, TypeOK
<1>2. TypeOK' /\ Holders' = Holders
    BY <1>1 DEF AcquireWaits, TypeInv, TypeOK, Places, Holders
<1>3. /\ Len(waiters) \in Nat /\ DOMAIN waiters = 1 .. Len(waiters)
      /\ DOMAIN waiters' = 1 .. Len(waiters) + 1
      /\ \A i \in 1 .. Len(waiters) : waiters'[i] = waiters[i]
      /\ waiters'[Len(waiters) + 1] = c
    BY <1>1
<1>4. c \notin {waiters[i] : i \in DOMAIN waiters}
    BY <1>1 DEF TypeInv, WaitersWait
<1>5. \A i, j \in DOMAIN waiters' : waiters'[i] = waiters'[j] => i = j
  <2> SUFFICES ASSUME NEW i \in 1 .. Len(waiters) + 1,
                      NEW j \in 1 .. Len(waiters) + 1, waiters'[i] = waiters'[j]
               PROVE  i = j
      BY <1>3
  <2>1. CASE i \in 1 .. Len(waiters) /\ j \in 1 .. Len(waiters)
      BY <1>3, <2>1 DEF TypeInv, WaitersWait
  <2>2. CASE i = Len(waiters) + 1 /\ j \in 1 .. Len(waiters)
      BY <1>3, <1>4, <2>2
  <2>3. CASE j = Len(waiters) + 1 /\ i \in 1 .. Len(waiters)
      BY <1>3, <1>4, <2>3
  <2>. QED  BY <1>3, <2>1, <2>2, <2>3
<1>6. {waiters'[i] : i \in DOMAIN waiters'}
        = {waiters[i] : i \in DOMAIN waiters} \union {c}
  <2>1. 1 .. Len(waiters) + 1 = (1 .. Len(waiters)) \union {Len(waiters) + 1}
      BY <1>3
  <2>. QED  BY <1>3, <2>1
<1>7. {d \in Callers : pc'[d] = "waiting"}
        = {d \in Callers : pc[d] = "waiting"} \union {c}
    BY <1>1
<1>8. WaitersWait'
    BY <1>5, <1>6, <1>7 DEF TypeInv, WaitersWait
<1>. QED  BY <1>2, <1>8 DEF AcquireWaits, TypeInv, Counted

LEMMA ContinueType ==
    ASSUME TypeInv, NEW c \in Callers, Continue(c)
    PROVE  TypeInv'
<1>1. WaitersWait'
    BY SameWaiters DEF Continue, TypeInv, TypeOK
<1>2. CASE IsAborted(c)
  <2>1. TypeOK' /\ Holders' = Holders
      BY <1>2 DEF Continue, TypeInv, TypeOK, Places, Holders
  <2>. QED  BY <1>1, <1>2, <2>1 DEF Continue, TypeInv, Counted
<1>3. CASE ~IsAborted(c)
  <2>1. /\ TypeOK' /\ pc[c] # "holding" /\ active' = active + 1
        /\ Holders' = Holders \union {c}
      BY <1>3 DEF Continue, TypeInv, TypeOK, Places, Holders
  <2>2. Counted'
      BY <2>1, TakesPlace
  <2>. QED  BY <1>1, <2>1, <2>2 DEF TypeInv
<1>. QED  BY <1>2, <1>3

LEMMA ReleaseType ==
    ASSUME TypeInv, NEW c \in Callers, Release(c)
    PROVE  TypeInv'
<1>1. pc[c] = "holding" /\ active' = active - 1 /\ aborted' = aborted
    BY DEF Release
<1>2. CASE waiters = <<>>
  <2>1. waiters' = waiters /\ pc' = [pc EXCEPT ![c] = "out"]
      BY <1>2 DEF Release
  <2>2. Holders' = Holders \ {c} /\ pc' \in [Callers -> Places]
      BY <2>1 DEF TypeInv, TypeOK, Places, Holders
  <2>3. Counted' /\ active' \in Nat
      BY <1>1, <2>2, LeavesPlace
  <2>4. WaitersWait'
      BY <1>1, <2>1, SameWaiters DEF TypeInv, TypeOK
  <2>. QED  BY <1>1, <2>1, <2>2, <2>3, <2>4 DEF TypeInv, TypeOK
<1>3. CASE waiters # <<>>
  <2> DEFINE h == Head(waiters)
             n == Len(waiters)
  <2>1. waiters' = Tail(waiters) /\ pc' = [pc EXCEPT ![c] = "out", ![h] = "granted"]
      BY <1>3 DEF Release
  <2>2. /\ h \in Callers /\ pc[h] = "waiting" /\ h # c
        /\ waiters' \in Seq(Callers) /\ DOMAIN waiters' = 1 .. n - 1
        /\ \A i \in 1 .. n - 1 : waiters'[i] = waiters[i + 1]
        /\ DOMAIN waiters = 1 .. n /\ n \in Nat \ {0}
      BY <1>1, <1>3, <2>1, HeadWaits
  <2>3. waiters \in Seq(Callers) /\ h = waiters[1]
      BY <1>3 DEF TypeInv, TypeOK
  <2> HIDE DEF h, n
  <2>4. pc' \in [Callers -> Places] /\ Holders' = Holders \ {c}
      BY <2>1, <2>2 DEF TypeInv, TypeOK, Places, Holders
  <2>5. Counted' /\ active' \in Nat
      BY <1>1, <2>4, LeavesPlace
  <2>6. \A i, j \in DOMAIN waiters : waiters[i] = waiters[j] => i = j
      BY DEF TypeInv, WaitersWait
  <2>7. \A i, j \in DOMAIN waiters' : waiters'[i] = waiters'[j] => i = j
    <3> SUFFICES ASSUME NEW i \in 1 .. n - 1, NEW j \in 1 .. n - 1,
                        waiters'[i] = waiters'[j]
                 PROVE  i = j
        BY <2>2
    <3>1. i + 1 \in 1 .. n /\ j + 1 \in 1 .. n
        BY <2>2
    <3>2. i + 1 = j + 1
        BY <2>2, <2>6, <3>1
    <3>. QED  BY <3>2
  <2>8. {waiters'[i] : i \in DOMAIN waiters'}
          = {waiters[i] : i \in DOMAIN waiters} \ {h}
    <3>1. \A i \in 1 .. n - 1 : i + 1 \in 1 .. n /\ waiters[i + 1] # h
      <4> SUFFICES ASSUME NEW i \in 1 .. n - 1
                   PROVE  i + 1 \in 1 .. n /\ waiters[i + 1] # h
          OBVIOUS
      <4>1. i + 1 \in 1 .. n /\ 1 \in 1 .. n /\ i + 1 # 1
          BY <2>2
      <4>. QED  BY <2>2, <2>3, <2>6, <4>1
    <3>2. \A k \in 1 .. n : k = 1 \/ (k - 1 \in 1 .. n - 1 /\ waiters'[k - 1] = waiters[k])
      <4> SUFFICES ASSUME NEW k \in 1 .. n, k # 1
                   PROVE  k - 1 \in 1 .. n - 1 /\ waiters'[k - 1] = waiters[k]
          OBVIOUS
      <4>1. k - 1 \in 1 .. n - 1 /\ (k - 1) + 1 = k
          BY <2>2
      <4>. QED  BY <2>2, <4>1
    <3>3. ASSUME NEW i \in 1 .. n - 1
          PROVE  waiters'[i] \in {waiters[k] : k \in 1 .. n} \ {h}
        BY <2>2, <3>1
    <3>4. ASSUME NEW k \in 1 .. n, waiters[k] # h
          PROVE  waiters[k] \in {waiters'[i] : i \in 1 .. n - 1}
        BY <2>3, <3>2, <3>4
    <3>. QED  BY <2>2, <3>3, <3>4
  <2>9. {d \in Callers : pc'[d] = "waiting"}
          = {d \in Callers : pc[d] = "waiting"} \ {h}
      BY <1>1, <2>1, <2>2 DEF TypeInv, TypeOK
  <2>10. WaitersWait'
      BY <2>7, <2>8, <2>9 DEF TypeInv, WaitersWait
  <2>. QED  BY <1>1, <2>2, <2>4, <2>5, <2>10 DEF TypeInv, TypeOK
<1>. QED  BY <1>2, <1>3

LEMMA AbortType ==
    ASSUME TypeInv, NEW s \in Signals, Abort(s)
    PROVE  TypeInv'
<1> DEFINE kept == {i \in DOMAIN waiters : SignalOf[waiters[i]] # s}
<1>1. PICK f \in Increasing(kept) : waiters' = [i \in DOMAIN f |-> waiters[f[i]]]
    BY DEF Abort
<1>2. /\ pc' = [c \in Callers |->
                  IF pc[c] = "waiting" /\ SignalOf[c] = s THEN "refused" ELSE pc[c]]
      /\ aborted' = aborted \union {s} /\ active' = active
    BY DEF Abort
<1>3. /\ waiters \in Seq(Callers) /\ DOMAIN waiters = 1 .. Len(waiters)
      /\ Len(waiters) \in Nat /\ \A i \in DOMAIN waiters : waiters[i] \in Callers
    BY DEF TypeInv, TypeOK
<1>4. IsFiniteSet(kept) /\ kept \subseteq DOMAIN waiters
  <2>1. IsFiniteSet(1 .. Len(waiters))
      BY <1>3, FS_Interval
  <2>. QED  BY <1>3, <2>1, FS_Subset
<1>5. Cardinality(kept) \in Nat
    BY <1>4, FS_CardinalityType
<1>6. f \in Bijection(1 .. Cardinality(kept), kept)
    BY <1>1 DEF Increasing
<1> HIDE DEF kept
<1>7. /\ f \in [1 .. Cardinality(kept) -> kept]
      /\ \A i, j \in 1 .. Cardinality(kept) : f[i] = f[j] => i = j
      /\ \A k \in kept : \E i \in 1 .. Cardinality(kept) : f[i] = k
    BY <1>6 DEF Bijection, Injection, Surjection, IsInjective
<1>8. waiters' = [i \in 1 .. Cardinality(kept) |-> waiters[f[i]]]
    BY <1>1, <1>7
<1>9. waiters' \in [1 .. Cardinality(kept) -> Callers]
    BY <1>3, <1>4, <1>7, <1>8
<1>10. waiters' \in Seq(Callers)
    BY <1>5, <1>9, SeqDef
<1>11. \A i, j \in DOMAIN waiters' : waiters'[i] = waiters'[j] => i = j
  <2> SUFFICES ASSUME NEW i \in 1 .. Cardinality(kept), NEW j \in 1 .. Cardinality(kept),
                      waiters'[i] = waiters'[j]
               PROVE  i = j
      BY <1>8
  <2>1. f[i] \in DOMAIN waiters /\ f[j] \in DOMAIN waiters /\ waiters[f[i]] = waiters[f[j]]
      BY <1>4, <1>7, <1>8
  <2>2. f[i] = f[j]
      BY <2>1 DEF TypeInv, WaitersWait
  <2>. QED  BY <1>7, <2>2
<1>12. {waiters'[i] : i \in DOMAIN waiters'} = {waiters[k] : k \in kept}
    BY <1>7, <1>8
<1>13. {waiters[k] : k \in kept}
         = {waiters[i] : i \in DOMAIN waiters} \ {c \in Callers : SignalOf[c] = s}
    BY <1>3 DEF kept
<1>14. {c \in Callers : pc'[c] = "waiting"}
         = {c \in Callers : pc[c] = "waiting"} \ {c \in Callers : SignalOf[c] = s}
    BY <1>2
<1>15. WaitersWait'
    BY <1>11, <1>12, <1>13, <1>14 DEF TypeInv, WaitersWait
<1>16. Holders' = Holders /\ pc' \in [Callers -> Places]
    BY <1>2 DEF TypeInv, TypeOK, Places, Holders
<1>. QED  BY <1>2, <1>10, <1>15, <1>16 DEF TypeInv, TypeOK, Counted

\* Every step preserves TypeInv.
LEMMA TypeStep == TypeInv /\ [Next]_vars => TypeInv'
<1> SUFFICES ASSUME TypeInv, [Next]_vars
             PROVE  TypeInv'
    OBVIOUS
<1>1. CASE UNCHANGED vars
    BY <1>1 DEF vars, TypeInv, TypeOK, Counted, Holders, WaitersWait
<1>2. ASSUME NEW c \in Callers,
             \/ AcquireRefused(c) \/ AcquireFree(c) \/ AcquireWaits(c)
             \/ Continue(c) \/ Release(c)
      PROVE  TypeInv'
    BY <1>2, AcquireRefusedType, AcquireFreeType, AcquireWaitsType, ContinueType,
       ReleaseType
<1>3. ASSUME NEW s \in Signals, Abort(s)
      PROVE  TypeInv'
    BY <1>3, AbortType
<1>. QED  BY <1>1, <1>2, <1>3 DEF Next

\* The array of pending grants agrees with the pending calls in every
\* reachable state, whenever the continuations run.
THEOREM WaitersWaitHolds == Spec => []WaitersWait
<1>1. Init => TypeInv
    BY TypeInit
<1>2. TypeInv /\ [Next]_vars => TypeInv'
    BY TypeStep
<1>3. TypeInv => WaitersWait
    BY DEF TypeInv
<1>. QED  BY <1>1, <1>2, <1>3, PTL DEF Spec

(***************************************************************************)
(* The bound, when a granted continuation runs before other jobs.  Between *)
(* release() and the continuation the place is reserved by nothing but     *)
(* that order: the invariant says that the counter is then one below what  *)
(* is given away, and that nobody else is granted.                         *)
(***************************************************************************)

SomeGrant == \E c \in Callers : pc[c] = "granted"

GrantsAreSingle ==
    \A c, d \in Callers : pc[c] = "granted" /\ pc[d] = "granted" => c = d

WaitersAreNotAborted ==
    \A c \in Callers : pc[c] \in {"waiting", "granted"} => ~IsAborted(c)

PlacesGiven == IF SomeGrant THEN active + 1 ELSE active

PlacesBounded ==
    /\ PlacesGiven <= Maximum
    /\ waiters # <<>> => PlacesGiven = Maximum

BoundInv ==
    /\ TypeInv
    /\ GrantsAreSingle
    /\ WaitersAreNotAborted
    /\ PlacesBounded

\* The array is empty exactly when nobody waits.
LEMMA EmptyArray ==
    TypeInv => (waiters = <<>> <=> \A c \in Callers : pc[c] # "waiting")
<1> SUFFICES ASSUME TypeInv
             PROVE  waiters = <<>> <=> \A c \in Callers : pc[c] # "waiting"
    OBVIOUS
<1>1. /\ waiters \in Seq(Callers) /\ DOMAIN waiters = 1 .. Len(waiters)
      /\ Len(waiters) \in Nat /\ (waiters = <<>> <=> Len(waiters) = 0)
    BY DEF TypeInv, TypeOK
<1>2. {waiters[i] : i \in DOMAIN waiters} = {c \in Callers : pc[c] = "waiting"}
    BY DEF TypeInv, WaitersWait
<1>3. ASSUME waiters = <<>> PROVE \A c \in Callers : pc[c] # "waiting"
    BY <1>1, <1>2, <1>3
<1>4. ASSUME waiters # <<>> PROVE \E c \in Callers : pc[c] = "waiting"
  <2>1. 1 \in DOMAIN waiters
      BY <1>1, <1>4
  <2>. QED  BY <1>2, <2>1
<1>. QED  BY <1>3, <1>4

LEMMA BoundInit == Init => BoundInv
<1> SUFFICES ASSUME Init PROVE BoundInv
    OBVIOUS
<1>1. TypeInv
    BY TypeInit
<1>2. Maximum \in Nat
    BY SemaphoreAssumption
<1>. QED
    BY <1>1, <1>2 DEF Init, BoundInv, GrantsAreSingle, WaitersAreNotAborted,
       PlacesBounded, PlacesGiven, SomeGrant

\* Every step preserves BoundInv.
LEMMA BoundStep ==
    ASSUME GrantRunsFirst, BoundInv, [Next]_vars
    PROVE  BoundInv'
<1>1. TypeInv /\ TypeInv'
    BY TypeStep DEF BoundInv
<1>2. /\ active \in Nat /\ active' \in Nat /\ Maximum \in Nat
      /\ pc \in [Callers -> Places] /\ pc' \in [Callers -> Places]
    BY <1>1, SemaphoreAssumption DEF TypeInv, TypeOK
<1> USE DEF GrantsAreSingle, WaitersAreNotAborted, IsAborted, SomeGrant
<1>3. ASSUME NEW c \in Callers, AcquireRefused(c)
      PROVE  BoundInv'
  <2>1. GrantsAreSingle' /\ WaitersAreNotAborted' /\ (SomeGrant' <=> SomeGrant)
      BY <1>2, <1>3 DEF AcquireRefused, BoundInv
  <2>. QED  BY <1>1, <1>3, <2>1 DEF AcquireRefused, BoundInv, PlacesBounded, PlacesGiven
<1>4. ASSUME NEW c \in Callers, AcquireFree(c)
      PROVE  BoundInv'
  <2>1. /\ GrantsAreSingle' /\ WaitersAreNotAborted' /\ ~SomeGrant /\ ~SomeGrant'
      BY <1>2, <1>4 DEF AcquireFree, BoundInv, JobMayRun
  <2>2. waiters = <<>>
      BY <1>2, <1>4, <2>1 DEF AcquireFree, BoundInv, PlacesBounded, PlacesGiven
  <2>. QED
      BY <1>1, <1>2, <1>4, <2>1, <2>2
      DEF AcquireFree, BoundInv, PlacesBounded, PlacesGiven
<1>5. ASSUME NEW c \in Callers, AcquireWaits(c)
      PROVE  BoundInv'
  <2>1. /\ GrantsAreSingle' /\ WaitersAreNotAborted' /\ ~SomeGrant /\ ~SomeGrant'
      BY <1>2, <1>5 DEF AcquireWaits, BoundInv, JobMayRun
  <2>2. active = Maximum
      BY <1>2, <1>5, <2>1 DEF AcquireWaits, BoundInv, PlacesBounded, PlacesGiven
  <2>. QED
      BY <1>1, <1>2, <1>5, <2>1, <2>2
      DEF AcquireWaits, BoundInv, PlacesBounded, PlacesGiven
<1>6. ASSUME NEW c \in Callers, Continue(c)
      PROVE  BoundInv'
  <2>1. SomeGrant /\ ~IsAborted(c)
      BY <1>6 DEF Continue, BoundInv
  <2>2. /\ pc' = [pc EXCEPT ![c] = "holding"] /\ active' = active + 1
        /\ waiters' = waiters /\ aborted' = aborted
      BY <1>6, <2>1 DEF Continue
  <2>3. GrantsAreSingle' /\ WaitersAreNotAborted' /\ ~SomeGrant'
      BY <1>2, <1>6, <2>2 DEF Continue, BoundInv
  <2>. QED
      BY <1>1, <2>1, <2>2, <2>3 DEF BoundInv, PlacesBounded, PlacesGiven
<1>7. ASSUME NEW c \in Callers, Release(c)
      PROVE  BoundInv'
  <2>1. ~SomeGrant /\ active' = active - 1 /\ aborted' = aborted
      BY <1>7 DEF Release, JobMayRun
  <2>2. CASE waiters = <<>>
    <3>1. /\ GrantsAreSingle' /\ WaitersAreNotAborted' /\ ~SomeGrant'
          /\ waiters' = <<>>
        BY <1>2, <1>7, <2>1, <2>2 DEF Release, BoundInv
    <3>. QED
        BY <1>1, <1>2, <2>1, <3>1 DEF BoundInv, PlacesBounded, PlacesGiven
  <2>3. CASE waiters # <<>>
    <3> DEFINE h == Head(waiters)
    <3>1. /\ waiters' = Tail(waiters)
          /\ pc' = [pc EXCEPT ![c] = "out", ![h] = "granted"]
        BY <1>7, <2>3 DEF Release
    <3>2. h \in Callers /\ pc[h] = "waiting" /\ h # c
        BY <1>1, <1>7, <2>3, HeadWaits DEF Release
    <3> HIDE DEF h
    <3>3. GrantsAreSingle' /\ WaitersAreNotAborted' /\ SomeGrant'
        BY <1>2, <2>1, <3>1, <3>2 DEF BoundInv
    <3>4. active = Maximum
        BY <2>1, <2>3 DEF BoundInv, PlacesBounded, PlacesGiven
    <3>. QED
        BY <1>1, <1>2, <2>1, <3>3, <3>4 DEF BoundInv, PlacesBounded, PlacesGiven
  <2>. QED  BY <2>2, <2>3
<1>8. ASSUME NEW s \in Signals, Abort(s)
      PROVE  BoundInv'
  <2>1. /\ ~SomeGrant /\ active' = active /\ aborted' = aborted \union {s}
        /\ pc' = [c \in Callers |->
                    IF pc[c] = "waiting" /\ SignalOf[c] = s THEN "refused" ELSE pc[c]]
      BY <1>8 DEF Abort, JobMayRun
  <2>2. GrantsAreSingle' /\ ~SomeGrant'
      BY <2>1 DEF BoundInv
  <2>3. WaitersAreNotAborted'
      BY <2>1 DEF BoundInv
  <2>4. waiters' # <<>> => waiters # <<>>
    <3>1. (waiters = <<>> <=> \A c \in Callers : pc[c] # "waiting")'
        BY <1>1, EmptyArray, PTL
    <3>2. \A c \in Callers : pc'[c] = "waiting" => pc[c] = "waiting"
        BY <2>1
    <3>. QED  BY <1>1, <3>1, <3>2, EmptyArray
  <2>. QED
      BY <1>1, <2>1, <2>2, <2>3, <2>4 DEF BoundInv, PlacesBounded, PlacesGiven
<1>9. CASE UNCHANGED vars
    BY <1>1, <1>9 DEF vars, BoundInv, PlacesBounded, PlacesGiven
<1>. QED  BY <1>3, <1>4, <1>5, <1>6, <1>7, <1>8, <1>9 DEF Next

\* What the invariant says of the places.
LEMMA BoundImplies == BoundInv => PlacesUsed
<1> SUFFICES ASSUME BoundInv PROVE AtMostMaximum /\ NoIdlePlace
    BY DEF PlacesUsed
<1> DEFINE G == {c \in Callers : pc[c] = "granted"}
<1>1. active \in Nat /\ Maximum \in Nat /\ active = Cardinality(Holders)
    BY SemaphoreAssumption DEF BoundInv, TypeInv, TypeOK, Counted
<1>2. CASE SomeGrant
  <2>1. PICK c \in Callers : pc[c] = "granted"
      BY <1>2 DEF SomeGrant
  <2>2. G = {c}
      BY <2>1 DEF BoundInv, GrantsAreSingle
  <2>3. Cardinality(G) = 1
      BY <2>2, FS_Singleton
  <2>. QED
      BY <1>1, <1>2, <2>3
      DEF BoundInv, PlacesBounded, PlacesGiven, AtMostMaximum, NoIdlePlace
<1>3. CASE ~SomeGrant
  <2>1. G = {}
      BY <1>3 DEF SomeGrant
  <2>2. Cardinality(G) = 0
      BY <2>1, FS_EmptySet
  <2>. QED
      BY <1>1, <1>3, <2>2
      DEF BoundInv, PlacesBounded, PlacesGiven, AtMostMaximum, NoIdlePlace
<1>. QED  BY <1>2, <1>3

\* maxParallelNodes bounds the executions, and no place is idle while one
\* waits, for any number of executions, orchestrations and aborts, if the
\* continuation of a grant runs before other jobs.
THEOREM PlacesUsedHolds ==
    ASSUME GrantRunsFirst
    PROVE  Spec => []PlacesUsed
<1>1. Init => BoundInv
    BY BoundInit
<1>2. BoundInv /\ [Next]_vars => BoundInv'
    BY BoundStep
<1>3. BoundInv => PlacesUsed
    BY BoundImplies
<1>. QED  BY <1>1, <1>2, <1>3, PTL DEF Spec

\* An execution enters only through AcquireFree(), or with a grant: in the
\* first case no continuation is pending, so that a waiter would mean that
\* every place is taken.
LEMMA NobodyOvertakes ==
    ASSUME GrantRunsFirst, BoundInv, [Next]_vars,
           NEW c \in Callers, pc[c] = "out", pc'[c] = "holding"
    PROVE  waiters = <<>>
<1>1. /\ active \in Nat /\ Maximum \in Nat /\ pc \in [Callers -> Places]
      /\ waiters # <<>> => Head(waiters) \in Callers
    BY SemaphoreAssumption, HeadWaits DEF BoundInv, TypeInv, TypeOK
<1>2. AcquireFree(c)
  <2>1. pc' # pc
      OBVIOUS
  <2>2. ASSUME NEW d \in Callers, AcquireRefused(d) \/ AcquireWaits(d) \/ Continue(d)
        PROVE  pc'[c] # "holding"
    <3>1. PICK v \in {"refused", "waiting", "holding"} :
            /\ pc' = [pc EXCEPT ![d] = v]
            /\ v = "holding" => pc[d] = "granted"
        BY <2>2 DEF AcquireRefused, AcquireWaits, Continue
    <3>. QED  BY <1>1, <3>1
  <2>3. ASSUME NEW d \in Callers, AcquireFree(d)
        PROVE  d = c
      BY <1>1, <2>3 DEF AcquireFree
  <2>4. ASSUME NEW d \in Callers, Release(d)
        PROVE  pc'[c] # "holding"
      BY <1>1, <2>4 DEF Release
  <2>5. ASSUME NEW s \in Signals, Abort(s)
        PROVE  pc'[c] # "holding"
      BY <2>5 DEF Abort
  <2>. QED  BY <2>1, <2>2, <2>3, <2>4, <2>5 DEF Next, vars
<1>3. ~SomeGrant /\ active < Maximum
    BY <1>2 DEF AcquireFree, JobMayRun, SomeGrant
<1>. QED  BY <1>1, <1>3 DEF BoundInv, PlacesBounded, PlacesGiven

\* A waiter is not overtaken, for any number of executions and orchestrations,
\* if the continuation of a grant runs before other jobs.
THEOREM FirstComeFirstServedHolds ==
    ASSUME GrantRunsFirst
    PROVE  Spec => FirstComeFirstServed
<1>1. Init => BoundInv
    BY BoundInit
<1>2. BoundInv /\ [Next]_vars => BoundInv'
    BY BoundStep
<1>3. BoundInv /\ [Next]_vars =>
        [\A c \in Callers : (pc[c] = "out" /\ pc'[c] = "holding") => waiters = <<>>]_vars
    BY NobodyOvertakes
<1>. QED  BY <1>1, <1>2, <1>3, PTL DEF Spec, FirstComeFirstServed

-----------------------------------------------------------------------------
(* The configuration *)

\* What is read at a revision has the identities of that revision.
ReadOf(v, c) ==
    /\ v.rev \in Int /\ v.rev <= c.rev
    /\ v.rev = c.rev => v.ids = c.ids

IsConfig(c) ==
    /\ c = [rev |-> c.rev, portal |-> c.portal, target |-> c.target, ids |-> c.ids, active |-> c.active]
    /\ c.rev \in Nat

IsRequest(q) == q = [op |-> q.op, arg |-> q.arg, is |-> q.is, got |-> q.got]

RequestRead(q, c) ==
    /\ IsRequest(q) /\ ReadOf(q.got, c)
    /\ q.op = "save" => ReadOf(q.arg, c)

IsCopy(v) == v = [rev |-> v.rev, target |-> v.target, ids |-> v.ids, active |-> v.active]

SettingsInv ==
    /\ IsConfig(config) /\ Config!SettingsStand
    /\ IsCopy(copy) /\ ReadOf(copy, config)
    /\ \A q \in net : RequestRead(q, config) /\ IsCopy(q.got)

\* The configuration stays as it is, or gets the next revision.
Moves(c, d) == IsConfig(c) /\ IsConfig(d) /\ (d = c \/ d.rev = c.rev + 1)

LEMMA ReadStays ==
    ASSUME NEW v, NEW c, NEW d, Moves(c, d), ReadOf(v, c)
    PROVE  ReadOf(v, d)
<1>1. CASE d = c
  BY <1>1
<1>2. CASE d.rev = c.rev + 1
  <2>1. v.rev \in Int /\ c.rev \in Int /\ v.rev <= c.rev
    BY DEF Moves, IsConfig, ReadOf
  <2>2. v.rev <= d.rev /\ v.rev # d.rev
    BY <1>2, <2>1
  <2> QED
    BY <2>1, <2>2 DEF ReadOf
<1> QED
  BY <1>1, <1>2 DEF Moves

\* Whatever a step does to the requests, what it adds has been read of the new configuration.
LEMMA SettingsKept ==
    ASSUME SettingsInv, NEW d, NEW n, NEW v, Moves(config, d),
           \A q \in n : q \in net \/ (RequestRead(q, d) /\ IsCopy(q.got)),
           v = copy \/ (ReadOf(v, d) /\ IsCopy(v))
    PROVE  /\ ReadOf(v, d) /\ IsCopy(v)
           /\ \A q \in n : RequestRead(q, d) /\ IsCopy(q.got)
<1>1. ReadOf(v, d) /\ IsCopy(v)
  BY ReadStays DEF SettingsInv
<1>2. ASSUME NEW q \in n PROVE RequestRead(q, d) /\ IsCopy(q.got)
  <2>1. CASE q \in net
    <3>1. RequestRead(q, config) /\ IsCopy(q.got)
      BY <2>1, Zenon DEF SettingsInv
    <3>2. ReadOf(q.got, d) /\ (q.op = "save" => ReadOf(q.arg, d))
      BY <3>1, ReadStays, Zenon DEF RequestRead
    <3> QED
      BY <3>1, <3>2, Zenon DEF RequestRead
  <2> QED
    BY <2>1
<1> QED
  BY <1>1, <1>2

\* The configuration begins in the invariant.
LEMMA SettingsInit == Config!Init => SettingsInv
<1> SUFFICES ASSUME Config!Init PROVE SettingsInv
  OBVIOUS
<1>1. PICK ids \in SUBSET Identities, a \in Identities, t \in Config!Targets \cup {"demo"} :
        a \in ids /\ config = [rev |-> 0, portal |-> FALSE, target |-> t, ids |-> ids, active |-> a]
  BY Zenon DEF Config!Init
<1>2. IsConfig(config) /\ config.rev = 0 /\ config.portal = FALSE /\ config.ids = ids /\ config.active = a
  BY <1>1 DEF IsConfig
<1>3. net = {} /\ copy = Config!NoCopy /\ confirmed = FALSE /\ deleted = {}
  BY Zenon DEF Config!Init
<1>4. IsCopy(copy) /\ ReadOf(copy, config)
  BY <1>2, <1>3 DEF IsCopy, ReadOf, Config!NoCopy
<1> QED
  BY <1>1, <1>2, <1>3, <1>4 DEF SettingsInv, Config!SettingsStand

\* What the server reads is what it has.
LEMMA ViewIsRead ==
    ASSUME NEW c, IsConfig(c)
    PROVE  ReadOf(Config!View(c), c) /\ IsCopy(Config!View(c))
BY DEF IsConfig, ReadOf, IsCopy, Config!View

\* Nothing has been read.
LEMMA NothingIsRead ==
    ASSUME NEW c, IsConfig(c)
    PROVE  /\ ReadOf(Config!NoCopy, c) /\ IsCopy(Config!NoCopy)
           /\ \A t : LET v == [Config!NoCopy EXCEPT !.target = t] IN ReadOf(v, c) /\ IsCopy(v)
BY DEF IsConfig, ReadOf, IsCopy, Config!NoCopy

\* A change is saved under the next revision.
LEMMA SavedMoves ==
    ASSUME IsConfig(config), NEW d, IsConfig(d), Config!Saves(d)
    PROVE  /\ Moves(config, config')
           /\ config'.portal = d.portal /\ config'.ids = d.ids /\ config'.active = d.active
BY DEF IsConfig, Moves, Config!Saves

\* What a request becomes when the server answers or refuses it.
LEMMA AnsweredIsRead ==
    ASSUME NEW q, NEW c, NEW d, Moves(c, d), RequestRead(q, c), NEW r, ReadOf(r.got, d), IsCopy(r.got),
           r = [q EXCEPT !.is = "answered", !.got = r.got]
    PROVE  RequestRead(r, d) /\ IsCopy(r.got)
<1>1. IsRequest(q) /\ (q.op = "save" => ReadOf(q.arg, d))
  BY ReadStays, Zenon DEF RequestRead
<1>2. IsRequest(r) /\ r.op = q.op /\ r.arg = q.arg
  BY <1>1 DEF IsRequest
<1> QED
  BY <1>1, <1>2, Zenon DEF RequestRead

\* A request whose answer is of another kind keeps what it holds.
LEMMA ToldIsRead ==
    ASSUME NEW q \in net, NEW c, RequestRead(q, c), IsCopy(q.got), NEW how
    PROVE  RequestRead([q EXCEPT !.is = how], c) /\ IsCopy([q EXCEPT !.is = how].got)
<1> DEFINE r == [q EXCEPT !.is = how]
<1>1. IsRequest(r) /\ r.op = q.op /\ r.arg = q.arg /\ r.got = q.got
  BY DEF RequestRead, IsRequest
<1> HIDE DEF r
<1>2. RequestRead(r, c) /\ IsCopy(r.got)
  BY <1>1, Zenon DEF RequestRead
<1> QED
  BY <1>2 DEF r

\* A new request sends at most the copy.
LEMMA AskedIsRead ==
    ASSUME SettingsInv, NEW op, NEW arg, op = "save" => arg = copy
    PROVE  RequestRead(Config!Ask(op, arg), config) /\ IsCopy(Config!Ask(op, arg).got)
<1> DEFINE r == Config!Ask(op, arg)
<1>1. IsRequest(r) /\ r.op = op /\ r.arg = arg /\ r.got = Config!NoCopy
  BY DEF IsRequest, Config!Ask
<1> HIDE DEF r
<1>2. ReadOf(Config!NoCopy, config) /\ IsCopy(Config!NoCopy) /\ ReadOf(copy, config)
  BY NothingIsRead DEF SettingsInv
<1>3. RequestRead(r, config) /\ IsCopy(r.got)
  BY <1>1, <1>2, Zenon DEF RequestRead
<1> QED
  BY <1>3 DEF r

\* A configuration whose portal access was changed, or whose runtime.
LEMMA NewPortal ==
    ASSUME NEW c, IsConfig(c), NEW x, NEW d, d = [c EXCEPT !.portal = x]
    PROVE  IsConfig(d) /\ d.portal = x /\ d.ids = c.ids /\ d.active = c.active
<1>1. c = [rev |-> c.rev, portal |-> c.portal, target |-> c.target, ids |-> c.ids, active |-> c.active] /\ c.rev \in Nat
  BY DEF IsConfig
<1>2. d = [rev |-> c.rev, portal |-> x, target |-> c.target, ids |-> c.ids, active |-> c.active]
  BY <1>1
<1> QED
  BY <1>1, <1>2 DEF IsConfig

LEMMA NewRuntime ==
    ASSUME NEW c, IsConfig(c), NEW x, NEW d, d = [c EXCEPT !.target = x]
    PROVE  IsConfig(d) /\ d.portal = c.portal /\ d.ids = c.ids /\ d.active = c.active
<1>1. c = [rev |-> c.rev, portal |-> c.portal, target |-> c.target, ids |-> c.ids, active |-> c.active] /\ c.rev \in Nat
  BY DEF IsConfig
<1>2. d = [rev |-> c.rev, portal |-> c.portal, target |-> x, ids |-> c.ids, active |-> c.active]
  BY <1>1
<1> QED
  BY <1>1, <1>2 DEF IsConfig

\* A deletion leaves an identity that is there.
LEMMA DeletesStand ==
    ASSUME SettingsInv, NEW i, Config!Deletes(i)
    PROVE  /\ Moves(config, config') /\ config'.portal = config.portal
           /\ config'.ids \cap deleted' = {} /\ config'.active \in config'.ids
<1>1. PICK first \in config.ids \ {i} :
        Config!Saves([config EXCEPT !.ids = @ \ {i}, !.active = first])
  BY Zenon DEF Config!Deletes
<1>0. PICK d : d = [config EXCEPT !.ids = @ \ {i}, !.active = first]
  OBVIOUS
<1>2. IsConfig(d) /\ d.portal = config.portal /\ d.ids = config.ids \ {i} /\ d.active = first
    <2>1. config = [rev |-> config.rev, portal |-> config.portal, target |-> config.target, ids |-> config.ids, active |-> config.active] /\ config.rev \in Nat
      BY DEF IsConfig, SettingsInv
    <2>2. d = [rev |-> config.rev, portal |-> config.portal, target |-> config.target, ids |-> config.ids \ {i}, active |-> first]
      BY <2>1, <1>0
    <2> QED
      BY <2>1, <2>2 DEF IsConfig
<1>3. Moves(config, config') /\ config'.portal = d.portal /\ config'.ids = d.ids /\ config'.active = d.active
  BY <1>0, <1>1, <1>2, SavedMoves DEF SettingsInv
<1>4. deleted' = deleted \cup {i}
  BY Zenon DEF Config!Deletes
<1> QED
  BY <1>2, <1>3, <1>4 DEF SettingsInv, Config!SettingsStand

\* What the server does keeps the settings, one step for each request.
LEMMA ServeKeepsSettings ==
    ASSUME SettingsInv, NEW q \in net, Config!Serve(q)
    PROVE  SettingsInv'
<1>0. IsConfig(config) /\ RequestRead(q, config) /\ IsCopy(q.got) /\ IsRequest(q) /\ Moves(config, config)
  BY DEF SettingsInv, RequestRead, Moves
<1>1. copy' = copy
  BY Zenon DEF Config!Serve, Config!clientVars
<1> DEFINE Answered(got) == net' = (net \ {q}) \cup {[q EXCEPT !.is = "answered", !.got = got]}
           Refused == net' = (net \ {q}) \cup {[q EXCEPT !.is = "refused"]}
           Stands == config'.portal = confirmed' /\ config'.ids \cap deleted' = {} /\ config'.active \in config'.ids
<1>2. ASSUME Moves(config, config'), Stands, Refused PROVE SettingsInv'
  <2>1. RequestRead([q EXCEPT !.is = "refused"], config) /\ IsCopy([q EXCEPT !.is = "refused"].got)
    BY <1>0, ToldIsRead
  <2>2. ASSUME NEW p \in net' PROVE RequestRead(p, config') /\ IsCopy(p.got)
    <3>1. RequestRead(p, config) /\ IsCopy(p.got)
      BY <1>2, <2>1, Zenon DEF SettingsInv
    <3>2. ReadOf(p.got, config') /\ (p.op = "save" => ReadOf(p.arg, config'))
      BY <1>2, <3>1, ReadStays, Zenon DEF RequestRead
    <3> QED
      BY <3>1, <3>2, Zenon DEF RequestRead
  <2>3. ReadOf(copy, config') /\ IsCopy(copy) /\ IsConfig(config')
    BY <1>2, ReadStays, Zenon DEF SettingsInv, Moves
  <2> QED
    BY <1>1, <1>2, <2>2, <2>3, Zenon DEF SettingsInv, Config!SettingsStand
<1>3. ASSUME Moves(config, config'), Stands, NEW got, Answered(got), ReadOf(got, config'), IsCopy(got)
      PROVE  SettingsInv'
  <2>0. PICK r : r = [q EXCEPT !.is = "answered", !.got = got]
    OBVIOUS
  <2>1. RequestRead(r, config') /\ IsCopy(r.got)
    <3>1. r.got = got
      BY <1>0, <2>0 DEF IsRequest
    <3> QED
      BY <1>0, <1>3, <2>0, <3>1, AnsweredIsRead, Zenon
  <2>2. \A p \in net' : p \in net \/ (RequestRead(p, config') /\ IsCopy(p.got))
    BY <1>3, <2>0, <2>1, Zenon
  <2>3. /\ ReadOf(copy, config') /\ IsCopy(copy)
        /\ \A p \in net' : RequestRead(p, config') /\ IsCopy(p.got)
    BY <1>3, <2>2, SettingsKept, Zenon
  <2> QED
    BY <1>1, <1>3, <2>3, Zenon DEF SettingsInv, Moves, Config!SettingsStand
<1>4. CASE Config!ServeConfig(q)
  <2>1. Answered(Config!View(config)) /\ config' = config /\ confirmed' = confirmed /\ deleted' = deleted
    BY <1>4, Zenon DEF Config!ServeConfig, Config!Answer
  <2> QED
    BY <2>1, <1>0, <1>3, ViewIsRead DEF SettingsInv, Config!SettingsStand
<1>5. CASE Config!ServeSave(q)
  <2>1. q.op = "save" /\ confirmed' = confirmed /\ deleted' = deleted
    BY <1>5, Zenon DEF Config!ServeSave
  <2>2. CASE Config!Refuse(q)
    BY <1>0, <1>2, <2>1, <2>2 DEF Config!Refuse, SettingsInv, Config!SettingsStand
  <2>3. CASE ~Config!Refuse(q)
    <3>1. /\ q.arg.rev = config.rev /\ q.arg.active \in q.arg.ids
          /\ Config!Saves([config EXCEPT !.ids = q.arg.ids, !.active = q.arg.active])
          /\ Config!Answer(q, Config!View(config'))
      BY <1>5, <2>3, Zenon DEF Config!ServeSave, Config!Current
    <3>0. PICK d : d = [config EXCEPT !.ids = q.arg.ids, !.active = q.arg.active]
      OBVIOUS
    <3>2. IsConfig(d) /\ d.portal = config.portal /\ d.ids = q.arg.ids /\ d.active = q.arg.active
        <4>1. config = [rev |-> config.rev, portal |-> config.portal, target |-> config.target, ids |-> config.ids, active |-> config.active] /\ config.rev \in Nat
          BY <1>0 DEF IsConfig
        <4>2. d = [rev |-> config.rev, portal |-> config.portal, target |-> config.target, ids |-> q.arg.ids, active |-> q.arg.active]
          BY <4>1, <3>0
        <4> QED
          BY <4>1, <4>2 DEF IsConfig
    <3>3. q.arg.ids = config.ids
      BY <1>0, <2>1, <3>1, Zenon DEF RequestRead, ReadOf
    <3>4. Moves(config, config') /\ config'.portal = d.portal /\ config'.ids = d.ids /\ config'.active = d.active
      BY <1>0, <3>0, <3>1, <3>2, SavedMoves
    <3>5. Stands
      BY <2>1, <3>1, <3>2, <3>3, <3>4, Zenon DEF SettingsInv, Config!SettingsStand
    <3> QED
      BY <1>3, <3>1, <3>4, <3>5, ViewIsRead DEF Moves, Config!Answer
  <2> QED
    BY <2>2, <2>3
<1>6. CASE Config!ServePortal(q)
  <2>1. deleted' = deleted
    BY <1>6, Zenon DEF Config!ServePortal
  <2>2. CASE Config!Refuse(q) /\ confirmed' = confirmed
    BY <1>0, <1>2, <2>1, <2>2 DEF Config!Refuse, SettingsInv, Config!SettingsStand
  <2>3. CASE ~(Config!Refuse(q) /\ confirmed' = confirmed)
    <3>1. /\ Config!Saves([config EXCEPT !.portal = q.arg.on]) /\ confirmed' = q.arg.on
          /\ Config!Answer(q, Config!View(config'))
      BY <1>6, <2>3, Zenon DEF Config!ServePortal
    <3>0. PICK d : d = [config EXCEPT !.portal = q.arg.on]
      OBVIOUS
    <3>2. IsConfig(d) /\ d.portal = q.arg.on /\ d.ids = config.ids /\ d.active = config.active
      BY <1>0, <3>0, NewPortal
    <3>3. Moves(config, config') /\ config'.portal = d.portal /\ config'.ids = d.ids /\ config'.active = d.active
      BY <1>0, <3>0, <3>1, <3>2, SavedMoves
    <3>4. Stands
      BY <2>1, <3>1, <3>2, <3>3, Zenon DEF SettingsInv, Config!SettingsStand
    <3> QED
      BY <1>3, <3>1, <3>3, <3>4, ViewIsRead DEF Moves, Config!Answer
  <2> QED
    BY <2>2, <2>3
<1>7. CASE Config!ServeSelect(q)
  <2>1. confirmed' = confirmed /\ deleted' = deleted
    BY <1>7, Zenon DEF Config!ServeSelect
  <2>2. CASE Config!Refuse(q)
    BY <1>0, <1>2, <2>1, <2>2 DEF Config!Refuse, SettingsInv, Config!SettingsStand
  <2>3. CASE ~Config!Refuse(q)
    <3>1. Config!Saves([config EXCEPT !.target = q.arg.target]) /\ Config!Answer(q, Config!View(config'))
      BY <1>7, <2>3, Zenon DEF Config!ServeSelect
    <3>0. PICK d : d = [config EXCEPT !.target = q.arg.target]
      OBVIOUS
    <3>2. IsConfig(d) /\ d.portal = config.portal /\ d.ids = config.ids /\ d.active = config.active
      BY <1>0, <3>0, NewRuntime
    <3>3. Moves(config, config') /\ config'.portal = d.portal /\ config'.ids = d.ids /\ config'.active = d.active
      BY <1>0, <3>0, <3>1, <3>2, SavedMoves
    <3>4. Stands
      BY <2>1, <3>1, <3>2, <3>3, Zenon DEF SettingsInv, Config!SettingsStand
    <3> QED
      BY <1>3, <3>1, <3>3, <3>4, ViewIsRead DEF Moves, Config!Answer
  <2> QED
    BY <2>2, <2>3
<1>8. CASE Config!ServeIncognito(q)
  <2>1. PICK i \in Identities : Config!Fresh(i) /\ Config!Saves(Config!WithNew(i)) /\ Config!Answer(q, Config!NoCopy)
    BY <1>8, Zenon DEF Config!ServeIncognito
  <2>2. confirmed' = confirmed /\ deleted' = deleted
    BY <1>8, Zenon DEF Config!ServeIncognito
  <2>0. PICK d : d = Config!WithNew(i)
    OBVIOUS
  <2>3. IsConfig(d) /\ d.portal = config.portal /\ d.ids = config.ids \cup {i} /\ d.active = i
      <3>1. config = [rev |-> config.rev, portal |-> config.portal, target |-> config.target, ids |-> config.ids, active |-> config.active] /\ config.rev \in Nat
        BY <1>0 DEF IsConfig
      <3>2. d = [rev |-> config.rev, portal |-> config.portal, target |-> config.target, ids |-> config.ids \cup {i}, active |-> i]
        BY <3>1, <2>0 DEF Config!WithNew
      <3> QED
        BY <3>1, <3>2 DEF IsConfig
  <2>4. Moves(config, config') /\ config'.portal = d.portal /\ config'.ids = d.ids /\ config'.active = d.active
    BY <1>0, <2>0, <2>1, <2>3, SavedMoves
  <2>5. Stands
    BY <2>1, <2>2, <2>3, <2>4, Zenon DEF SettingsInv, Config!SettingsStand, Config!Fresh
  <2>6. ReadOf(Config!NoCopy, config') /\ IsCopy(Config!NoCopy)
    BY <2>4, NothingIsRead, Zenon DEF Moves
  <2> QED
    BY <1>3, <2>1, <2>4, <2>5, <2>6 DEF Config!Answer
<1>9. CASE Config!ServeDeleteIdentity(q)
  <2>1. confirmed' = confirmed
    BY <1>9, Zenon DEF Config!ServeDeleteIdentity
  <2>2. CASE Config!Refuse(q) /\ deleted' = deleted
    BY <1>0, <1>2, <2>1, <2>2 DEF Config!Refuse, SettingsInv, Config!SettingsStand
  <2>3. CASE ~(Config!Refuse(q) /\ deleted' = deleted)
    <3>1. Config!Deletes(q.arg) /\ Config!Answer(q, Config!NoCopy)
      BY <1>9, <2>3, Zenon DEF Config!ServeDeleteIdentity
    <3>2. Moves(config, config') /\ Stands
      BY <2>1, <3>1, DeletesStand, Zenon DEF SettingsInv, Config!SettingsStand
    <3>3. ReadOf(Config!NoCopy, config') /\ IsCopy(Config!NoCopy)
      BY <3>2, NothingIsRead, Zenon DEF Moves
    <3> QED
      BY <1>3, <3>1, <3>2, <3>3 DEF Config!Answer
  <2> QED
    BY <2>2, <2>3
<1>10. CASE Config!ServeRuntime(q)
  <2>1. PICK state : Config!Answer(q, [Config!NoCopy EXCEPT !.target = state])
    BY <1>10, Zenon DEF Config!ServeRuntime
  <2>2. config' = config /\ confirmed' = confirmed /\ deleted' = deleted
    BY <1>10, Zenon DEF Config!ServeRuntime
  <2> DEFINE v == [Config!NoCopy EXCEPT !.target = state]
  <2>3. ReadOf(v, config') /\ IsCopy(v)
    BY <1>0, <2>2, NothingIsRead
  <2> QED
    BY <1>0, <1>3, <2>1, <2>2, <2>3 DEF Config!Answer, SettingsInv, Config!SettingsStand
<1> QED
  BY <1>4, <1>5, <1>6, <1>7, <1>8, <1>9, <1>10, Zenon DEF Config!Serve

\* What the client does adds requests and takes over what it was answered.
LEMMA ClientKeepsSettings ==
    ASSUME SettingsInv, UNCHANGED <<config, confirmed, deleted>>,
           \A p \in net' : p \in net \/ (RequestRead(p, config) /\ IsCopy(p.got)),
           copy' = copy \/ (ReadOf(copy', config) /\ IsCopy(copy'))
    PROVE  SettingsInv'
<1>1. Moves(config, config)
  BY Zenon DEF SettingsInv, Moves
<1>2. PICK n, v : n = net' /\ v = copy'
  OBVIOUS
<1>3. ReadOf(v, config) /\ IsCopy(v) /\ \A q \in n : RequestRead(q, config) /\ IsCopy(q.got)
  BY <1>1, <1>2, SettingsKept, Zenon
<1> QED
  BY <1>2, <1>3, Zenon DEF SettingsInv, Config!SettingsStand

\* A click that sends something, and leaves the copy.
LEMMA StartKeepsSettings ==
    ASSUME SettingsInv, NEW op, NEW arg, op = "save" => arg = copy,
           Config!Starts(op, arg), copy' = copy
    PROVE  SettingsInv'
<1>1. RequestRead(Config!Ask(op, arg), config) /\ IsCopy(Config!Ask(op, arg).got)
  BY AskedIsRead
<1>2. net' = net \cup {Config!Ask(op, arg)} /\ UNCHANGED <<config, confirmed, deleted>>
  BY Zenon DEF Config!Starts
<1> QED
  BY <1>1, <1>2, ClientKeepsSettings

\* An answer is handled.
LEMMA HandledKeepsSettings ==
    ASSUME SettingsInv, NEW q \in net, Config!Handles(q)
    PROVE  SettingsInv'
<1>1. RequestRead(q, config) /\ IsCopy(q.got) /\ ReadOf(q.got, config)
  BY Zenon DEF SettingsInv, RequestRead
<1>2. ASSUME NEW op, NEW more, more \in {{}, {Config!Ask("runtime", Config!None)}, {Config!Ask("config", Config!None)}},
             Config!Finish(q, more), copy' = copy \/ copy' = q.got
      PROVE  SettingsInv'
  <2>1. \A p \in more : RequestRead(p, config) /\ IsCopy(p.got)
    <3>1. RequestRead(Config!Ask("runtime", Config!None), config) /\ IsCopy(Config!Ask("runtime", Config!None).got)
      BY AskedIsRead
    <3>2. RequestRead(Config!Ask("config", Config!None), config) /\ IsCopy(Config!Ask("config", Config!None).got)
      BY AskedIsRead
    <3> QED
      BY <1>2, <3>1, <3>2, Zenon
  <2>2. net' = (net \ {q}) \cup more /\ UNCHANGED <<config, confirmed, deleted>>
    BY <1>2, Zenon DEF Config!Finish
  <2> QED
    BY <1>1, <1>2, <2>1, <2>2, ClientKeepsSettings
<1>3. CASE Config!ConfigAnswered(q)
  BY <1>2, <1>3 DEF Config!ConfigAnswered
<1>4. CASE Config!SaveAnswered(q)
  BY <1>2, <1>4 DEF Config!SaveAnswered
<1>5. CASE Config!PortalAnswered(q)
  BY <1>2, <1>5 DEF Config!PortalAnswered
<1>6. CASE Config!IdentityAnswered(q)
  BY <1>2, <1>6 DEF Config!IdentityAnswered, Config!clientVars
<1>7. CASE Config!RuntimeAnswered(q)
  BY <1>2, <1>7 DEF Config!RuntimeAnswered
<1> QED
  BY <1>3, <1>4, <1>5, <1>6, <1>7, Zenon DEF Config!Handles

\* Every step keeps the settings.
LEMMA SettingsKeep == SettingsInv /\ [Config!Next]_configVars => SettingsInv'
<1> SUFFICES ASSUME SettingsInv, [Config!Next]_configVars PROVE SettingsInv'
  OBVIOUS
<1>1. ASSUME NEW q \in net, Config!Serve(q) PROVE SettingsInv'
  BY <1>1, ServeKeepsSettings
<1>2. ASSUME NEW q \in net, Config!IsLost(q) PROVE SettingsInv'
  <2>1. PICK r : r = [q EXCEPT !.is = "lost"]
    OBVIOUS
  <2>2. RequestRead(r, config) /\ IsCopy(r.got)
    BY <2>1, ToldIsRead, Zenon DEF SettingsInv
  <2>3. net' = (net \ {q}) \cup {r} /\ UNCHANGED <<config, confirmed, deleted, copy>>
    BY <1>2, <2>1, Zenon DEF Config!IsLost, Config!clientVars
  <2> QED
    BY <2>2, <2>3, ClientKeepsSettings
<1>3. ASSUME NEW q \in net, Config!Handles(q) PROVE SettingsInv'
  BY <1>3, HandledKeepsSettings
<1>4. CASE Config!OtherWindow
  <2>1. net' = net /\ copy' = copy
    BY <1>4, Zenon DEF Config!OtherWindow, Config!clientVars
  <2> DEFINE Stands == config'.portal = confirmed' /\ config'.ids \cap deleted' = {} /\ config'.active \in config'.ids
  <2>2. Moves(config, config') /\ Stands
    <3>1. CASE \E i \in Identities : Config!Deletes(i) /\ UNCHANGED confirmed
      BY <3>1, DeletesStand DEF SettingsInv, Config!SettingsStand
    <3>2. ASSUME NEW on, Config!Saves([config EXCEPT !.portal = on]), confirmed' = on, UNCHANGED deleted
          PROVE  Moves(config, config') /\ Stands
      <4>1. PICK d : d = [config EXCEPT !.portal = on]
        OBVIOUS
      <4>2. IsConfig(config) /\ IsConfig(d) /\ d.portal = on /\ d.ids = config.ids /\ d.active = config.active
        BY <4>1, NewPortal DEF SettingsInv
      <4>3. Moves(config, config') /\ config'.portal = d.portal /\ config'.ids = d.ids /\ config'.active = d.active
        BY <3>2, <4>1, <4>2, SavedMoves
      <4> QED
        BY <3>2, <4>2, <4>3, Zenon DEF SettingsInv, Config!SettingsStand
    <3> QED
      BY <1>4, <3>1, <3>2, Zenon DEF Config!OtherWindow
  <2>3. /\ ReadOf(copy, config') /\ IsCopy(copy)
        /\ \A q \in net : RequestRead(q, config') /\ IsCopy(q.got)
    BY <2>2, SettingsKept, Zenon
  <2> QED
    BY <2>1, <2>2, <2>3, Zenon DEF SettingsInv, Moves, Config!SettingsStand
<1>5. CASE Config!Load
  <2>1. net' = {Config!Ask("config", Config!None), Config!Ask("runtime", Config!None)}
        /\ UNCHANGED <<config, confirmed, deleted, copy>>
    BY <1>5, Zenon DEF Config!Load, Config!clientVars
  <2>2. RequestRead(Config!Ask("runtime", Config!None), config) /\ IsCopy(Config!Ask("runtime", Config!None).got)
    BY AskedIsRead
  <2>3. RequestRead(Config!Ask("config", Config!None), config) /\ IsCopy(Config!Ask("config", Config!None).got)
    BY AskedIsRead
  <2> QED
    BY <2>1, <2>2, <2>3, ClientKeepsSettings
<1>6. CASE Config!RefreshSources
  BY <1>6, StartKeepsSettings DEF Config!RefreshSources, Config!clientVars
<1>7. CASE Config!SaveConfig
  BY <1>7, StartKeepsSettings DEF Config!SaveConfig, Config!clientVars
<1>8. CASE Config!CreateIncognito
  BY <1>8, StartKeepsSettings DEF Config!CreateIncognito, Config!clientVars
<1>9. CASE Config!Tick \/ Config!ClosePortalPermissionDialog
  <2>1. UNCHANGED <<config, confirmed, deleted, net, copy>>
    BY <1>9, Zenon DEF Config!Tick, Config!ClosePortalPermissionDialog
  <2> QED
    BY <2>1, ClientKeepsSettings
<1>10. CASE Config!ConfirmPortalPermission
  BY <1>10, StartKeepsSettings DEF Config!ConfirmPortalPermission, Config!clientVars
<1>11. ASSUME NEW i \in Identities, Config!ChooseIdentity(i) PROVE SettingsInv'
  <2>1. copy' = [copy EXCEPT !.active = i] /\ UNCHANGED <<config, net, confirmed, deleted>>
    BY <1>11, Zenon DEF Config!ChooseIdentity
  <2>2. IsCopy(copy') /\ copy'.rev = copy.rev /\ copy'.ids = copy.ids
    BY <2>1 DEF SettingsInv, IsCopy
  <2>3. ReadOf(copy', config)
    BY <2>2, Zenon DEF SettingsInv, ReadOf
  <2> QED
    BY <2>1, <2>2, <2>3, ClientKeepsSettings
<1>12. ASSUME NEW i \in Identities, Config!DeleteIdentity(i) PROVE SettingsInv'
  BY <1>12, StartKeepsSettings DEF Config!DeleteIdentity, Config!clientVars
<1>13. ASSUME NEW t \in Config!Targets, Config!SelectMcpRuntime(t) PROVE SettingsInv'
  BY <1>13, StartKeepsSettings DEF Config!SelectMcpRuntime, Config!clientVars
<1>14. ASSUME NEW intent, Config!OpenPortalPermissionDialog(intent) PROVE SettingsInv'
  <2>1. UNCHANGED <<config, confirmed, deleted, net, copy>>
    BY <1>14, Zenon DEF Config!OpenPortalPermissionDialog
  <2> QED
    BY <2>1, ClientKeepsSettings
<1>15. CASE UNCHANGED configVars
  <2>1. UNCHANGED <<config, confirmed, deleted, net, copy>>
    BY <1>15, Zenon DEF configVars
  <2> QED
    BY <2>1, ClientKeepsSettings
<1> QED
  BY <1>1, <1>2, <1>3, <1>4, <1>5, <1>6, <1>7, <1>8, <1>9, <1>10, <1>11, <1>12, <1>13, <1>14, <1>15, Zenon DEF Config!Next

-----------------------------------------------------------------------------
(* Application cases and the page on which their texts are written *)

Unknown == Workshop!Unknown
Nobody == Config!None

CaseRecords ==
    [job : Jobs \cup {Nobody}, state : {"none", "open", "review", "approved", "exported", "gone"},
     doc : {"none", "proposed", "approved", "rejected", "used"}]

CaseOps == {"docs", "advance", "finalize", "review", "approve", "export", "delete"}
CaseRequests ==
    [op : CaseOps \cup {"list", "crm", "draft", "create", "begin"}, case : Cases \cup {Nobody},
     job : Jobs \cup {Nobody}, text : SUBSET (Cases \cup Jobs \cup {Nobody}),
     is : {"sent", "answered", "refused"}, got : [Cases -> CaseRecords]]

CasesTypeOK ==
    /\ cases \in [Cases -> CaseRecords] /\ list \in [Cases -> CaseRecords]
    /\ asked \in SUBSET CaseRequests /\ sel \in Cases \cup {Nobody}
    /\ editor \in SUBSET (Cases \cup Jobs \cup {Nobody})
    /\ drafts \in [Cases -> SUBSET (Cases \cup Jobs \cup {Nobody})]
    /\ draft \in Jobs \cup {Nobody} /\ match \in Jobs

\* A list in which a case that is there has its job, and of which the server knows every case.
Fits(l, cs) ==
    \A c \in Cases : l[c].job # Nobody =>
        cs[c] # Unknown /\ (cs[c].job # Nobody => l[c].job = cs[c].job)

\* A text that was written for the case, or is the draft of its job.
WrittenFor(t, c, cs) == cs[c] # Unknown /\ (cs[c].job # Nobody => t \subseteq {c, cs[c].job})

RequestFits(q, cs) ==
    /\ Fits(q.got, cs)
    /\ q.op \in CaseOps => q.case \in Cases
    /\ q.op = "finalize" => WrittenFor(q.text, q.case, cs)
    /\ q.op \in {"create", "begin"} => q.job # Nobody
    /\ q.is = "answered" /\ q.op \in {"create", "begin"} => q.case \in Cases /\ q.got[q.case].job # Nobody

TextsFit(s, e, ds, cs) ==
    /\ s # Nobody => WrittenFor(e, s, cs)
    /\ \A c \in Cases : ds[c] # Workshop!Absent => WrittenFor(ds[c], c, cs)

CasesInv ==
    /\ CasesTypeOK
    /\ Fits(list, cases) /\ TextsFit(sel, editor, drafts, cases)
    /\ \A q \in asked : RequestFits(q, cases)

\* An id is given once, and a case keeps its job until it is gone.
Follows(cs, ds) ==
    \A c \in Cases : cs[c] # Unknown =>
        ds[c] # Unknown /\ (ds[c].job # Nobody => ds[c].job = cs[c].job)

LEMMA FitsStays ==
    ASSUME NEW cs, NEW ds, Follows(cs, ds), NEW l, Fits(l, cs)
    PROVE  Fits(l, ds)
BY Zenon DEF Follows, Fits

LEMMA WrittenStays ==
    ASSUME NEW cs, NEW ds, Follows(cs, ds), NEW t, NEW c \in Cases, WrittenFor(t, c, cs)
    PROVE  WrittenFor(t, c, ds)
BY Zenon DEF Follows, WrittenFor

LEMMA RequestStays ==
    ASSUME NEW cs, NEW ds, Follows(cs, ds), NEW q, RequestFits(q, cs)
    PROVE  RequestFits(q, ds)
<1>1. q.op = "finalize" => q.op \in CaseOps
  BY DEF CaseOps
<1> QED
  BY <1>1, FitsStays, WrittenStays, Zenon DEF RequestFits

\* The server moves: everything that was written or read still fits.
LEMMA ServerMoves ==
    ASSUME CasesInv, Follows(cases, cases'), cases' \in [Cases -> CaseRecords],
           UNCHANGED <<list, sel, editor, drafts, draft, match>>,
           NEW r, r \in CaseRequests, RequestFits(r, cases'), asked' \subseteq asked \cup {r}
    PROVE  CasesInv'
<1>1. CasesTypeOK'
  BY Zenon DEF CasesInv, CasesTypeOK
<1>2. Fits(list, cases')
  BY FitsStays, Zenon DEF CasesInv
<1>3. TextsFit(sel, editor, drafts, cases')
  <2>1. sel # Nobody => sel \in Cases
    BY Zenon DEF CasesInv, CasesTypeOK
  <2> QED
    BY <2>1, WrittenStays, Zenon DEF CasesInv, TextsFit
<1>4. \A q \in asked' : RequestFits(q, cases')
  BY RequestStays, Zenon DEF CasesInv
<1> QED
  BY <1>1, <1>2, <1>3, <1>4, Zenon DEF CasesInv

\* The page moves: the cases of the server stay.
LEMMA PageMoves ==
    ASSUME CasesInv, cases' = cases, CasesTypeOK', Fits(list', cases),
           TextsFit(sel', editor', drafts', cases), \A q \in asked' : q \in asked \/ RequestFits(q, cases)
    PROVE  CasesInv'
BY Zenon DEF CasesInv

\* Nothing is known of any case in what has not been answered.
LEMMA NothingFits ==
    /\ Workshop!Nothing \in [Cases -> CaseRecords]
    /\ \A cs : Fits(Workshop!Nothing, cs)
    /\ Unknown \in CaseRecords /\ Unknown.job = Nobody
BY DEF Workshop!Nothing, Unknown, Workshop!Unknown, CaseRecords, Fits, Nobody

LEMMA CasesInit == Workshop!Init => CasesInv
<1> SUFFICES ASSUME Workshop!Init PROVE CasesInv
  OBVIOUS
<1>0. PICK S \in SUBSET Cases : \E j \in [S -> Jobs] :
        cases = [c \in Cases |-> IF c \notin S THEN Unknown
                                 ELSE [job |-> j[c], state |-> IF work = "texts" THEN "review" ELSE "open", doc |-> "none"]]
  BY Zenon DEF Workshop!Init, Unknown
<1>1. PICK j \in [S -> Jobs] :
        cases = [c \in Cases |-> IF c \notin S THEN Unknown
                                 ELSE [job |-> j[c], state |-> IF work = "texts" THEN "review" ELSE "open", doc |-> "none"]]
  BY <1>0
<1>2. /\ match \in Jobs /\ asked = {} /\ list = cases /\ sel = Nobody /\ editor = {}
      /\ drafts = [c \in Cases |-> Workshop!Absent] /\ draft = Nobody
  BY Zenon DEF Workshop!Init, Nobody
<1>3. cases \in [Cases -> CaseRecords]
  <2>1. ASSUME NEW c \in Cases PROVE cases[c] \in CaseRecords
    <3>1. CASE c \in S
      BY <1>1, <3>1 DEF CaseRecords
    <3>2. CASE c \notin S
      BY <1>1, <3>2, NothingFits
    <3> QED
      BY <3>1, <3>2
  <2> QED
    BY <1>1, <2>1
<1>4. Fits(list, cases)
  BY <1>2, NothingFits DEF Fits
<1>5. TextsFit(sel, editor, drafts, cases)
  BY <1>2 DEF TextsFit
<1>6. CasesTypeOK
  BY <1>2, <1>3 DEF CasesTypeOK, Workshop!Absent, Nobody
<1> QED
  BY <1>2, <1>4, <1>5, <1>6 DEF CasesInv

\* The server answers with the case of the request, or with every case.
LEMMA AnswerFits ==
    ASSUME CasesInv, Follows(cases, cases'), cases' \in [Cases -> CaseRecords],
           UNCHANGED <<list, sel, editor, drafts, draft, match>>,
           NEW q \in asked, NEW c \in Cases \cup {Nobody}, Workshop!Answer(q, c),
           c = Nobody => cases' = cases,
           q.op \in CaseOps => c = q.case,
           q.op \in {"create", "begin"} => c \in Cases /\ cases'[c].job # Nobody
    PROVE  CasesInv'
<1>1. PICK g : g = IF c = Nobody THEN [x \in Cases |-> IF x \in Workshop!There(cases) THEN cases[x] ELSE Unknown]
                   ELSE [Workshop!Nothing EXCEPT ![c] = cases'[c]]
  OBVIOUS
<1>2. PICK r : r = [q EXCEPT !.is = "answered", !.case = c, !.got = g]
  OBVIOUS
<1>3. asked' = (asked \ {q}) \cup {r}
  BY <1>1, <1>2 DEF Workshop!Answer, Unknown, Nobody
<1>4. g \in [Cases -> CaseRecords] /\ Fits(g, cases')
  <2>1. CASE c = Nobody
    <3>1. g = [x \in Cases |-> IF x \in Workshop!There(cases) THEN cases[x] ELSE Unknown]
      BY <1>1, <2>1
    <3>2. ASSUME NEW x \in Cases
          PROVE  g[x] \in CaseRecords /\ (g[x].job # Nobody => cases[x] # Unknown /\ g[x].job = cases[x].job)
      <4>1. CASE x \in Workshop!There(cases)
        BY <3>1, <4>1, NothingFits DEF CasesInv, CasesTypeOK, Workshop!There, Nobody
      <4>2. CASE x \notin Workshop!There(cases)
        BY <3>1, <4>2, NothingFits
      <4> QED
        BY <4>1, <4>2
    <3> QED
      BY <2>1, <3>1, <3>2 DEF Fits
  <2>2. CASE c # Nobody
    <3>1. g = [Workshop!Nothing EXCEPT ![c] = cases'[c]] /\ c \in Cases
      BY <1>1, <2>2
    <3>2. g \in [Cases -> CaseRecords]
      BY <3>1, NothingFits
    <3>3. ASSUME NEW x \in Cases, g[x].job # Nobody
          PROVE  cases'[x] # Unknown /\ g[x].job = cases'[x].job
      <4>1. x = c
        BY <3>1, <3>3, NothingFits DEF Workshop!Nothing, Unknown
      <4> QED
        BY <3>1, <3>3, <4>1, NothingFits
    <3> QED
      BY <3>2, <3>3 DEF Fits
  <2> QED
    BY <2>1, <2>2
<1>5. q \in CaseRequests /\ RequestFits(q, cases')
  BY RequestStays DEF CasesInv, CasesTypeOK
<1>6. /\ r \in CaseRequests /\ r.op = q.op /\ r.job = q.job /\ r.text = q.text /\ r.case = c
      /\ r.is = "answered" /\ r.got = g
  BY <1>2, <1>4, <1>5 DEF CaseRequests
<1>7. ASSUME q.op \in {"create", "begin"} PROVE c \in Cases /\ g[c].job # Nobody
  <2>1. c \in Cases /\ c # Nobody
    BY <1>7, PagesAssumption DEF Nobody
  <2>2. g[c] = cases'[c]
    BY <1>1, <2>1, NothingFits
  <2> QED
    BY <1>7, <2>1, <2>2
<1>8. RequestFits(r, cases')
  <2>1. Fits(r.got, cases')
    BY <1>4, <1>6
  <2>2. q.op \in CaseOps => c \in Cases
    BY <1>5, Zenon DEF RequestFits
  <2>3. q.op = "finalize" => q.op \in CaseOps /\ WrittenFor(q.text, q.case, cases')
    BY <1>5 DEF RequestFits, CaseOps
  <2>4. q.op \in {"create", "begin"} => q.job # Nobody
    BY <1>5, Zenon DEF RequestFits
  <2> QED
    BY <1>6, <1>7, <2>1, <2>2, <2>3, <2>4, Zenon DEF RequestFits
<1> QED
  BY <1>3, <1>6, <1>8, ServerMoves

\* A case that moves on keeps its job.
LEMMA AdvancedFollows ==
    ASSUME CasesInv, NEW c \in Cases, NEW state \in {"open", "review", "approved", "exported", "gone", "none"},
           NEW doc \in {"none", "proposed", "approved", "rejected", "used"},
           state = "review" \/ doc # "none",
           cases' = [cases EXCEPT ![c].state = state, ![c].doc = doc]
    PROVE  cases' \in [Cases -> CaseRecords] /\ Follows(cases, cases')
<1>1. cases \in [Cases -> CaseRecords]
  BY Zenon DEF CasesInv, CasesTypeOK
<1>2. cases'[c] = [job |-> cases[c].job, state |-> state, doc |-> doc]
  BY <1>1 DEF CaseRecords
<1>3. cases' = [cases EXCEPT ![c] = [job |-> cases[c].job, state |-> state, doc |-> doc]]
  BY <1>1, <1>2 DEF CaseRecords
<1>4. cases'[c] \in CaseRecords /\ cases'[c] # Unknown /\ cases'[c].job = cases[c].job
  BY <1>1, <1>2 DEF CaseRecords, Unknown, Workshop!Unknown
<1> QED
  BY <1>1, <1>3, <1>4 DEF Follows

\* What the server does keeps the texts with their cases, one step for each request.
LEMMA ServeKeepsTexts ==
    ASSUME CasesInv, NEW q \in asked, Workshop!Serve(q), match' = match
    PROVE  CasesInv'
<1>1. UNCHANGED <<list, sel, editor, drafts, draft, match>>
  BY Zenon DEF Workshop!Serve, Workshop!texts
<1>2. /\ q \in CaseRequests /\ RequestFits(q, cases) /\ cases \in [Cases -> CaseRecords]
      /\ q.op \in CaseOps => q.case \in Cases
  BY Zenon DEF CasesInv, CasesTypeOK, RequestFits
<1>3. Follows(cases, cases)
  BY DEF Follows
<1>4. ASSUME NEW state, NEW doc, q.op \in CaseOps, Workshop!Becomes(q, state, doc),
             state \in {"open", "review", "approved", "exported", "gone", "none"},
             doc \in {"none", "proposed", "approved", "rejected", "used"}, state = "review" \/ doc # "none"
      PROVE  CasesInv'
  <2>1. cases' = [cases EXCEPT ![q.case].state = state, ![q.case].doc = doc] /\ Workshop!Answer(q, q.case)
    BY <1>4, Zenon DEF Workshop!Becomes
  <2>2. cases' \in [Cases -> CaseRecords] /\ Follows(cases, cases')
    BY <1>2, <1>4, <2>1, AdvancedFollows
  <2>3. q.case # Nobody /\ q.op \notin {"create", "begin"}
    BY <1>2, <1>4, PagesAssumption DEF CaseOps, Nobody
  <2> QED
    BY <1>1, <1>2, <1>4, <2>1, <2>2, <2>3, AnswerFits
<1>5. CASE Workshop!ServeRead(q)
  <2>1. cases' = cases /\ Workshop!Answer(q, q.case) /\ q.op \notin {"create", "begin"}
    BY <1>5 DEF Workshop!ServeRead
  <2>2. q.case \in Cases \cup {Nobody}
    BY <1>2 DEF CaseRequests
  <2> QED
    BY <1>1, <1>2, <1>3, <2>1, <2>2, AnswerFits
<1>6. CASE Workshop!ServeCreate(q)
  <2>1. PICK c \in Cases : /\ cases[c] = Unknown /\ Workshop!Answer(q, c)
                           /\ cases' = [cases EXCEPT ![c] = [job |-> q.job, state |-> "open", doc |-> "none"]]
    BY <1>6, Zenon DEF Workshop!ServeCreate, Unknown
  <2>2. q.op \in {"create", "begin"} /\ q.op \notin CaseOps
    BY <1>6 DEF Workshop!ServeCreate, CaseOps
  <2>3. q.job \in Jobs \cup {Nobody} /\ q.job # Nobody
    BY <1>2, <2>2 DEF CaseRequests, RequestFits
  <2>4. cases' \in [Cases -> CaseRecords] /\ Follows(cases, cases') /\ cases'[c].job # Nobody
    BY <1>2, <2>1, <2>3 DEF CaseRecords, Follows
  <2>5. c # Nobody
    BY PagesAssumption DEF Nobody
  <2> QED
    BY <1>1, <2>1, <2>2, <2>4, <2>5, AnswerFits
<1>7. CASE Workshop!ServeAdvance(q)
  BY <1>4, <1>7 DEF Workshop!ServeAdvance, CaseOps
<1>8. CASE Workshop!ServeFinalize(q)
  BY <1>4, <1>8 DEF Workshop!ServeFinalize, CaseOps
<1>9. CASE Workshop!ServeReview(q)
  <2>1. q.op \in CaseOps
    BY <1>9 DEF Workshop!ServeReview, CaseOps
  <2>2. PICK d \in {"approved", "rejected"} : Workshop!Becomes(q, cases[q.case].state, d)
    BY <1>9, Zenon DEF Workshop!ServeReview
  <2>3. cases[q.case].state \in {"open", "review", "approved", "exported", "gone", "none"}
    BY <1>2, <2>1 DEF CaseRecords
  <2> QED
    BY <1>4, <2>1, <2>2, <2>3
<1>10. CASE Workshop!ServeApprove(q)
  BY <1>4, <1>10 DEF Workshop!ServeApprove, CaseOps
<1>11. CASE Workshop!ServeExport(q)
  BY <1>4, <1>11 DEF Workshop!ServeExport, CaseOps
<1>12. CASE Workshop!ServeDelete(q)
  <2>1. /\ q.op \in CaseOps /\ q.op \notin {"create", "begin"} /\ q.case \in Cases /\ q.case # Nobody
        /\ cases' = [cases EXCEPT ![q.case] = Workshop!Gone] /\ Workshop!Answer(q, q.case)
    BY <1>2, <1>12, PagesAssumption DEF Workshop!ServeDelete, CaseOps, Workshop!There, Nobody
  <2>2. Workshop!Gone \in CaseRecords /\ Workshop!Gone # Unknown /\ Workshop!Gone.job = Nobody
    BY DEF Workshop!Gone, Workshop!Unknown, Unknown, CaseRecords, Nobody
  <2>3. cases' \in [Cases -> CaseRecords] /\ Follows(cases, cases')
    BY <1>2, <2>1, <2>2 DEF Follows
  <2> QED
    BY <1>1, <1>2, <2>1, <2>3, AnswerFits
<1>13. CASE Workshop!Refuse(q) /\ cases' = cases
  <2>1. PICK r : r = [q EXCEPT !.is = "refused"]
    OBVIOUS
  <2>2. asked' = (asked \ {q}) \cup {r}
    BY <1>13, <2>1, Zenon DEF Workshop!Refuse
  <2>3. /\ r \in CaseRequests /\ r.op = q.op /\ r.job = q.job /\ r.text = q.text /\ r.case = q.case
        /\ r.is = "refused" /\ r.got = q.got
    BY <1>2, <2>1 DEF CaseRequests
  <2>4. RequestFits(r, cases')
    BY <1>2, <1>13, <2>3 DEF RequestFits
  <2> QED
    BY <1>1, <1>2, <1>3, <1>13, <2>2, <2>3, <2>4, ServerMoves
<1> QED
  BY <1>5, <1>6, <1>7, <1>8, <1>9, <1>10, <1>11, <1>12, <1>13, Zenon DEF Workshop!Serve


\* A case that is opened shows its own text or the draft of its job, and the text of the
\* case that was open is kept for it.
LEMMA OpensFits ==
    ASSUME CasesInv, NEW c \in Cases, NEW f, Workshop!Opens(c, f), cases[c] # Unknown,
           cases[c].job # Nobody => f[c].job = cases[c].job
    PROVE  /\ sel' \in Cases \cup {Nobody} /\ editor' \in SUBSET (Cases \cup Jobs \cup {Nobody})
           /\ drafts' \in [Cases -> SUBSET (Cases \cup Jobs \cup {Nobody})]
           /\ TextsFit(sel', editor', drafts', cases)
<1>1. /\ sel \in Cases \cup {Nobody} /\ editor \in SUBSET (Cases \cup Jobs \cup {Nobody})
      /\ drafts \in [Cases -> SUBSET (Cases \cup Jobs \cup {Nobody})] /\ draft \in Jobs \cup {Nobody}
      /\ TextsFit(sel, editor, drafts, cases)
  BY Zenon DEF CasesInv, CasesTypeOK
<1>2. /\ sel' = c /\ editor' = IF sel = c THEN editor ELSE Workshop!Restored(c, f)
      /\ drafts' = IF sel \notin {Nobody, c} THEN [drafts EXCEPT ![sel] = editor] ELSE drafts
  BY Zenon DEF Workshop!Opens, Nobody
<1>3. c # Nobody
  BY PagesAssumption DEF Nobody
<1>4. /\ Workshop!Restored(c, f) \in SUBSET (Cases \cup Jobs \cup {Nobody})
      /\ WrittenFor(Workshop!Restored(c, f), c, cases)
  <2>1. CASE drafts[c] # Workshop!Absent
    BY <1>1, <2>1 DEF Workshop!Restored, TextsFit
  <2>2. CASE drafts[c] = Workshop!Absent
    BY <1>1, <2>2 DEF Workshop!Restored, WrittenFor
  <2> QED
    BY <2>1, <2>2
<1>5. WrittenFor(editor', c, cases) /\ editor' \in SUBSET (Cases \cup Jobs \cup {Nobody})
  BY <1>1, <1>2, <1>3, <1>4, Zenon DEF TextsFit
<1>6. ASSUME NEW d \in Cases, drafts'[d] # Workshop!Absent PROVE WrittenFor(drafts'[d], d, cases)
  BY <1>1, <1>2, <1>6 DEF TextsFit
<1> QED
  BY <1>1, <1>2, <1>5, <1>6 DEF TextsFit

\* A new request knows nothing yet.
LEMMA AskFits ==
    ASSUME CasesInv, NEW op \in CaseOps \cup {"list", "crm"}, NEW c \in Cases \cup {Nobody},
           op \in CaseOps => c \in Cases, op # "finalize"
    PROVE  Workshop!Ask(op, c) \in CaseRequests /\ RequestFits(Workshop!Ask(op, c), cases)
<1>1. PICK r : r = Workshop!Ask(op, c)
  OBVIOUS
<1>2. /\ r \in CaseRequests /\ r.op = op /\ r.case = c /\ r.is = "sent" /\ r.got = Workshop!Nothing
      /\ r.op \notin {"create", "begin"}
  BY <1>1, NothingFits DEF Workshop!Ask, CaseRequests, CaseOps, Nobody
<1>3. RequestFits(r, cases)
  BY <1>2, NothingFits, Zenon DEF RequestFits
<1> QED
  BY <1>1, <1>2, <1>3

\* A request for the job that was chosen.
LEMMA AskForJobFits ==
    ASSUME CasesInv, NEW op \in {"draft", "create", "begin"}, NEW r,
           r = [Workshop!Ask(op, Config!None) EXCEPT !.job = match]
    PROVE  r \in CaseRequests /\ RequestFits(r, cases)
<1>0. match \in Jobs /\ match # Nobody
  BY PagesAssumption DEF CasesInv, CasesTypeOK, Nobody
<1>1. /\ r \in CaseRequests /\ r.op = op /\ r.is = "sent" /\ r.got = Workshop!Nothing /\ r.job = match
      /\ r.op \notin CaseOps /\ r.op # "finalize"
  BY <1>0, NothingFits DEF Workshop!Ask, CaseRequests, CaseOps, Nobody
<1> QED
  BY <1>0, <1>1, NothingFits, Zenon DEF RequestFits

\* The text in the editor is sent for the case that is open.
LEMMA FinalizeFits ==
    ASSUME CasesInv, sel \in Workshop!There(list), NEW r,
           r = [Workshop!Ask("finalize", sel) EXCEPT !.text = editor]
    PROVE  r \in CaseRequests /\ RequestFits(r, cases)
<1>0. sel \in Cases /\ sel # Nobody
  BY PagesAssumption DEF Workshop!There, Nobody
<1>1. /\ r \in CaseRequests /\ r.op = "finalize" /\ r.is = "sent" /\ r.got = Workshop!Nothing
      /\ r.case = sel /\ r.text = editor /\ r.op \notin {"create", "begin"}
  BY <1>0, NothingFits DEF Workshop!Ask, CaseRequests, CaseOps, Nobody, CasesInv, CasesTypeOK
<1>2. WrittenFor(editor, sel, cases)
  BY <1>0, Zenon DEF CasesInv, TextsFit
<1> QED
  BY <1>0, <1>1, <1>2, NothingFits, Zenon DEF RequestFits

\* Requests are sent, and nothing else of the page that matters changes.
LEMMA SendKeepsTexts ==
    ASSUME CasesInv, UNCHANGED <<cases, list, sel, editor, drafts>>,
           draft' \in Jobs \cup {Nobody}, match' \in Jobs,
           \A q \in asked' : q \in asked \/ (q \in CaseRequests /\ RequestFits(q, cases))
    PROVE  CasesInv'
<1>1. CasesTypeOK'
  BY Zenon DEF CasesInv, CasesTypeOK
<1> QED
  BY <1>1, PageMoves, Zenon DEF CasesInv


\* The clicks that send a request.
LEMMA RequestsKeepTexts ==
    ASSUME CasesInv, Workshop!Requests
    PROVE  CasesInv'
<1>1. /\ UNCHANGED <<cases, list, sel, editor, drafts, draft, match>>
      /\ draft' \in Jobs \cup {Nobody} /\ match' \in Jobs
  BY Zenon DEF Workshop!Requests, Workshop!texts, CasesInv, CasesTypeOK
<1>2. ASSUME NEW r, Workshop!Sends(r), r \in CaseRequests /\ RequestFits(r, cases) PROVE CasesInv'
  <2>1. asked' = asked \cup {r}
    BY <1>2, Zenon DEF Workshop!Sends
  <2> QED
    BY <1>1, <1>2, <2>1, SendKeepsTexts
<1>3. ASSUME NEW op \in CaseOps \cup {"list", "crm"}, NEW c \in Cases \cup {Nobody}, Workshop!Sends(Workshop!Ask(op, c)),
             op \in CaseOps => c \in Cases, op # "finalize"
      PROVE  CasesInv'
  BY <1>2, <1>3, AskFits
<1>4. ASSUME NEW op \in {"draft", "create", "begin"}, Workshop!Sends([Workshop!Ask(op, Config!None) EXCEPT !.job = match])
      PROVE  CasesInv'
  <2>1. PICK r : r = [Workshop!Ask(op, Config!None) EXCEPT !.job = match]
    OBVIOUS
  <2> QED
    BY <1>2, <1>4, <2>1, AskForJobFits
<1>5. ASSUME NEW op \in CaseOps \ {"finalize"}, Workshop!OfOpenCase(op) PROVE CasesInv'
  <2>1. Workshop!Sends(Workshop!Ask(op, sel)) /\ sel \in Cases
    BY <1>5 DEF Workshop!OfOpenCase, Workshop!There
  <2> QED
    BY <1>3, <2>1
<1>6. CASE Workshop!LoadApplicationCases \/ Workshop!LoadCrm
  BY <1>3, <1>6 DEF Workshop!LoadApplicationCases, Workshop!LoadCrm, CaseOps, Nobody
<1>7. CASE Workshop!PrepareApplication
  BY <1>4, <1>7 DEF Workshop!PrepareApplication
<1>8. CASE Workshop!CreateApplicationCase
  BY <1>4, <1>8 DEF Workshop!CreateApplicationCase
<1>9. CASE Workshop!StartApplicationFromInventory
  BY <1>4, <1>9 DEF Workshop!StartApplicationFromInventory
<1>10. CASE Workshop!FinalizeSelectedApplicationCase
  <2>1. PICK r : r = [Workshop!Ask("finalize", sel) EXCEPT !.text = editor]
    OBVIOUS
  <2>2. Workshop!Sends(r) /\ sel \in Workshop!There(list)
    BY <1>10, <2>1, Zenon DEF Workshop!FinalizeSelectedApplicationCase
  <2> QED
    BY <1>2, <2>1, <2>2, FinalizeFits
<1>11. CASE Workshop!ReviewApplicationRevision
  BY <1>5, <1>11 DEF Workshop!ReviewApplicationRevision, CaseOps
<1>12. CASE Workshop!ApproveApplicationCase
  BY <1>5, <1>12 DEF Workshop!ApproveApplicationCase, CaseOps
<1>13. CASE Workshop!ExportApplicationRevision
  BY <1>5, <1>13 DEF Workshop!ExportApplicationRevision, CaseOps
<1>14. ASSUME NEW c \in Cases, Workshop!AdvanceApplication(c) PROVE CasesInv'
  BY <1>3, <1>14 DEF Workshop!AdvanceApplication, CaseOps
<1>15. ASSUME NEW c \in Cases, Workshop!DeleteApplicationCaseRow(c) PROVE CasesInv'
  BY <1>3, <1>15 DEF Workshop!DeleteApplicationCaseRow, CaseOps
<1> QED
  BY <1>6, <1>7, <1>8, <1>9, <1>10, <1>11, <1>12, <1>13, <1>14, <1>15, Zenon DEF Workshop!Requests

\* The answers, one step for each.
LEMMA HandlesKeepsTexts ==
    ASSUME CasesInv, NEW q \in asked, Workshop!Handles(q)
    PROVE  CasesInv'
<1>1. cases' = cases /\ match' = match /\ match' \in Jobs
  BY Zenon DEF Workshop!Handles, Workshop!IsRefused, CasesInv, CasesTypeOK
<1>2. q \in CaseRequests /\ RequestFits(q, cases) /\ q.got \in [Cases -> CaseRecords] /\ Fits(q.got, cases)
  BY DEF CasesInv, CasesTypeOK, RequestFits, CaseRequests
<1>3. /\ list \in [Cases -> CaseRecords] /\ asked \subseteq CaseRequests /\ sel \in Cases \cup {Nobody}
      /\ editor \in SUBSET (Cases \cup Jobs \cup {Nobody}) /\ cases \in [Cases -> CaseRecords]
      /\ drafts \in [Cases -> SUBSET (Cases \cup Jobs \cup {Nobody})] /\ draft \in Jobs \cup {Nobody}
      /\ Fits(list, cases) /\ TextsFit(sel, editor, drafts, cases)
  BY Zenon DEF CasesInv, CasesTypeOK
<1>4. ASSUME asked' = asked \ {q}, draft' \in Jobs \cup {Nobody}, UNCHANGED <<editor, drafts>>,
             sel' \in {sel, Nobody}, list' \in [Cases -> CaseRecords], Fits(list', cases)
      PROVE  CasesInv'
  <2>1. CasesTypeOK'
    BY <1>1, <1>3, <1>4 DEF CasesTypeOK
  <2>2. TextsFit(sel', editor', drafts', cases)
    BY <1>3, <1>4 DEF TextsFit
  <2> QED
    BY <1>1, <1>4, <2>1, <2>2, PageMoves
<1>5. ASSUME NEW c \in Cases, NEW e \in CaseRecords, Fits([list EXCEPT ![c] = e], cases) \/ e = Unknown \/ e = q.got[c]
      PROVE  [list EXCEPT ![c] = e] \in [Cases -> CaseRecords] /\ Fits([list EXCEPT ![c] = e], cases)
  BY <1>2, <1>3, <1>5, NothingFits DEF Fits
<1>6. CASE Workshop!IsRefused(q)
  <2>1. asked' = asked \ {q} /\ UNCHANGED <<list, sel, editor, drafts, draft>>
    BY <1>6 DEF Workshop!IsRefused, Workshop!Follow, Workshop!texts
  <2> QED
    BY <1>3, <1>4, <2>1
<1>7. CASE Workshop!ListAnswered(q)
  <2>1. /\ asked' = asked \ {q} /\ UNCHANGED <<editor, drafts, draft>>
        /\ list' = q.got /\ sel' \in {sel, Nobody}
    BY <1>7 DEF Workshop!ListAnswered, Workshop!Follow, Nobody
  <2> QED
    BY <1>2, <1>3, <1>4, <2>1
<1>8. CASE Workshop!DocsAnswered(q)
  <2>1. asked' = asked \ {q} /\ UNCHANGED <<list, sel, editor, drafts, draft>>
    BY <1>8 DEF Workshop!DocsAnswered, Workshop!Follow, Workshop!texts
  <2> QED
    BY <1>3, <1>4, <2>1
<1>9. CASE Workshop!DraftAnswered(q)
  <2>1. asked' = asked \ {q} /\ UNCHANGED <<list, sel, editor, drafts>> /\ draft' = q.job
    BY <1>9 DEF Workshop!DraftAnswered, Workshop!Follow, Workshop!texts
  <2>2. q.job \in Jobs \cup {Nobody}
    BY <1>2 DEF CaseRequests
  <2> QED
    BY <1>3, <1>4, <2>1, <2>2
<1>10. CASE Workshop!CaseUpdated(q)
  <2>1. /\ asked' = asked \ {q} /\ UNCHANGED <<sel, editor, drafts, draft>> /\ q.op \in CaseOps
        /\ list' = list \/ list' = [list EXCEPT ![q.case] = q.got[q.case]]
    BY <1>10 DEF Workshop!CaseUpdated, Workshop!Follow, Workshop!texts, CaseOps
  <2>2. q.case \in Cases /\ q.got[q.case] \in CaseRecords
    BY <1>2, <2>1 DEF RequestFits
  <2> QED
    BY <1>3, <1>4, <1>5, <2>1, <2>2
<1>11. CASE Workshop!Finalized(q)
  <2>1. /\ asked' = asked \ {q} /\ UNCHANGED <<list, sel, editor, drafts>> /\ draft' = q.got[q.case].job
        /\ q.op \in CaseOps
    BY <1>11 DEF Workshop!Finalized, Workshop!Follow, Workshop!texts, CaseOps
  <2>2. q.got[q.case].job \in Jobs \cup {Nobody}
    BY <1>2, <2>1 DEF RequestFits, CaseRecords
  <2> QED
    BY <1>3, <1>4, <2>1, <2>2
<1>12. CASE Workshop!Reviewed(q)
  <2>1. asked' = asked \ {q} /\ UNCHANGED <<list, sel, editor, drafts, draft>>
    BY <1>12 DEF Workshop!Reviewed, Workshop!Follow, Workshop!texts
  <2> QED
    BY <1>3, <1>4, <2>1
<1>13. CASE Workshop!Exported(q)
  <2>1. /\ asked' = (asked \ {q}) \cup {Workshop!Ask("list", Nobody), Workshop!Ask("docs", q.case)}
        /\ UNCHANGED <<list, sel, editor, drafts, draft>> /\ q.op \in CaseOps
    BY <1>13 DEF Workshop!Exported, Workshop!Follow, Workshop!texts, CaseOps, Nobody
  <2>2. q.case \in Cases
    BY <1>2, <2>1, Zenon DEF RequestFits
  <2>3. Workshop!Ask("list", Nobody) \in CaseRequests /\ RequestFits(Workshop!Ask("list", Nobody), cases)
    BY AskFits DEF CaseOps
  <2>4. Workshop!Ask("docs", q.case) \in CaseRequests /\ RequestFits(Workshop!Ask("docs", q.case), cases)
    BY <2>2, AskFits DEF CaseOps
  <2>5. draft' \in Jobs \cup {Nobody} /\ UNCHANGED <<cases, list, sel, editor, drafts>>
    BY <1>1, <1>3, <2>1
  <2>6. \A p \in asked' : p \in asked \/ (p \in CaseRequests /\ RequestFits(p, cases))
    BY <2>1, <2>3, <2>4, Zenon
  <2> QED
    BY <1>1, <2>5, <2>6, SendKeepsTexts
<1>14. CASE Workshop!Deleted(q)
  <2>1. /\ asked' = asked \ {q} /\ UNCHANGED <<editor, drafts, draft>> /\ q.op \in CaseOps
        /\ list' = [list EXCEPT ![q.case] = Unknown] /\ sel' \in {sel, Nobody}
    BY <1>14 DEF Workshop!Deleted, Workshop!Follow, CaseOps, Nobody, Unknown
  <2>2. q.case \in Cases /\ Unknown \in CaseRecords
    BY <1>2, <2>1, NothingFits DEF RequestFits
  <2> QED
    BY <1>3, <1>4, <1>5, <2>1, <2>2
<1>15. CASE q.is = "answered" /\ Workshop!CaseCreated(q)
  <2>1. /\ list' = [list EXCEPT ![q.case] = q.got[q.case]] /\ Workshop!Opens(q.case, list')
        /\ asked' = asked \ {q} /\ draft' = draft /\ q.op \in {"create", "begin"}
    BY <1>15 DEF Workshop!CaseCreated, Workshop!Follow
  <2>2. q.case \in Cases /\ q.got[q.case].job # Nobody
    BY <1>2, <1>15, <2>1, Zenon DEF RequestFits
  <2>3. PICK f : f = list'
    OBVIOUS
  <2>4. f \in [Cases -> CaseRecords] /\ Fits(f, cases) /\ f[q.case] = q.got[q.case]
    <3>1. q.got[q.case] \in CaseRecords
      BY <1>2, <2>2
    <3> QED
      BY <1>3, <1>5, <2>1, <2>2, <2>3, <3>1
  <2>5. cases[q.case] # Unknown /\ (cases[q.case].job # Nobody => f[q.case].job = cases[q.case].job)
    BY <1>2, <2>2, <2>4, Zenon DEF Fits
  <2>6. /\ sel' \in Cases \cup {Nobody} /\ editor' \in SUBSET (Cases \cup Jobs \cup {Nobody})
        /\ drafts' \in [Cases -> SUBSET (Cases \cup Jobs \cup {Nobody})]
        /\ TextsFit(sel', editor', drafts', cases)
    BY <2>1, <2>2, <2>3, <2>5, OpensFits
  <2>7. CasesTypeOK'
    BY <1>1, <1>3, <2>1, <2>3, <2>4, <2>6 DEF CasesTypeOK
  <2> QED
    BY <1>1, <2>1, <2>3, <2>4, <2>6, <2>7, PageMoves
<1> QED
  BY <1>6, <1>7, <1>8, <1>9, <1>10, <1>11, <1>12, <1>13, <1>14, <1>15, Zenon DEF Workshop!Handles

\* Every step keeps the texts with their cases.
LEMMA CasesKeep == CasesInv /\ [Workshop!Next]_caseVars => CasesInv'
<1> SUFFICES ASSUME CasesInv, [Workshop!Next]_caseVars PROVE CasesInv'
  OBVIOUS
<1>0. /\ list \in [Cases -> CaseRecords] /\ asked \subseteq CaseRequests /\ sel \in Cases \cup {Nobody}
      /\ editor \in SUBSET (Cases \cup Jobs \cup {Nobody}) /\ cases \in [Cases -> CaseRecords]
      /\ drafts \in [Cases -> SUBSET (Cases \cup Jobs \cup {Nobody})] /\ draft \in Jobs \cup {Nobody}
      /\ match \in Jobs /\ Fits(list, cases) /\ TextsFit(sel, editor, drafts, cases)
  BY Zenon DEF CasesInv, CasesTypeOK
<1>1. ASSUME NEW q \in asked, Workshop!Serve(q), match' = match PROVE CasesInv'
  BY <1>1, ServeKeepsTexts
<1>2. ASSUME NEW q \in asked, Workshop!Handles(q) PROVE CasesInv'
  BY <1>2, HandlesKeepsTexts
<1>3. CASE Workshop!Requests
  BY <1>3, RequestsKeepTexts
<1>4. CASE Workshop!Types
  <2>1. /\ sel \in Cases /\ sel # Nobody /\ editor' \in {{}, editor \cup {sel}}
        /\ UNCHANGED <<cases, asked, list, sel, drafts, draft, match>>
    BY <1>4, PagesAssumption DEF Workshop!Types, Workshop!There, Nobody
  <2>2. WrittenFor(editor', sel, cases)
    BY <1>0, <2>1 DEF TextsFit, WrittenFor
  <2>3. CasesTypeOK'
    BY <1>0, <2>1 DEF CasesTypeOK
  <2>4. TextsFit(sel', editor', drafts', cases)
    BY <1>0, <2>1, <2>2 DEF TextsFit
  <2> QED
    BY <1>0, <2>1, <2>3, <2>4, PageMoves
<1>5. CASE Workshop!Ticks
  <2>1. UNCHANGED <<cases, asked, list, sel, editor, drafts, draft, match>>
    BY <1>5, Zenon DEF Workshop!Ticks, Workshop!texts
  <2> QED
    BY <1>0, <2>1, SendKeepsTexts
<1>6. ASSUME NEW c \in Cases, Workshop!SelectApplicationCase(c) PROVE CasesInv'
  <2>1. /\ list[c].job # Nobody /\ Workshop!Opens(c, list) /\ UNCHANGED <<cases, list, draft, match>>
        /\ asked' = asked \/ asked' = asked \cup {Workshop!Ask("docs", c)}
    BY <1>6 DEF Workshop!SelectApplicationCase, Workshop!There, Workshop!Sends, Nobody
  <2>2. cases[c] # Unknown /\ (cases[c].job # Nobody => list[c].job = cases[c].job)
    BY <1>0, <2>1, Zenon DEF Fits
  <2>3. /\ sel' \in Cases \cup {Nobody} /\ editor' \in SUBSET (Cases \cup Jobs \cup {Nobody})
        /\ drafts' \in [Cases -> SUBSET (Cases \cup Jobs \cup {Nobody})]
        /\ TextsFit(sel', editor', drafts', cases)
    BY <2>1, <2>2, OpensFits
  <2>4. Workshop!Ask("docs", c) \in CaseRequests /\ RequestFits(Workshop!Ask("docs", c), cases)
    BY AskFits DEF CaseOps
  <2>5. CasesTypeOK'
    BY <1>0, <2>1, <2>3, <2>4 DEF CasesTypeOK
  <2>6. \A q \in asked' : q \in asked \/ RequestFits(q, cases)
    BY <2>1, <2>4, Zenon
  <2> QED
    BY <1>0, <2>1, <2>3, <2>5, <2>6, PageMoves
<1>7. ASSUME NEW j \in Jobs, Workshop!ChooseMatch(j) PROVE CasesInv'
  <2>1. UNCHANGED <<cases, asked, list, sel, editor, drafts, draft>> /\ match' = j
    BY <1>7, Zenon DEF Workshop!ChooseMatch, Workshop!texts
  <2> QED
    BY <1>0, <2>1, SendKeepsTexts
<1>8. CASE UNCHANGED caseVars
  <2>1. UNCHANGED <<cases, asked, list, sel, editor, drafts, draft, match>>
    BY <1>8, Zenon DEF caseVars
  <2> QED
    BY <1>0, <2>1, SendKeepsTexts
<1>9. ASSUME NEW q \in asked, Workshop!Serve(q) PROVE match' = match
  BY <1>9, Zenon DEF Workshop!Serve
<1> QED
  BY <1>1, <1>2, <1>3, <1>4, <1>5, <1>6, <1>7, <1>8, <1>9, Zenon DEF Workshop!Next

\* The invariant says what the page promises.
LEMMA CasesTrue == CasesInv => Workshop!TextStaysWithCase
<1> SUFFICES ASSUME CasesInv PROVE Workshop!TextStaysWithCase
  OBVIOUS
<1>1. ASSUME sel \in Workshop!There(cases) PROVE editor \subseteq {sel, cases[sel].job}
  <2>1. sel \in Cases /\ sel # Nobody /\ cases[sel].job # Nobody
    BY <1>1, PagesAssumption DEF Workshop!There, Nobody
  <2> QED
    BY <2>1, Zenon DEF CasesInv, TextsFit, WrittenFor
<1>2. ASSUME NEW q \in asked, q.op = "finalize", q.case \in Workshop!There(cases)
      PROVE  q.text \subseteq {q.case, cases[q.case].job}
  <2>1. cases[q.case].job # Nobody
    BY <1>2 DEF Workshop!There, Nobody
  <2> QED
    BY <1>2, <2>1, Zenon DEF CasesInv, RequestFits, WrittenFor
<1> QED
  BY <1>1, <1>2, Zenon DEF Workshop!TextStaysWithCase

-----------------------------------------------------------------------------
(* The mail vault *)

Mails == [from : Mail!Sources, mail : Nat, copy : {1, 2}, of : MailCases \cup {Mail!None}]
MailAccounts == [state : {"none", "saved", "deleted"}, on : BOOLEAN, cursor : Nat]
Vaults == [accounts : [Accounts -> MailAccounts], mails : SUBSET Mails]

ofAccount == {"save", "enable", "disable", "delete", "sync", "test"}
MailCalls ==
    [op : ofAccount \cup {"eml", "drop", "correlate", "crm"},
     of : Accounts \cup {Mail!None} \cup [mail : Mails, to : MailCases],
     at : {"asked", "fetching", "mails", "cursor", "answered", "refused"}, read : BOOLEAN,
     data : Vaults, fetched : SUBSET Mails, last : Nat]

MailTypeOK ==
    /\ vault \in Vaults /\ arrived \in [Mail!Sources -> Nat] /\ calls \in SUBSET MailCalls
    /\ shown \in [accounts : [Accounts -> MailAccounts], inbox : SUBSET Mails]

\* A mail that can be told from others is there once.
Once(ms) ==
    \A m \in ms : m.mail \notin NoId \/ m.from = Mail!Drop =>
        \A x \in ms : x.from = m.from /\ x.mail = m.mail => x = m

CallOK(q) ==
    /\ q.op \in ofAccount => q.of \in Accounts
    /\ q.op = "correlate" => q.of \in [mail : Mails, to : MailCases]
    /\ q.at \in {"fetching", "mails", "cursor"} => q.op = "sync"
    /\ Once(q.data.mails) /\ \A m \in q.fetched : m.copy = 1 /\ m.of = Mail!None
    /\ q.read => q.at \notin {"answered", "refused", "fetching"} /\ q.op \notin {"test", "crm"} /\ (q.op = "sync" => q.at # "asked")

\* The first mails of an account, among those.
Stored(ms, a, k) == \A n \in 1..MaxMails : n <= k => \E m \in ms : m.from = a /\ m.mail = n

\* What a call knows as long as no other has changed the vault since it read it.
KnowsVault(q, v) ==
    /\ q.read => q.data = v
    /\ q.read /\ (q.op \in {"enable", "disable", "delete"} \/ q.at = "cursor") => v.accounts[q.of].state = "saved"
    /\ q.at \in {"fetching", "mails", "cursor"} =>
         /\ v.accounts[q.of].state # "none"
         /\ v.accounts[q.of].state = "saved" =>
              Stored(v.mails \cup (IF q.at = "mails" THEN q.fetched ELSE {}), q.of, q.last)
    /\ q.op = "save" /\ q.at = "asked" => v.accounts[q.of].state = "none"

AloneInv ==
    /\ \A a \in Accounts : Stored(vault.mails, a, vault.accounts[a].cursor)
    /\ \A q, x \in calls : q.read /\ x.read => q = x
    /\ \A q \in calls : KnowsVault(q, vault)

MailInv ==
    /\ MailTypeOK /\ Once(vault.mails)
    /\ \A q \in calls : CallOK(q)
    /\ \A q, x \in calls : q.op = "save" /\ x.op = "save" => q = x
    /\ alone \in BOOLEAN /\ (alone => AloneInv)

-----------------------------------------------------------------------------

\* What is added to the vault: each mail that is not known, and no other.
LEMMA AddedMails ==
    ASSUME NEW d \in Vaults, NEW ms \in SUBSET Mails, \A m \in ms : m.copy = 1 /\ m.of = Mail!None,
           Once(d.mails), NEW w, w = Mail!WithMails(d, ms)
    PROVE  /\ w \in Vaults /\ w.accounts = d.accounts /\ d.mails \subseteq w.mails /\ Once(w.mails)
           /\ \A m \in ms : \E x \in w.mails : x.from = m.from /\ x.mail = m.mail
<1>1. PICK new : new = UNION {Mail!Added(d, m) : m \in ms}
  OBVIOUS
<1>2. w = [d EXCEPT !.mails = d.mails \cup new]
  BY <1>1 DEF Mail!WithMails
<1>3. ASSUME NEW y \in new
      PROVE  \E m \in ms : ~Mail!Known(d, m) /\ y.from = m.from /\ y.mail = m.mail /\ y \in Mails
                           /\ y.of = Mail!None
                           /\ y.copy = IF \E x \in d.mails : x.from = m.from /\ x.mail = m.mail THEN 2 ELSE 1
  <2>1. PICK m \in ms : y \in Mail!Added(d, m)
    BY <1>1, <1>3, Zenon
  <2>2. ~Mail!Known(d, m) /\ y = [m EXCEPT !.copy = IF \E x \in d.mails : x.from = m.from /\ x.mail = m.mail THEN 2 ELSE 1]
    BY <2>1, Zenon DEF Mail!Added
  <2>3. m \in Mails /\ m.of = Mail!None
    OBVIOUS
  <2>4. PICK k \in {1, 2} : k = IF \E x \in d.mails : x.from = m.from /\ x.mail = m.mail THEN 2 ELSE 1
    OBVIOUS
  <2>5. y = [m EXCEPT !.copy = k]
    BY <2>2, <2>4, Zenon
  <2>6. y \in Mails /\ y.from = m.from /\ y.mail = m.mail /\ y.of = m.of /\ y.copy = k
    BY <2>3, <2>5 DEF Mails
  <2> QED
    BY <2>2, <2>3, <2>4, <2>6
<1>4. new \subseteq Mails
  BY <1>3
<1>5. /\ w \in Vaults /\ w.accounts = d.accounts /\ w.mails = d.mails \cup new
  BY <1>2, <1>4 DEF Vaults
<1>6. ASSUME NEW m \in w.mails, m.mail \notin NoId \/ m.from = Mail!Drop, NEW x \in w.mails, x.from = m.from, x.mail = m.mail
      PROVE  x = m
  <2>1. CASE m \in d.mails /\ x \in d.mails
    BY <1>6, <2>1 DEF Once
  <2>2. CASE x \in new
    <3>1. PICK f \in ms : /\ ~Mail!Known(d, f) /\ x.from = f.from /\ x.mail = f.mail /\ x \in Mails
                          /\ x.of = Mail!None
                          /\ x.copy = IF \E z \in d.mails : z.from = f.from /\ z.mail = f.mail THEN 2 ELSE 1
      BY <1>3, <2>2
    <3>2. m \notin d.mails
      BY <1>6, <3>1 DEF Mail!Known
    <3>3. PICK g \in ms : /\ m.from = g.from /\ m.mail = g.mail /\ m \in Mails
                          /\ m.of = Mail!None
                          /\ m.copy = IF \E z \in d.mails : z.from = g.from /\ z.mail = g.mail THEN 2 ELSE 1
      BY <1>3, <1>5, <3>2
    <3>4. m.copy = x.copy
      BY <1>6, <3>1, <3>3
    <3>5. /\ x = [from |-> x.from, mail |-> x.mail, copy |-> x.copy, of |-> x.of]
          /\ m = [from |-> m.from, mail |-> m.mail, copy |-> m.copy, of |-> m.of]
      BY <3>1, <3>3, Zenon DEF Mails
    <3> QED
      BY <1>6, <3>1, <3>3, <3>4, <3>5, Zenon
  <2>3. CASE m \in new /\ x \in d.mails
    <3>1. PICK g \in ms : ~Mail!Known(d, g) /\ m.from = g.from /\ m.mail = g.mail
      BY <1>3, <2>3
    <3> QED
      BY <1>6, <2>3, <3>1 DEF Mail!Known
  <2> QED
    BY <1>5, <2>1, <2>2, <2>3
<1>7. ASSUME NEW m \in ms PROVE \E x \in w.mails : x.from = m.from /\ x.mail = m.mail
  <2>1. CASE Mail!Known(d, m)
    BY <1>5, <2>1 DEF Mail!Known
  <2>2. CASE ~Mail!Known(d, m)
    <3>1. PICK k : k = IF \E x \in d.mails : x.from = m.from /\ x.mail = m.mail THEN 2 ELSE 1
      OBVIOUS
    <3>2. PICK y : y = [m EXCEPT !.copy = k]
      OBVIOUS
    <3>3. y \in Mail!Added(d, m)
      BY <2>2, <3>1, <3>2, Zenon DEF Mail!Added
    <3>4. y \in new
      BY <1>1, <3>3, Zenon
    <3>5. y.from = m.from /\ y.mail = m.mail
      BY <3>2 DEF Mails
    <3> QED
      BY <1>5, <3>4, <3>5
  <2> QED
    BY <2>1, <2>2
<1> QED
  BY <1>5, <1>6, <1>7 DEF Once
\* An account is written.
LEMMA AccountWritten ==
    ASSUME NEW q, q.data \in Vaults, q.of \in Accounts, NEW r \in MailAccounts, NEW w, w = Mail!WithAccount(q, r)
    PROVE  /\ w \in Vaults /\ w.mails = q.data.mails
           /\ w.accounts = [q.data.accounts EXCEPT ![q.of] = r]
<1>1. PICK d, a : d = q.data /\ a = q.of
  OBVIOUS
<1>2. d = [accounts |-> d.accounts, mails |-> d.mails] /\ d.accounts \in [Accounts -> MailAccounts] /\ d.mails \in SUBSET Mails
  BY <1>1 DEF Vaults
<1>3. w = [d EXCEPT !.accounts[a] = r]
  BY <1>1 DEF Mail!WithAccount
<1>4. /\ w = [accounts |-> [d.accounts EXCEPT ![a] = r], mails |-> d.mails]
      /\ w.accounts \in [Accounts -> MailAccounts]
  BY <1>1, <1>2, <1>3
<1> QED
  BY <1>1, <1>2, <1>4 DEF Vaults

\* An account is deleted, and its mails.
LEMMA AccountDeleted ==
    ASSUME NEW q, q.data \in Vaults, Once(q.data.mails), q.of \in Accounts, NEW w, w = Mail!WithoutAccount(q)
    PROVE  /\ w \in Vaults /\ w.mails = {x \in q.data.mails : x.from # q.of} /\ Once(w.mails)
           /\ \E r \in MailAccounts : /\ r.state = "deleted" /\ r.cursor = 0
                                      /\ w.accounts = [q.data.accounts EXCEPT ![q.of] = r]
<1>1. PICK r : r = [Mail!NoAccount EXCEPT !.state = "deleted"]
  OBVIOUS
<1>2. r \in MailAccounts /\ r.state = "deleted" /\ r.cursor = 0
  BY <1>1 DEF MailAccounts, Mail!NoAccount
<1>3. PICK v : v = Mail!WithAccount(q, r)
  OBVIOUS
<1>4. v \in Vaults /\ v.mails = q.data.mails /\ v.accounts = [q.data.accounts EXCEPT ![q.of] = r]
  BY <1>2, <1>3, AccountWritten
<1>5. w = [v EXCEPT !.mails = {x \in v.mails : x.from # q.of}]
  BY <1>1, <1>3 DEF Mail!WithoutAccount
<1>6. v = [accounts |-> v.accounts, mails |-> v.mails] /\ v.accounts \in [Accounts -> MailAccounts] /\ v.mails \in SUBSET Mails
  BY <1>4 DEF Vaults
<1>7. w = [accounts |-> v.accounts, mails |-> {x \in v.mails : x.from # q.of}]
  BY <1>5, <1>6
<1>8. w.accounts = v.accounts /\ w.mails = {x \in v.mails : x.from # q.of} /\ w \in Vaults
  BY <1>6, <1>7 DEF Vaults
<1>9. Once(w.mails)
  BY <1>4, <1>8 DEF Once
<1> QED
  BY <1>2, <1>4, <1>8, <1>9

\* A mail is given to a case: it stays the mail it is.
LEMMA CorrelatedVault ==
    ASSUME NEW q, q.data \in Vaults, Once(q.data.mails), q.of \in [mail : Mails, to : MailCases], NEW w, w = Mail!WithCase(q)
    PROVE  /\ w \in Vaults /\ Once(w.mails) /\ w.accounts = q.data.accounts
           /\ \A x \in q.data.mails : \E y \in w.mails : y.from = x.from /\ y.mail = x.mail
<1>a. PICK d, m, c : d = q.data /\ m = q.of.mail /\ c = q.of.to
  OBVIOUS
<1>b. d \in Vaults /\ Once(d.mails) /\ m \in Mails /\ c \in MailCases
  BY <1>a
<1>1. PICK meant : meant = Mail!Meant(q, d)
  OBVIOUS
<1>2. meant \subseteq d.mails
  BY <1>1 DEF Mail!Meant
<1>3. PICK ms : ms = (d.mails \ meant) \cup {[x EXCEPT !.of = c] : x \in meant}
  OBVIOUS
<1>4. d = [accounts |-> d.accounts, mails |-> d.mails] /\ d.accounts \in [Accounts -> MailAccounts] /\ d.mails \in SUBSET Mails
  BY <1>b DEF Vaults
<1> DEFINE Given(u) == IF u \in meant THEN [u EXCEPT !.of = c] ELSE u
<1>5. /\ \A x \in ms : \E u \in d.mails : x = Given(u)
      /\ \A u \in d.mails : Given(u) \in ms
  <2>1. ASSUME NEW x \in ms PROVE \E u \in d.mails : x = Given(u)
    <3>1. CASE x \in d.mails /\ x \notin meant
      BY <3>1
    <3>2. CASE \E u \in meant : x = [u EXCEPT !.of = c]
      BY <1>2, <3>2
    <3> QED
      BY <1>3, <2>1, <3>1, <3>2
  <2>2. ASSUME NEW u \in d.mails PROVE Given(u) \in ms
    BY <1>3
  <2> QED
    BY <2>1, <2>2
<1>n. \A u \in d.mails : Given(u) \in Mails /\ Given(u).from = u.from /\ Given(u).mail = u.mail
  BY <1>b, <1>4 DEF Mails
<1> HIDE DEF Given
<1>6. w \in Vaults /\ w.mails = ms /\ w.accounts = d.accounts
  <2>1. w = [d EXCEPT !.mails = ms]
    BY <1>a, <1>1, <1>3 DEF Mail!WithCase
  <2>2. w = [accounts |-> d.accounts, mails |-> ms]
    BY <1>4, <2>1
  <2>3. ms \subseteq Mails
    BY <1>4, <1>5, <1>n
  <2> QED
    BY <1>4, <2>2, <2>3 DEF Vaults
<1>7. Once(ms)
  <2> SUFFICES ASSUME NEW x \in ms, x.mail \notin NoId \/ x.from = Mail!Drop, NEW y \in ms, y.from = x.from, y.mail = x.mail
               PROVE  y = x
    BY DEF Once
  <2>1. PICK u \in d.mails : u.from = x.from /\ u.mail = x.mail /\ x = Given(u)
    BY <1>5, <1>n
  <2>2. PICK v \in d.mails : v.from = y.from /\ v.mail = y.mail /\ y = Given(v)
    BY <1>5, <1>n
  <2>3. u = v
    BY <1>b, <2>1, <2>2 DEF Once
  <2> QED
    BY <2>1, <2>2, <2>3
<1>8. \A u \in d.mails : \E x \in ms : x.from = u.from /\ x.mail = u.mail
  BY <1>5, <1>n
<1> QED
  BY <1>a, <1>6, <1>7, <1>8

\* What a call writes over what it has read, for each kind of call.
WritesMails(q, w) ==
    /\ Mail!Saves(q) /\ w.accounts = q.data.accounts /\ q.data.mails \subseteq w.mails
    /\ \A m \in q.fetched : \E x \in w.mails : x.from = m.from /\ x.mail = m.mail
WritesCase(q, w) ==
    /\ q.op = "correlate" /\ w.accounts = q.data.accounts
    /\ \A x \in q.data.mails : \E y \in w.mails : y.from = x.from /\ y.mail = x.mail
WritesAccount(q, r) ==
    CASE q.op = "save" -> r.state = "saved" /\ r.cursor = 0
      [] q.op \in {"enable", "disable"} ->
            r.state = q.data.accounts[q.of].state /\ r.cursor = q.data.accounts[q.of].cursor
      [] q.op = "delete" -> r.state = "deleted" /\ r.cursor = 0
      [] q.op = "sync" ->
            r.state = q.data.accounts[q.of].state /\ r.cursor \in {q.data.accounts[q.of].cursor, q.last}
WritesAccounts(q, w) ==
    /\ ~Mail!Saves(q) /\ q.op \in {"save", "enable", "disable", "delete", "sync"} /\ (q.op = "sync" => q.at = "cursor")
    /\ q.of \in Accounts
    /\ \E r \in MailAccounts : WritesAccount(q, r) /\ w.accounts = [q.data.accounts EXCEPT ![q.of] = r]
    /\ w.mails = IF q.op = "delete" THEN {x \in q.data.mails : x.from # q.of} ELSE q.data.mails

LEMMA WhatIsWritten ==
    ASSUME MailTypeOK, NEW q \in calls, CallOK(q), q.read, NEW w, w = Mail!Changed(q)
    PROVE  /\ w \in Vaults /\ Once(w.mails)
           /\ WritesMails(q, w) \/ WritesCase(q, w) \/ WritesAccounts(q, w)
<1>1. /\ q \in MailCalls /\ q.data \in Vaults /\ Once(q.data.mails) /\ q.fetched \in SUBSET Mails /\ q.last \in Nat
      /\ \A m \in q.fetched : m.copy = 1 /\ m.of = Mail!None
  BY DEF MailTypeOK, MailCalls, CallOK
<1>2. /\ q.op \in ofAccount \cup {"eml", "drop", "correlate", "crm"} /\ q.op \notin {"test", "crm"}
      /\ q.op = "sync" => q.at \in {"mails", "cursor"}
      /\ q.at \in {"mails", "cursor"} => q.op = "sync"
      /\ q.op \in ofAccount => q.of \in Accounts
  BY DEF MailTypeOK, MailCalls, CallOK
<1>3. CASE Mail!Saves(q)
  <2>1. q.op \notin {"save", "enable", "disable", "delete", "correlate"} /\ ~(q.op = "sync" /\ q.at = "cursor")
    BY <1>2, <1>3 DEF Mail!Saves
  <2>2. w = Mail!WithMails(q.data, q.fetched)
    BY <1>3, <2>1 DEF Mail!Changed
  <2>3. /\ w \in Vaults /\ w.accounts = q.data.accounts /\ q.data.mails \subseteq w.mails /\ Once(w.mails)
        /\ \A m \in q.fetched : \E x \in w.mails : x.from = m.from /\ x.mail = m.mail
    BY <1>1, <2>2, AddedMails
  <2> QED
    BY <1>3, <2>3, Zenon DEF WritesMails
<1>4. CASE q.op = "correlate"
  <2>1. ~Mail!Saves(q)
    BY <1>2, <1>4 DEF Mail!Saves
  <2>2. w = Mail!WithCase(q)
    BY <1>4, <2>1 DEF Mail!Changed
  <2>3. q.of \in [mail : Mails, to : MailCases]
    BY <1>4 DEF CallOK
  <2>4. /\ w \in Vaults /\ Once(w.mails) /\ w.accounts = q.data.accounts
        /\ \A x \in q.data.mails : \E y \in w.mails : y.from = x.from /\ y.mail = x.mail
    BY <1>1, <2>2, <2>3, CorrelatedVault
  <2> QED
    BY <1>4, <2>4, Zenon DEF WritesCase
<1>5. CASE ~Mail!Saves(q) /\ q.op # "correlate"
  <2>1. /\ q.op \in {"save", "enable", "disable", "delete", "sync"} /\ q.of \in Accounts
        /\ q.op = "sync" => q.at = "cursor"
    BY <1>2, <1>5 DEF Mail!Saves, ofAccount
  <2>2. q.data.accounts[q.of] \in MailAccounts
    BY <1>1, <2>1 DEF Vaults
  <2>3. ASSUME NEW r \in MailAccounts, w = Mail!WithAccount(q, r), WritesAccount(q, r), q.op # "delete"
        PROVE  w \in Vaults /\ Once(w.mails) /\ WritesAccounts(q, w)
    <3>2. w \in Vaults /\ w.mails = q.data.mails /\ w.accounts = [q.data.accounts EXCEPT ![q.of] = r]
      BY <1>1, <2>1, <2>3, AccountWritten
    <3> QED
      BY <1>1, <1>5, <2>1, <2>3, <3>2, Zenon DEF WritesAccounts
  <2>4. CASE q.op = "save"
    <3>1. PICK r : r = [Mail!NoAccount EXCEPT !.state = "saved"]
      OBVIOUS
    <3>2. r \in MailAccounts /\ r.state = "saved" /\ r.cursor = 0
      BY <3>1 DEF MailAccounts, Mail!NoAccount
    <3>3. w = Mail!WithAccount(q, r)
      BY <1>5, <2>4, <3>1 DEF Mail!Changed
    <3>4. WritesAccount(q, r)
      BY <2>4, <3>2 DEF WritesAccount
    <3> QED
      BY <2>3, <2>4, <3>2, <3>3, <3>4
  <2>5. CASE q.op \in {"enable", "disable"}
    <3>1. PICK r : r = [q.data.accounts[q.of] EXCEPT !.on = (q.op = "enable")]
      OBVIOUS
    <3>2. r \in MailAccounts /\ r.state = q.data.accounts[q.of].state /\ r.cursor = q.data.accounts[q.of].cursor
      BY <2>2, <3>1 DEF MailAccounts
    <3>3. w = Mail!WithAccount(q, r)
      BY <1>5, <2>5, <3>1 DEF Mail!Changed
    <3>4. WritesAccount(q, r)
      BY <2>5, <3>2 DEF WritesAccount
    <3> QED
      BY <2>3, <2>5, <3>2, <3>3, <3>4
  <2>6. CASE q.op = "delete"
    <3>1. w = Mail!WithoutAccount(q)
      BY <1>5, <2>6 DEF Mail!Changed
    <3>2. /\ w \in Vaults /\ w.mails = {x \in q.data.mails : x.from # q.of} /\ Once(w.mails)
          /\ \E r \in MailAccounts : /\ r.state = "deleted" /\ r.cursor = 0
                                     /\ w.accounts = [q.data.accounts EXCEPT ![q.of] = r]
      BY <1>1, <2>1, <3>1, AccountDeleted
    <3>3. PICK r \in MailAccounts : /\ r.state = "deleted" /\ r.cursor = 0
                                    /\ w.accounts = [q.data.accounts EXCEPT ![q.of] = r]
      BY <3>2
    <3>4. WritesAccount(q, r)
      BY <2>6, <3>3 DEF WritesAccount
    <3> QED
      BY <1>5, <2>1, <2>6, <3>2, <3>3, <3>4, Zenon DEF WritesAccounts
  <2>7. CASE q.op = "sync"
    <3>1. PICK r : r = [q.data.accounts[q.of] EXCEPT !.cursor = Mail!Max2(q.data.accounts[q.of].cursor, q.last)]
      OBVIOUS
    <3>2. /\ r \in MailAccounts /\ r.state = q.data.accounts[q.of].state
          /\ r.cursor \in {q.data.accounts[q.of].cursor, q.last}
      BY <1>1, <2>2, <3>1 DEF MailAccounts, Mail!Max2
    <3>3. w = Mail!WithAccount(q, r)
      BY <1>5, <2>1, <2>7, <3>1 DEF Mail!Changed, Mail!WithCursor
    <3>4. WritesAccount(q, r)
      BY <2>7, <3>2 DEF WritesAccount
    <3> QED
      BY <2>3, <2>7, <3>2, <3>3, <3>4
  <2> QED
    BY <2>1, <2>4, <2>5, <2>6, <2>7
<1> QED
  BY <1>3, <1>4, <1>5

\* From v to w accounts only come or go, and the mails of those that stay are there.
GoesOn(q, v, w) ==
    /\ \A a \in Accounts :
         /\ Stored(w.mails, a, w.accounts[a].cursor)
         /\ v.accounts[a].state # "none" => w.accounts[a].state # "none"
         /\ w.accounts[a].state = "saved" /\ v.accounts[a].state # "none" => v.accounts[a].state = "saved"
         /\ v.accounts[a].state = "none" /\ ~(q.op = "save" /\ q.of = a) => w.accounts[a].state = "none"
         /\ w.accounts[a].state = "saved" /\ v.accounts[a].state = "saved" =>
              \A m \in v.mails : m.from = a => \E x \in w.mails : x.from = m.from /\ x.mail = m.mail

\* The only call that changes the vault does so.
LEMMA AloneWrites ==
    ASSUME MailInv, alone, NEW q \in calls, q.read, NEW w, w = Mail!Changed(q)
    PROVE  GoesOn(q, vault, w)
<1>1. /\ MailTypeOK /\ CallOK(q) /\ AloneInv /\ KnowsVault(q, vault) /\ q.data = vault
  BY DEF MailInv, AloneInv, KnowsVault
<1>2. WritesMails(q, w) \/ WritesCase(q, w) \/ WritesAccounts(q, w)
  BY <1>1, WhatIsWritten
<1>3. \A a \in Accounts : Stored(vault.mails, a, vault.accounts[a].cursor) /\ vault.accounts[a] \in MailAccounts
  BY <1>1 DEF AloneInv, MailTypeOK, Vaults
<1>4. vault.mails \subseteq Mails /\ q.op \in ofAccount \cup {"eml", "drop", "correlate", "crm"}
  BY <1>1 DEF MailTypeOK, Vaults, MailCalls
<1>5. ASSUME w.accounts = vault.accounts, \A m \in vault.mails : \E x \in w.mails : x.from = m.from /\ x.mail = m.mail
      PROVE  GoesOn(q, vault, w)
  BY <1>3, <1>5 DEF GoesOn, Stored
<1>6. CASE WritesMails(q, w)
  BY <1>1, <1>5, <1>6 DEF WritesMails
<1>7. CASE WritesCase(q, w)
  BY <1>1, <1>5, <1>7 DEF WritesCase
<1>8. CASE WritesAccounts(q, w)
  <2>1. PICK r \in MailAccounts : WritesAccount(q, r) /\ w.accounts = [vault.accounts EXCEPT ![q.of] = r]
    BY <1>1, <1>8, Zenon DEF WritesAccounts
  <2>2. /\ q.op \in {"save", "enable", "disable", "delete", "sync"} /\ (q.op = "sync" => q.at = "cursor") /\ q.of \in Accounts
        /\ ~Mail!Saves(q)
        /\ w.mails = IF q.op = "delete" THEN {x \in vault.mails : x.from # q.of} ELSE vault.mails
    BY <1>1, <1>8, Zenon DEF WritesAccounts
  <2>3. /\ w.accounts[q.of] = r /\ \A a \in Accounts : a # q.of => w.accounts[a] = vault.accounts[a]
    BY <1>1, <2>1, <2>2 DEF MailTypeOK, Vaults
  <2>4. ASSUME NEW a \in Accounts, a # q.of
        PROVE  /\ Stored(w.mails, a, w.accounts[a].cursor)
               /\ \A m \in vault.mails : m.from = a => m \in w.mails
    BY <1>3, <2>2, <2>3, <2>4 DEF Stored
  <2>5. CASE q.op = "delete"
    <3>1. r.state = "deleted" /\ r.cursor = 0 /\ vault.accounts[q.of].state = "saved"
      BY <1>1, <2>1, <2>5 DEF WritesAccount, KnowsVault
    <3>2. Stored(w.mails, q.of, r.cursor)
      BY <3>1 DEF Stored
    <3> QED
      BY <2>3, <2>4, <3>1, <3>2 DEF GoesOn
  <2>6. CASE q.op = "save"
    <3>1. r.state = "saved" /\ r.cursor = 0
      BY <2>1, <2>6 DEF WritesAccount
    <3>2. vault.accounts[q.of].state = "none"
      <4>1. q.at = "asked"
        BY <1>1, <2>6 DEF CallOK, MailTypeOK, MailCalls
      <4> QED
        BY <1>1, <2>6, <4>1 DEF KnowsVault
    <3>3. Stored(w.mails, q.of, r.cursor)
      BY <3>1 DEF Stored
    <3> QED
      BY <2>3, <2>4, <2>6, <3>1, <3>2, <3>3 DEF GoesOn
  <2>7. CASE q.op \in {"enable", "disable", "sync"}
    <3>1. /\ r.state = vault.accounts[q.of].state /\ vault.accounts[q.of].state = "saved" /\ w.mails = vault.mails
          /\ r.cursor \in {vault.accounts[q.of].cursor, q.last} /\ (r.cursor = vault.accounts[q.of].cursor \/ q.at = "cursor")
      BY <1>1, <2>1, <2>2, <2>7 DEF WritesAccount, KnowsVault
    <3>2. Stored(w.mails, q.of, r.cursor)
      <4>1. CASE r.cursor = vault.accounts[q.of].cursor
        BY <1>3, <2>2, <3>1, <4>1
      <4>2. CASE r.cursor = q.last /\ q.at = "cursor"
        <5>1. Stored(vault.mails \cup {}, q.of, q.last)
          BY <1>1, <3>1, <4>2 DEF KnowsVault
        <5> QED
          BY <3>1, <4>2, <5>1 DEF Stored
      <4> QED
        BY <3>1, <4>1, <4>2
    <3> QED
      BY <2>2, <2>3, <2>4, <2>7, <3>1, <3>2 DEF GoesOn
  <2> QED
    BY <2>2, <2>5, <2>6, <2>7
<1> QED
  BY <1>2, <1>6, <1>7, <1>8

\* What is known of an account goes on.
LEMMA StoredGoesOn ==
    ASSUME NEW q, NEW v, NEW w, GoesOn(q, v, w), NEW a \in Accounts, NEW fs, NEW k,
           w.accounts[a].state = "saved", v.accounts[a].state = "saved", Stored(v.mails \cup fs, a, k)
    PROVE  Stored(w.mails \cup fs, a, k)
<1>1. \A m \in v.mails : m.from = a => \E x \in w.mails : x.from = m.from /\ x.mail = m.mail
  BY Zenon DEF GoesOn
<1> QED
  BY <1>1 DEF Stored

\* A call that waits, while another changes the vault.
LEMMA KnowsOn ==
    ASSUME NEW q, NEW x, NEW v, NEW w, GoesOn(q, v, w), KnowsVault(x, v), CallOK(x), ~x.read,
           ~(q.op = "save" /\ x.op = "save")
    PROVE  KnowsVault(x, w)
<1>1. ASSUME x.at \in {"fetching", "mails", "cursor"}
      PROVE  /\ w.accounts[x.of].state # "none"
             /\ w.accounts[x.of].state = "saved" =>
                  Stored(w.mails \cup (IF x.at = "mails" THEN x.fetched ELSE {}), x.of, x.last)
  <2>1. x.of \in Accounts
    BY <1>1 DEF CallOK, ofAccount
  <2>2. v.accounts[x.of].state # "none" /\ w.accounts[x.of].state # "none"
    BY <1>1, <2>1, Zenon DEF KnowsVault, GoesOn
  <2>3. ASSUME w.accounts[x.of].state = "saved"
        PROVE  Stored(w.mails \cup (IF x.at = "mails" THEN x.fetched ELSE {}), x.of, x.last)
    <3>1. v.accounts[x.of].state = "saved"
      BY <2>1, <2>2, <2>3, Zenon DEF GoesOn
    <3>2. Stored(v.mails \cup (IF x.at = "mails" THEN x.fetched ELSE {}), x.of, x.last)
      BY <1>1, <3>1, Zenon DEF KnowsVault
    <3> QED
      BY <2>1, <2>3, <3>1, <3>2, StoredGoesOn
  <2> QED
    BY <2>2, <2>3
<1>2. ASSUME x.op = "save", x.at = "asked" PROVE w.accounts[x.of].state = "none"
  <2>1. x.of \in Accounts /\ v.accounts[x.of].state = "none"
    BY <1>2 DEF CallOK, ofAccount, KnowsVault
  <2> QED
    BY <1>2, <2>1, Zenon DEF GoesOn
<1> QED
  BY <1>1, <1>2, Zenon DEF KnowsVault

\* The vault stays, and at most one call is new.
LEMMA VaultStays ==
    ASSUME MailInv, vault' = vault, alone' \in BOOLEAN, alone' => alone,
           arrived' \in [Mail!Sources -> Nat], shown' \in [accounts : [Accounts -> MailAccounts], inbox : SUBSET Mails],
           NEW r \in MailCalls, CallOK(r), calls' \subseteq calls \cup {r},
           r \in calls' /\ r.op = "save" => \A x \in calls' : x.op = "save" => x = r,
           alone' => KnowsVault(r, vault) /\ (r.read => \A x \in calls' : x.read => x = r)
    PROVE  MailInv'
<1>1. MailTypeOK'
  BY Zenon DEF MailInv, MailTypeOK
<1>2. \A q \in calls' : CallOK(q)
  BY Zenon DEF MailInv
<1>3. \A q, x \in calls' : q.op = "save" /\ x.op = "save" => q = x
  BY Zenon DEF MailInv
<1>4. ASSUME alone' PROVE AloneInv'
  <2>1. AloneInv /\ KnowsVault(r, vault)
    BY <1>4, Zenon DEF MailInv
  <2>2. \A a \in Accounts : Stored(vault'.mails, a, vault'.accounts[a].cursor)
    BY <2>1, Zenon DEF AloneInv
  <2>3. \A q, x \in calls' : q.read /\ x.read => q = x
    BY <1>4, <2>1, Zenon DEF AloneInv
  <2>4. \A q \in calls' : KnowsVault(q, vault')
    BY <2>1, Zenon DEF AloneInv
  <2> QED
    BY <2>2, <2>3, <2>4, Zenon DEF AloneInv
<1> QED
  BY <1>1, <1>2, <1>3, <1>4, Zenon DEF MailInv

\* A call that becomes another one of its kind.
LEMMA CallBecomes ==
    ASSUME MailInv, NEW q \in calls, vault' = vault, alone' = alone, arrived' = arrived, shown' = shown,
           NEW r \in MailCalls, CallOK(r), calls' = (calls \ {q}) \cup {r}, r.op = q.op, ~r.read,
           alone => KnowsVault(r, vault)
    PROVE  MailInv'
<1>1. r.op = "save" => \A x \in calls' : x.op = "save" => x = r
  BY Zenon DEF MailInv
<1>2. /\ alone' \in BOOLEAN /\ arrived' \in [Mail!Sources -> Nat]
      /\ shown' \in [accounts : [Accounts -> MailAccounts], inbox : SUBSET Mails]
  BY Zenon DEF MailInv, MailTypeOK
<1> QED
  BY <1>1, <1>2, VaultStays

\* A call that is over has nothing in its hands.
Over(q, at) == [Mail!Call(q.op, q.of) EXCEPT !.at = at]

LEMMA OverCall ==
    ASSUME MailInv, NEW q \in calls, NEW at \in {"answered", "refused"}, NEW r, r = Over(q, at)
    PROVE  /\ r \in MailCalls /\ CallOK(r) /\ r.op = q.op /\ ~r.read /\ r.at = at
           /\ \A v : KnowsVault(r, v)
<1>1. q \in MailCalls /\ CallOK(q)
  BY DEF MailInv, MailTypeOK
<1>2. Mail!Empty \in Vaults /\ Once(Mail!Empty.mails)
  BY DEF Mail!Empty, Vaults, Once, MailAccounts, Mail!NoAccount
<1>3. /\ r \in MailCalls /\ r.op = q.op /\ r.of = q.of /\ r.at = at /\ r.read = FALSE /\ r.data = Mail!Empty
      /\ r.fetched = {} /\ r.last = 0
  BY <1>1, <1>2 DEF Over, Mail!Call, MailCalls
<1>4. CallOK(r)
  BY <1>1, <1>2, <1>3 DEF CallOK
<1>5. ASSUME NEW v PROVE KnowsVault(r, v)
  BY <1>3 DEF KnowsVault
<1> QED
  BY <1>3, <1>4, <1>5

LEMMA CallEnds ==
    ASSUME MailInv, NEW q \in calls, NEW at \in {"answered", "refused"}, Mail!Ends(q, at),
           vault' = vault, alone' = alone \/ alone' = FALSE, arrived' = arrived, shown' = shown
    PROVE  MailInv'
<1>1. PICK r : r = Over(q, at)
  OBVIOUS
<1>2. calls' = (calls \ {q}) \cup {r}
  BY <1>1 DEF Over, Mail!Ends, Mail!Becomes
<1>3. r \in MailCalls /\ CallOK(r) /\ r.op = q.op /\ ~r.read /\ KnowsVault(r, vault)
  BY <1>1, OverCall
<1>4. r.op = "save" => \A x \in calls' : x.op = "save" => x = r
  BY <1>2, <1>3, Zenon DEF MailInv
<1>5. /\ arrived' \in [Mail!Sources -> Nat]
      /\ shown' \in [accounts : [Accounts -> MailAccounts], inbox : SUBSET Mails]
  BY Zenon DEF MailInv, MailTypeOK
<1>6. alone \in BOOLEAN
  BY Zenon DEF MailInv
<1>7. CASE alone' = alone
  <2>1. alone' \in BOOLEAN /\ (alone' => alone)
    BY <1>6, <1>7, Zenon
  <2> QED
    BY <1>2, <1>3, <1>4, <1>5, <2>1, VaultStays
<1>8. CASE alone' = FALSE
  <2>1. alone' \in BOOLEAN /\ (alone' => alone)
    BY <1>8, Zenon
  <2> QED
    BY <1>2, <1>3, <1>4, <1>5, <2>1, VaultStays
<1> QED
  BY <1>7, <1>8

LEMMA ReadsKeeps ==
    ASSUME MailInv, NEW q \in calls, Mail!ReadsVault(q), arrived' = arrived, shown' = shown
    PROVE  MailInv'
<1>0. q \in MailCalls /\ CallOK(q) /\ vault \in Vaults /\ Once(vault.mails) /\ alone \in BOOLEAN
  BY DEF MailInv, MailTypeOK
<1>1. /\ vault' = vault /\ q.op \in Mail!Changes /\ ~q.read
      /\ q.at \in {"mails", "cursor"} \/ (q.at = "asked" /\ q.op # "sync")
      /\ alone' = (alone /\ \A x \in calls : ~x.read)
  BY Zenon DEF Mail!ReadsVault
<1>2. CASE ~Mail!Finds(q) \/ Mail!Confirmed(q)
  <2>1. \E at \in {"answered", "refused"} : Mail!Ends(q, at)
    BY <1>2, Zenon DEF Mail!ReadsVault
  <2>2. alone' = alone \/ alone' = FALSE
    BY <1>0, <1>1
  <2> QED
    BY <1>1, <2>1, <2>2, CallEnds
<1>3. CASE Mail!Finds(q) /\ ~Mail!Confirmed(q)
  <2>1. PICK r : r = [q EXCEPT !.read = TRUE, !.data = vault]
    OBVIOUS
  <2>2. calls' = (calls \ {q}) \cup {r}
    BY <1>3, <2>1 DEF Mail!ReadsVault, Mail!Becomes
  <2>3. /\ r \in MailCalls /\ r.op = q.op /\ r.of = q.of /\ r.at = q.at /\ r.read = TRUE /\ r.data = vault
        /\ r.fetched = q.fetched /\ r.last = q.last
    BY <1>0, <2>1 DEF MailCalls
  <2>4. CallOK(r)
    BY <1>0, <1>1, <2>3 DEF CallOK, Mail!Changes
  <2>5. r.op = "save" => \A x \in calls' : x.op = "save" => x = r
    BY <2>2, <2>3, Zenon DEF MailInv
  <2>6. ASSUME alone' PROVE KnowsVault(r, vault) /\ \A x \in calls' : x.read => x = r
    <3>1. alone /\ KnowsVault(q, vault)
      BY <1>1, <2>6, Zenon DEF MailInv, AloneInv
    <3>2. r.op \in {"enable", "disable", "delete"} \/ r.at = "cursor" => vault.accounts[r.of].state = "saved"
      BY <1>0, <1>3, <2>3 DEF Mail!Finds, Mail!Saves, CallOK
    <3> QED
      BY <1>1, <2>2, <2>3, <2>6, <3>1, <3>2, Zenon DEF KnowsVault
  <2>7. /\ alone' \in BOOLEAN /\ arrived' \in [Mail!Sources -> Nat] /\ (alone' => alone)
        /\ shown' \in [accounts : [Accounts -> MailAccounts], inbox : SUBSET Mails]
    BY <1>1, Zenon DEF MailInv, MailTypeOK
  <2>8. calls' \subseteq calls \cup {r}
    BY <2>2
  <2> QED
    BY <1>1, <2>3, <2>4, <2>5, <2>6, <2>7, <2>8, VaultStays
<1> QED
  BY <1>2, <1>3

LEMMA WritesKeeps ==
    ASSUME MailInv, NEW q \in calls, Mail!WritesVault(q), arrived' = arrived, shown' = shown
    PROVE  MailInv'
<1>0. q \in MailCalls /\ CallOK(q) /\ MailTypeOK /\ alone \in BOOLEAN /\ alone' = alone /\ q.read
  BY DEF MailInv, MailTypeOK, Mail!WritesVault
<1>1. PICK w : w = Mail!Changed(q)
  OBVIOUS
<1>2. vault' = w /\ w \in Vaults /\ Once(w.mails)
  BY <1>0, <1>1, WhatIsWritten DEF Mail!WritesVault
<1>3. PICK r : r = IF Mail!AfterWriting(q) = "answered" THEN Over(q, "answered")
                   ELSE [q EXCEPT !.at = "cursor", !.read = FALSE, !.data = Mail!Empty, !.fetched = {}]
  OBVIOUS
<1>4. calls' = (calls \ {q}) \cup {r}
  BY <1>3 DEF Over, Mail!WritesVault, Mail!Ends, Mail!Becomes, Mail!AfterWriting
<1>5. /\ r \in MailCalls /\ CallOK(r) /\ r.op = q.op /\ ~r.read
      /\ r.at = "answered" \/ (r.at = "cursor" /\ r.of = q.of /\ r.last = q.last /\ q.at = "mails")
  <2>1. CASE Mail!AfterWriting(q) = "answered"
    <3>1. r = Over(q, "answered")
      BY <1>3, <2>1
    <3> QED
      BY <3>1, OverCall
  <2>2. CASE Mail!AfterWriting(q) # "answered"
    <3>1. r = [q EXCEPT !.at = "cursor", !.read = FALSE, !.data = Mail!Empty, !.fetched = {}] /\ q.at = "mails"
      BY <1>3, <2>2 DEF Mail!AfterWriting
    <3>2. Mail!Empty \in Vaults /\ Once(Mail!Empty.mails)
      BY DEF Mail!Empty, Vaults, Once, MailAccounts, Mail!NoAccount
    <3>3. /\ r \in MailCalls /\ r.op = q.op /\ r.of = q.of /\ r.at = "cursor" /\ r.read = FALSE /\ r.data = Mail!Empty
          /\ r.fetched = {} /\ r.last = q.last
      BY <1>0, <3>1, <3>2 DEF MailCalls
    <3>4. CallOK(r)
      BY <1>0, <3>1, <3>2, <3>3 DEF CallOK
    <3> QED
      BY <3>1, <3>3, <3>4
  <2> QED
    BY <2>1, <2>2
<1>6. MailTypeOK' /\ \A x \in calls' : CallOK(x)
  BY <1>0, <1>2, <1>4, <1>5, Zenon DEF MailTypeOK, MailInv
<1>7. \A x, y \in calls' : x.op = "save" /\ y.op = "save" => x = y
  BY <1>4, <1>5, Zenon DEF MailInv
<1>8. ASSUME alone PROVE AloneInv'
  <2>1. GoesOn(q, vault, w) /\ AloneInv /\ KnowsVault(q, vault)
    BY <1>0, <1>1, <1>8, AloneWrites DEF MailInv, AloneInv
  <2>2. \A a \in Accounts : Stored(w.mails, a, w.accounts[a].cursor)
    BY <2>1, Zenon DEF GoesOn
  <2>3. ASSUME NEW x \in calls, x # q PROVE KnowsVault(x, w) /\ ~x.read
    <3>1. ~x.read /\ KnowsVault(x, vault) /\ CallOK(x) /\ ~(q.op = "save" /\ x.op = "save")
      BY <1>0, <2>1, <2>3, Zenon DEF AloneInv, MailInv
    <3> QED
      BY <2>1, <3>1, KnowsOn
  <2>4. KnowsVault(r, w)
    <3>1. CASE r.at = "answered"
      BY <1>5, <3>1 DEF KnowsVault
    <3>2. CASE r.at = "cursor"
      <4>1. r.of = q.of /\ r.last = q.last /\ q.at = "mails" /\ q.op = "sync" /\ q.of \in Accounts /\ r.at # "asked"
        BY <1>0, <1>5, <3>2 DEF CallOK, ofAccount
      <4>2. vault.accounts[q.of].state # "none" /\ w.accounts[q.of].state # "none"
        BY <2>1, <4>1, Zenon DEF KnowsVault, GoesOn
      <4>3. ASSUME w.accounts[q.of].state = "saved" PROVE Stored(w.mails, q.of, q.last)
        <5>1. vault.accounts[q.of].state = "saved"
          BY <2>1, <4>1, <4>2, <4>3, Zenon DEF GoesOn
        <5>2. Stored(vault.mails \cup q.fetched, q.of, q.last)
          BY <2>1, <4>1, <5>1 DEF KnowsVault
        <5>3. Stored(w.mails \cup q.fetched, q.of, q.last)
          BY <2>1, <4>1, <4>3, <5>1, <5>2, StoredGoesOn
        <5>4. \A m \in q.fetched : \E x \in w.mails : x.from = m.from /\ x.mail = m.mail
          BY <1>0, <1>1, <4>1, WhatIsWritten DEF WritesMails, WritesCase, WritesAccounts, Mail!Saves
        <5> QED
          BY <5>3, <5>4 DEF Stored
      <4> QED
        BY <1>5, <3>2, <4>1, <4>2, <4>3 DEF KnowsVault, Stored
    <3> QED
      BY <1>5, <3>1, <3>2
  <2>5. \A x \in calls' : KnowsVault(x, w)
    BY <1>4, <2>3, <2>4, Zenon
  <2>6. \A x, y \in calls' : x.read /\ y.read => x = y
    BY <1>4, <1>5, <2>3, Zenon
  <2> QED
    BY <1>2, <2>2, <2>5, <2>6, Zenon DEF AloneInv
<1> QED
  BY <1>0, <1>2, <1>6, <1>7, <1>8, Zenon DEF MailInv

\* A synchronisation looks at the account.
LEMMA ServeSyncKeeps ==
    ASSUME MailInv, NEW q \in calls, Mail!ServeSync(q), arrived' = arrived, shown' = shown
    PROVE  MailInv'
<1>1. q \in MailCalls /\ CallOK(q) /\ vault \in Vaults /\ q.op = "sync" /\ q.at = "asked" /\ vault' = vault /\ alone' = alone
  BY DEF MailInv, MailTypeOK, Mail!ServeSync
<1>2. q.of \in Accounts /\ vault.accounts[q.of] \in MailAccounts
  BY <1>1 DEF CallOK, ofAccount, Vaults
<1>3. CASE vault.accounts[q.of].state = "saved" /\ vault.accounts[q.of].on
  <2>1. PICK r : r = [q EXCEPT !.at = "fetching", !.last = vault.accounts[q.of].cursor]
    OBVIOUS
  <2>2. calls' = (calls \ {q}) \cup {r}
    BY <1>3, <2>1 DEF Mail!ServeSync, Mail!Becomes
  <2>3. ~q.read
    BY <1>1 DEF CallOK
  <2>4. /\ r \in MailCalls /\ r.op = q.op /\ r.of = q.of /\ r.at = "fetching" /\ r.read = q.read /\ r.data = q.data
        /\ r.fetched = q.fetched /\ r.last = vault.accounts[q.of].cursor
    BY <1>1, <1>2, <2>1 DEF MailCalls, MailAccounts
  <2>5. CallOK(r)
    BY <1>1, <2>3, <2>4 DEF CallOK
  <2>6. ASSUME alone PROVE KnowsVault(r, vault)
    <3>1. Stored(vault.mails, q.of, vault.accounts[q.of].cursor)
      BY <1>2, <2>6 DEF MailInv, AloneInv
    <3> QED
      BY <1>1, <1>3, <2>3, <2>4, <3>1 DEF KnowsVault, Stored
  <2> QED
    BY <1>1, <2>2, <2>3, <2>4, <2>5, <2>6, CallBecomes
<1>4. CASE ~(vault.accounts[q.of].state = "saved" /\ vault.accounts[q.of].on)
  <2>1. Mail!Ends(q, "refused")
    BY <1>4 DEF Mail!ServeSync
  <2> QED
    BY <1>1, <2>1, CallEnds
<1> QED
  BY <1>3, <1>4

\* What a synchronisation takes: the mails behind its cursor without a gap, or none of them.
LEMMA TakenWithoutGap ==
    ASSUME NEW a \in Mail!Sources, arrived \in [Mail!Sources -> Nat], NEW k \in Nat, NEW us, us = Mail!Uids(a, k)
    PROVE  /\ us \subseteq Nat
           /\ us # {} => \E last \in us : /\ \A m \in us : m <= last
                                          /\ \A n \in Nat \ {0} : n <= last => n <= k \/ n \in us
<1>0. PICK arr, l : arr = arrived[a] /\ l = Limit
  OBVIOUS
<1>1. arr \in Nat /\ l \in Nat \ {0}
  BY <1>0, PagesAssumption
<1>2. PICK new : new = {n \in 1..arr : n > k}
  OBVIOUS
<1>3. us = IF new = {} THEN {arr} \ {0} ELSE {n \in new : n < k + 1 + l}
  BY <1>0, <1>2 DEF Mail!Uids
<1>4. CASE new = {}
  <2>1. arr <= k \/ arr = 0
    <3>1. arr \notin new
      BY <1>4
    <3> QED
      BY <1>1, <1>2, <3>1
  <2> QED
    BY <1>1, <1>3, <1>4, <2>1
<1>5. CASE new # {}
  <2>1. us = {n \in new : n < k + 1 + l} /\ us \subseteq Nat
    BY <1>1, <1>2, <1>3, <1>5
  <2>2. arr > k
    BY <1>1, <1>2, <1>5
  <2>3. PICK last : last = IF arr <= k + l THEN arr ELSE k + l
    OBVIOUS
  <2>4. last \in us /\ last \in Nat
    BY <1>1, <1>2, <2>1, <2>2, <2>3
  <2>5. \A m \in us : m <= last
    BY <1>1, <1>2, <2>1, <2>3
  <2>6. \A n \in Nat \ {0} : n <= last => n <= k \/ n \in us
    BY <1>1, <1>2, <2>1, <2>3
  <2> QED
    BY <2>1, <2>4, <2>5, <2>6
<1> QED
  BY <1>4, <1>5

LEMMA FetchesKeeps ==
    ASSUME MailInv, NEW q \in calls, Mail!Fetches(q), arrived' = arrived, shown' = shown
    PROVE  MailInv'
<1>1. q \in MailCalls /\ CallOK(q) /\ q.at = "fetching" /\ vault' = vault /\ alone' = alone /\ arrived \in [Mail!Sources -> Nat]
  BY DEF MailInv, MailTypeOK, Mail!Fetches
<1>2. q.of \in Accounts /\ q.op = "sync" /\ q.last \in Nat /\ ~q.read /\ q.of \in Mail!Sources
  BY <1>1 DEF CallOK, ofAccount, MailCalls, Mail!Sources
<1>3. CASE Mail!Ends(q, "refused")
  BY <1>1, <1>3, CallEnds
<1>4. CASE ~Mail!Ends(q, "refused")
  <2>1. PICK us : us = Mail!Uids(q.of, q.last)
    OBVIOUS
  <2>2. PICK fs, last : fs = {Mail!Parsed(q.of, n) : n \in us} /\ last = Mail!LastTaken(q, us)
    OBVIOUS
  <2>3. PICK r : r = [q EXCEPT !.at = "mails", !.fetched = fs, !.last = last]
    OBVIOUS
  <2>4. calls' = (calls \ {q}) \cup {r}
    BY <1>4, <2>1, <2>2, <2>3 DEF Mail!Fetches, Mail!Becomes
  <2>5. /\ us \subseteq Nat
        /\ us # {} => \E u \in us : /\ \A m \in us : m <= u
                                    /\ \A n \in Nat \ {0} : n <= u => n <= q.last \/ n \in us
    BY <1>1, <1>2, <2>1, TakenWithoutGap
  <2>6. fs \subseteq Mails /\ \A m \in fs : m.copy = 1 /\ m.of = Mail!None
    <3>1. \A n \in Nat : /\ Mail!Parsed(q.of, n) \in Mails
                         /\ Mail!Parsed(q.of, n).copy = 1 /\ Mail!Parsed(q.of, n).of = Mail!None
      BY <1>2 DEF Mail!Parsed, Mails
    <3> QED
      BY <2>2, <2>5, <3>1
  <2>7. last \in Nat /\ \A n \in Nat \ {0} : n <= last => n <= q.last \/ n \in us
    <3>1. CASE us = {}
      BY <1>2, <2>2, <3>1 DEF Mail!LastTaken
    <3>2. CASE us # {}
      <4>1. last = CHOOSE n \in us : \A m \in us : m <= n
        BY <2>2, <3>2 DEF Mail!LastTaken
      <4>2. PICK u \in us : /\ \A m \in us : m <= u
                            /\ \A n \in Nat \ {0} : n <= u => n <= q.last \/ n \in us
        BY <2>5, <3>2
      <4>3. last \in us /\ \A m \in us : m <= last
        BY <4>1, <4>2
      <4>4. last = u
        BY <2>5, <4>2, <4>3
      <4> QED
        BY <2>5, <4>2, <4>4
    <3> QED
      BY <3>1, <3>2
  <2>8. /\ r \in MailCalls /\ r.op = q.op /\ r.of = q.of /\ r.at = "mails" /\ r.read = q.read /\ r.data = q.data
        /\ r.fetched = fs /\ r.last = last
    BY <1>1, <2>3, <2>6, <2>7 DEF MailCalls
  <2>9. CallOK(r)
    BY <1>1, <1>2, <2>6, <2>8 DEF CallOK
  <2>10. ASSUME alone PROVE KnowsVault(r, vault)
    <3>1. KnowsVault(q, vault)
      BY <2>10 DEF MailInv, AloneInv
    <3>2. ASSUME vault.accounts[q.of].state = "saved" PROVE Stored(vault.mails \cup fs, q.of, last)
      <4>1. Stored(vault.mails, q.of, q.last)
        BY <1>1, <3>1, <3>2 DEF KnowsVault, Stored
      <4>2. ASSUME NEW n \in 1..MaxMails, n <= last PROVE \E m \in vault.mails \cup fs : m.from = q.of /\ m.mail = n
        <5>1. n \in Nat \ {0}
          BY PagesAssumption
        <5>2. CASE n <= q.last
          BY <4>1, <5>2 DEF Stored
        <5>3. CASE n \in us
          <6>1. Mail!Parsed(q.of, n) \in fs /\ Mail!Parsed(q.of, n).from = q.of /\ Mail!Parsed(q.of, n).mail = n
            BY <2>2, <5>3 DEF Mail!Parsed
          <6> QED
            BY <6>1
        <5> QED
          BY <2>7, <4>2, <5>1, <5>2, <5>3
      <4> QED
        BY <4>2 DEF Stored
    <3> QED
      BY <1>1, <1>2, <2>8, <3>1, <3>2 DEF KnowsVault
  <2> QED
    BY <1>1, <1>2, <2>4, <2>8, <2>9, <2>10, CallBecomes
<1> QED
  BY <1>3, <1>4

LEMMA ServeKeeps ==
    ASSUME MailInv, NEW q \in calls, Mail!Serve(q)
    PROVE  MailInv'
<1>0. arrived' = arrived /\ shown' = shown
  BY Zenon DEF Mail!Serve
<1>1. CASE Mail!ReadsVault(q)
  BY <1>0, <1>1, ReadsKeeps
<1>2. CASE Mail!WritesVault(q)
  BY <1>0, <1>2, WritesKeeps
<1>3. CASE Mail!ServeSync(q)
  BY <1>0, <1>3, ServeSyncKeeps
<1>4. CASE Mail!Fetches(q)
  BY <1>0, <1>4, FetchesKeeps
<1>5. CASE Mail!ServeCrm(q)
  <2>1. PICK r : r = [q EXCEPT !.at = "answered", !.data = vault]
    OBVIOUS
  <2>2. /\ calls' = (calls \ {q}) \cup {r} /\ vault' = vault /\ alone' = alone /\ q.op = "crm"
    BY <1>5, <2>1 DEF Mail!ServeCrm, Mail!Becomes
  <2>3. q \in MailCalls /\ CallOK(q) /\ vault \in Vaults /\ Once(vault.mails) /\ ~q.read
    BY <2>2 DEF MailInv, MailTypeOK, CallOK
  <2>4. /\ r \in MailCalls /\ r.op = q.op /\ r.of = q.of /\ r.at = "answered" /\ r.read = q.read /\ r.data = vault
        /\ r.fetched = q.fetched
    BY <2>1, <2>3 DEF MailCalls
  <2>5. CallOK(r) /\ KnowsVault(r, vault)
    BY <2>2, <2>3, <2>4 DEF CallOK, KnowsVault
  <2> QED
    BY <1>0, <2>2, <2>3, <2>4, <2>5, CallBecomes
<1>6. CASE Mail!ServeTest(q)
  <2>1. /\ \E at \in {"answered", "refused"} : Mail!Ends(q, at)
        /\ vault' = vault /\ alone' = alone
    BY <1>6, Zenon DEF Mail!ServeTest
  <2> QED
    BY <1>0, <2>1, CallEnds
<1> QED
  BY <1>1, <1>2, <1>3, <1>4, <1>5, <1>6, Zenon DEF Mail!Serve

\* The server stops: every call is refused.
LEMMA StopsKeeps ==
    ASSUME MailInv, Mail!Stops
    PROVE  MailInv'
<1>1. calls' = {Over(q, "refused") : q \in calls} /\ UNCHANGED <<vault, arrived, shown, alone>>
  BY DEF Mail!Stops, Over
<1>2. ASSUME NEW r \in calls'
      PROVE  \E q \in calls : /\ r = Over(q, "refused") /\ r.op = q.op
                              /\ r \in MailCalls /\ CallOK(r) /\ ~r.read /\ KnowsVault(r, vault)
  <2>1. PICK q \in calls : r = Over(q, "refused")
    BY <1>1
  <2> QED
    BY <2>1, OverCall
<1>3. MailTypeOK' /\ \A q \in calls' : CallOK(q)
  BY <1>1, <1>2, Zenon DEF MailInv, MailTypeOK
<1>4. \A q, x \in calls' : q.op = "save" /\ x.op = "save" => q = x
  BY <1>2, Zenon DEF MailInv
<1>5. alone => AloneInv'
  BY <1>1, <1>2, Zenon DEF MailInv, AloneInv
<1> QED
  BY <1>1, <1>3, <1>4, <1>5, Zenon DEF MailInv

\* A new call, with the files it brings.
Asked(op, x, ms) ==
    [op |-> op, of |-> x, at |-> "asked", read |-> FALSE, data |-> Mail!Empty, fetched |-> ms, last |-> 0]

LEMMA NewCall ==
    ASSUME MailInv, NEW op \in ofAccount \cup {"eml", "drop", "correlate", "crm"}, NEW x,
           op \in ofAccount => x \in Accounts, op = "correlate" => x \in [mail : Mails, to : MailCases],
           x \in Accounts \cup {Mail!None} \cup [mail : Mails, to : MailCases],
           NEW ms \in SUBSET Mails, \A m \in ms : m.copy = 1 /\ m.of = Mail!None,
           NEW r, r = Asked(op, x, ms)
    PROVE  /\ r \in MailCalls /\ CallOK(r) /\ r.op = op /\ ~r.read
           /\ (op = "save" => vault.accounts[x].state = "none") => KnowsVault(r, vault)
<1>1. Mail!Empty \in Vaults /\ Once(Mail!Empty.mails)
  BY DEF Mail!Empty, Vaults, Once, MailAccounts, Mail!NoAccount
<1>2. /\ r \in MailCalls /\ r.op = op /\ r.of = x /\ r.at = "asked" /\ r.read = FALSE /\ r.data = Mail!Empty
      /\ r.fetched = ms /\ r.last = 0
  BY <1>1 DEF MailCalls, Asked
<1> QED
  BY <1>1, <1>2 DEF CallOK, KnowsVault

\* What is called adds at most one call.
LEMMA ClickKeeps ==
    ASSUME MailInv, UNCHANGED <<vault, arrived, shown, alone>>,
           NEW r \in MailCalls, CallOK(r), ~r.read, KnowsVault(r, vault), calls' \subseteq calls \cup {r},
           r.op = "save" => \A q \in calls : q.op # "save"
    PROVE  MailInv'
<1>1. r.op = "save" => \A x \in calls' : x.op = "save" => x = r
  BY Zenon
<1>2. /\ arrived' \in [Mail!Sources -> Nat] /\ alone' \in BOOLEAN /\ (alone' => alone)
      /\ shown' \in [accounts : [Accounts -> MailAccounts], inbox : SUBSET Mails]
  BY Zenon DEF MailInv, MailTypeOK
<1> QED
  BY <1>1, <1>2, VaultStays

LEMMA AsksKeeps ==
    ASSUME MailInv, NEW op \in ofAccount \cup {"correlate", "crm"}, NEW x, Mail!Asks(op, x),
           op \in ofAccount => x \in Accounts, op = "correlate" => x \in [mail : Mails, to : MailCases],
           op = "crm" => x = Mail!None,
           op = "save" => vault.accounts[x].state = "none" /\ \A q \in calls : q.op # "save"
    PROVE  MailInv'
<1>1. PICK r : r = Mail!Call(op, x)
  OBVIOUS
<1>2. calls' = calls \cup {r} /\ UNCHANGED <<vault, arrived, shown, alone>>
  BY <1>1, Zenon DEF Mail!Asks
<1>3. x \in Accounts \cup {Mail!None} \cup [mail : Mails, to : MailCases]
  OBVIOUS
<1>4. r \in MailCalls /\ CallOK(r) /\ r.op = op /\ ~r.read /\ KnowsVault(r, vault)
  <2>1. PICK ms : ms = {}
    OBVIOUS
  <2>2. ms \in SUBSET Mails /\ \A m \in ms : m.copy = 1 /\ m.of = Mail!None
    BY <2>1
  <2>3. r = Asked(op, x, ms)
    BY <1>1, <2>1 DEF Asked, Mail!Call
  <2> QED
    BY <1>3, <2>2, <2>3, NewCall
<1> QED
  BY <1>2, <1>4, ClickKeeps

LEMMA FilesKeep ==
    ASSUME MailInv, NEW op \in {"eml", "drop"}, NEW s \in {Mail!Eml, Mail!Drop}, NEW N \in SUBSET Nat, NEW ms,
           ms = {Mail!Parsed(s, n) : n \in N}, Mail!WithFetched(op, ms)
    PROVE  MailInv'
<1>1. PICK r : r = [Mail!Call(op, Mail!None) EXCEPT !.fetched = ms]
  OBVIOUS
<1>2. calls' = calls \cup {r} /\ UNCHANGED <<vault, arrived, shown, alone>>
  BY <1>1, Zenon DEF Mail!WithFetched
<1>3. ms \in SUBSET Mails /\ \A m \in ms : m.copy = 1 /\ m.of = Mail!None
  BY DEF Mail!Parsed, Mails, Mail!Sources
<1>4. op \notin ofAccount /\ op # "correlate" /\ op # "save" /\ op \in ofAccount \cup {"eml", "drop", "correlate", "crm"}
  BY DEF ofAccount
<1>5. r \in MailCalls /\ CallOK(r) /\ r.op = op /\ ~r.read /\ KnowsVault(r, vault)
  <2>1. PICK y : y = Mail!Call(op, Mail!None)
    OBVIOUS
  <2>2. r = [y EXCEPT !.fetched = ms]
    BY <1>1, <2>1, Zenon
  <2>3. r = Asked(op, Mail!None, ms)
    BY <2>1, <2>2 DEF Asked, Mail!Call
  <2> QED
    BY <1>3, <1>4, <2>3, NewCall
<1> QED
  BY <1>2, <1>4, <1>5, ClickKeeps

LEMMA MailHandlesKeeps ==
    ASSUME MailInv, NEW q \in calls, Mail!Handles(q)
    PROVE  MailInv'
<1>1. UNCHANGED <<vault, arrived, alone>>
  BY Zenon DEF Mail!Handles
<1>2. PICK r, ms : ms = {} /\ r = Mail!Call("crm", Mail!None)
  OBVIOUS
<1>3. r \in MailCalls /\ CallOK(r) /\ r.op = "crm" /\ ~r.read /\ KnowsVault(r, vault)
  <2>1. ms \in SUBSET Mails /\ \A m \in ms : m.copy = 1 /\ m.of = Mail!None
    BY <1>2
  <2>2. "crm" \notin ofAccount /\ Mail!None \in Accounts \cup {Mail!None} \cup [mail : Mails, to : MailCases]
    BY DEF ofAccount
  <2>3. r = Asked("crm", Mail!None, ms)
    BY <1>2 DEF Asked, Mail!Call
  <2> QED
    BY <2>1, <2>2, <2>3, NewCall
<1>4. q \in MailCalls /\ CallOK(q) /\ shown \in [accounts : [Accounts -> MailAccounts], inbox : SUBSET Mails]
  BY DEF MailInv, MailTypeOK
<1>5. calls' \subseteq calls \cup {r}
  BY <1>2 DEF Mail!Handles, Mail!CrmAnswered, Mail!AccountAnswered, Mail!ChangeAnswered, Mail!TestAnswered
<1>6. shown' \in [accounts : [Accounts -> MailAccounts], inbox : SUBSET Mails]
  <2>1. CASE Mail!CrmAnswered(q)
    <3>1. q.data.accounts \in [Accounts -> MailAccounts] /\ q.data.mails \in SUBSET Mails
      BY <1>4 DEF MailCalls, Vaults
    <3> QED
      BY <1>4, <2>1, <3>1 DEF Mail!CrmAnswered, Mail!Inbox
  <2>2. CASE Mail!AccountAnswered(q)
    <3>1. q.of \in Accounts
      BY <1>4, <2>2 DEF Mail!AccountAnswered, CallOK, ofAccount
    <3>2. PICK a : a = [shown.accounts[q.of] EXCEPT !.state = "saved", !.on = (q.op = "enable")]
      OBVIOUS
    <3>3. a \in MailAccounts
      BY <1>4, <3>1, <3>2 DEF MailAccounts
    <3>4. shown' = shown \/ shown' = [shown EXCEPT !.accounts[q.of] = a]
      BY <2>2, <3>2 DEF Mail!AccountAnswered
    <3> QED
      BY <1>4, <3>1, <3>3, <3>4
  <2>3. CASE Mail!ChangeAnswered(q) \/ Mail!TestAnswered(q)
    BY <1>4, <2>3 DEF Mail!ChangeAnswered, Mail!TestAnswered
  <2> QED
    BY <2>1, <2>2, <2>3 DEF Mail!Handles
<1>7. arrived' \in [Mail!Sources -> Nat] /\ alone' \in BOOLEAN /\ (alone' => alone) /\ vault' = vault
  BY <1>1, Zenon DEF MailInv, MailTypeOK
<1> QED
  BY <1>3, <1>5, <1>6, <1>7, VaultStays

\* Every step keeps the mails.
LEMMA MailKeep == MailInv /\ [Mail!Next]_mailVars => MailInv'
<1> SUFFICES ASSUME MailInv, [Mail!Next]_mailVars PROVE MailInv'
  OBVIOUS
<1>0. /\ arrived \in [Mail!Sources -> Nat] /\ alone \in BOOLEAN
      /\ shown \in [accounts : [Accounts -> MailAccounts], inbox : SUBSET Mails]
  BY Zenon DEF MailInv, MailTypeOK
<1>1. ASSUME UNCHANGED <<vault, calls, shown, alone>>, arrived' \in [Mail!Sources -> Nat] PROVE MailInv'
  <2>1. MailTypeOK'
    BY <1>1, Zenon DEF MailInv, MailTypeOK
  <2>2. AloneInv => AloneInv'
    BY <1>1, Zenon DEF AloneInv
  <2> QED
    BY <1>1, <2>1, <2>2, Zenon DEF MailInv
<1>2. ASSUME NEW s \in Mail!Sources, Mail!Arrives(s) PROVE MailInv'
  <2>1. arrived' = [arrived EXCEPT ![s] = @ + 1] /\ UNCHANGED <<vault, calls, shown, alone>>
    BY <1>2, Zenon DEF Mail!Arrives
  <2> QED
    BY <1>0, <1>1, <2>1
<1>3. ASSUME NEW q \in calls, Mail!Serve(q) PROVE MailInv'
  BY <1>3, ServeKeeps
<1>4. ASSUME NEW q \in calls, Mail!Handles(q) PROVE MailInv'
  BY <1>4, MailHandlesKeeps
<1>5. CASE Mail!Stops
  BY <1>5, StopsKeeps
<1>6. CASE Mail!LoadCrm
  BY <1>6, AsksKeeps DEF Mail!LoadCrm, ofAccount
<1>7. CASE Mail!ImportLocalMailDrop
  <2>1. PICK N, ms : N = 1..arrived[Mail!Drop] /\ ms = {Mail!Parsed(Mail!Drop, n) : n \in N}
    OBVIOUS
  <2>2. N \in SUBSET Nat
    BY <1>0, <2>1 DEF Mail!Sources
  <2>3. Mail!WithFetched("drop", ms)
    BY <1>7, <2>1 DEF Mail!ImportLocalMailDrop
  <2> QED
    BY <2>1, <2>2, <2>3, FilesKeep
<1>8. CASE Mail!ImportEml(MaxMails)
  <2>1. PICK N, ms : N = {MaxMails} /\ ms = {Mail!Parsed(Mail!Eml, n) : n \in N}
    OBVIOUS
  <2>2. N \in SUBSET Nat
    BY <2>1, PagesAssumption
  <2>3. ms = {Mail!Parsed(Mail!Eml, MaxMails)}
    BY <2>1
  <2>4. Mail!WithFetched("eml", ms)
    BY <1>8, <2>3 DEF Mail!ImportEml
  <2> QED
    BY <2>1, <2>2, <2>4, FilesKeep
<1>9. ASSUME NEW a \in Accounts, Mail!SaveMailAccount(a) PROVE MailInv'
  BY <1>9, AsksKeeps DEF Mail!SaveMailAccount, ofAccount
<1>10. ASSUME NEW a \in Accounts, Mail!DeleteMailAccount(a) PROVE MailInv'
  BY <1>10, AsksKeeps DEF Mail!DeleteMailAccount, ofAccount
<1>11. ASSUME NEW a \in Accounts, Mail!SyncMail(a) PROVE MailInv'
  BY <1>11, AsksKeeps DEF Mail!SyncMail, ofAccount
<1>12. ASSUME NEW a \in Accounts, Mail!TestMail(a) PROVE MailInv'
  BY <1>12, AsksKeeps DEF Mail!TestMail, ofAccount
<1>13. ASSUME NEW a \in Accounts, NEW on \in BOOLEAN, Mail!SetMailAccountEnabled(a, on) PROVE MailInv'
  <2>1. Mail!Asks("enable", a) \/ Mail!Asks("disable", a)
    BY <1>13 DEF Mail!SetMailAccountEnabled
  <2> QED
    BY <2>1, AsksKeeps DEF ofAccount
<1>14. ASSUME NEW m \in shown.inbox, NEW c \in MailCases, Mail!ConfirmCorrelation(m, c) PROVE MailInv'
  <2>1. Mail!Asks("correlate", [mail |-> m, to |-> c]) /\ [mail |-> m, to |-> c] \in [mail : Mails, to : MailCases]
    BY <1>0, <1>14 DEF Mail!ConfirmCorrelation
  <2> QED
    BY <2>1, AsksKeeps DEF ofAccount
<1>15. CASE UNCHANGED mailVars
  <2>1. UNCHANGED <<vault, calls, shown, alone, arrived>>
    BY <1>15, Zenon DEF mailVars
  <2> QED
    BY <1>0, <1>1, <2>1
<1> QED
  BY <1>2, <1>3, <1>4, <1>5, <1>6, <1>7, <1>8, <1>9, <1>10, <1>11, <1>12, <1>13, <1>14, <1>15, Zenon DEF Mail!Next

\* The vault begins in the invariant.
LEMMA MailInit == Mail!Init => MailInv
<1> SUFFICES ASSUME Mail!Init PROVE MailInv
  OBVIOUS
<1>1. Mail!Empty \in Vaults /\ Mail!Empty.mails = {} /\ \A a \in Accounts : Mail!Empty.accounts[a].cursor = 0
  BY DEF Mail!Empty, Vaults, MailAccounts, Mail!NoAccount
<1>2. /\ calls = {} /\ arrived = [s \in Mail!Sources |-> 0] /\ alone = TRUE
      /\ shown = [accounts |-> vault.accounts, inbox |-> {}]
  BY Zenon DEF Mail!Init
<1>3. vault \in Vaults /\ vault.mails = {} /\ \A a \in Accounts : vault.accounts[a].cursor = 0
  <2>1. CASE vault = Mail!Empty
    BY <1>1, <2>1
  <2>2. ASSUME NEW a \in Accounts, vault = [Mail!Empty EXCEPT !.accounts[a] = [state |-> "saved", on |-> TRUE, cursor |-> 0]]
        PROVE  vault \in Vaults /\ vault.mails = {} /\ \A b \in Accounts : vault.accounts[b].cursor = 0
    <3>1. PICK e, r : e = Mail!Empty /\ r = [state |-> "saved", on |-> TRUE, cursor |-> 0]
      OBVIOUS
    <3>2. e = [accounts |-> e.accounts, mails |-> {}] /\ e.accounts \in [Accounts -> MailAccounts] /\ r \in MailAccounts
      BY <3>1 DEF Mail!Empty, MailAccounts, Mail!NoAccount
    <3>3. vault = [e EXCEPT !.accounts[a] = r]
      BY <2>2, <3>1
    <3>4. vault = [accounts |-> [e.accounts EXCEPT ![a] = r], mails |-> {}]
      BY <3>2, <3>3
    <3> QED
      BY <1>1, <3>1, <3>2, <3>4 DEF Vaults
  <2> QED
    BY <2>1, <2>2, Zenon DEF Mail!Init
<1>4. MailTypeOK
  BY <1>2, <1>3 DEF MailTypeOK, Vaults
<1>5. Once(vault.mails) /\ AloneInv
  BY <1>2, <1>3 DEF Once, AloneInv, Stored
<1> QED
  BY <1>2, <1>4, <1>5 DEF MailInv

\* The invariant says what the vault promises.
LEMMA MailTrue == MailInv => Mail!StoredOnce /\ Mail!CursorFollowsMails
<1> SUFFICES ASSUME MailInv PROVE Mail!StoredOnce /\ Mail!CursorFollowsMails
  OBVIOUS
<1>1. Mail!StoredOnce
  BY DEF MailInv, Once, Mail!StoredOnce
<1>2. ASSUME alone PROVE \A a \in Accounts : Stored(vault.mails, a, vault.accounts[a].cursor)
  BY <1>2 DEF MailInv, AloneInv
<1>3. Mail!CursorFollowsMails
  BY <1>2 DEF Mail!CursorFollowsMails, Stored
<1> QED
  BY <1>1, <1>3

-----------------------------------------------------------------------------
(* All of it *)

PagesInv == MailInv /\ SettingsInv /\ CasesInv

LEMMA PagesInit == MCInit => PagesInv
BY MailInit, SettingsInit, CasesInit, Zenon DEF MCInit, PagesInv

\* Each step is one of a part, and leaves the variables of the others alone.
LEMMA PagesStep == PagesInv /\ [MCNext]_allVars => PagesInv'
<1> SUFFICES ASSUME PagesInv, [MCNext]_allVars PROVE PagesInv'
  OBVIOUS
<1>1. [Mail!Next]_mailVars /\ [Config!Next]_configVars /\ [Workshop!Next]_caseVars
  BY Zenon DEF MCNext, allVars
<1> QED
  BY <1>1, MailKeep, SettingsKeep, CasesKeep, Zenon DEF PagesInv

\* A mail is stored once and none before the cursor is missing, portal access and the
\* identities are what was confirmed and deleted, and a text in the editor belongs to the
\* case on the screen: whatever calls, requests and answers are under way together.
THEOREM PagesAreTrueHolds == MCSpec => []PagesAreTrue
<1>1. PagesInv => PagesAreTrue
  BY MailTrue, CasesTrue, Zenon DEF PagesInv, SettingsInv, PagesAreTrue
<1> QED
  BY <1>1, PagesInit, PagesStep, PTL DEF MCSpec

-----------------------------------------------------------------------------
(* The CV studio: what a request carries, what its answer is about, and what was ticked *)

TickNames == {"adopt", "theme", "version", "revoke", "snapshot", "disclosure", "delete"}

\* The requests for one import; the answer to any but the last two is the import itself.
ForImport == {"facts", "adopt", "mark", "readopt", "theme", "activate", "confirm", "revoke", "restore", "render",
              "open", "profile", "applied", "versions", "claims"}

\* These too are requests for one import; what they answer is about its AI runs.
OfImport == ForImport \cup {"aiRuns", "poll", "select"}

IsImport(r) ==
    r = [id |-> r.id, at |-> r.at, pending |-> r.pending, theme |-> r.theme, active |-> r.active, adopted |-> r.adopted]

StudioRequest(q) ==
    /\ q = [op |-> q.op, arg |-> q.arg, meant |-> q.meant, is |-> q.is, ans |-> q.ans]
    /\ q.is \in {"sent", "answered", "refused", "lost"}
    /\ Studio!Is(q.meant) => q.arg = q.meant
    /\ q.op \in OfImport => q.arg.id \in Imports
    /\ q.is = "answered" /\ q.op \in ForImport => q.ans.id = q.arg.id
    /\ q.is = "answered" /\ q.op = "upload" => q.ans.id \in Imports

ServerImport(i) == imports[i] \in {Studio!Nothing, Studio!Gone} \/ (IsImport(imports[i]) /\ imports[i].id = i)

Shown(record) == record = Studio!Nothing \/ record.id \in Imports

\* What is ticked is on the screen; nothing is started of a list that is not there.
TicksTrue ==
    Studio!Is(open) =>
      /\ ticks["adopt"] \in {Studio!Nothing, Studio!OnShown}
      /\ ticks["delete"] \in {Studio!Nothing, Studio!OnShown}
      /\ ticks["theme"] \in {Studio!Nothing, Studio!ThemeOnScreen}
      /\ Studio!Is(versions) => ticks["version"] \in {Studio!Nothing, Studio!VersionOnScreen}

StudioInv ==
    /\ imports = [i \in Imports |-> imports[i]] /\ \A i \in Imports : ServerImport(i)
    /\ \A q \in sent : StudioRequest(q)
    /\ Shown(open)
    /\ ticks = [t \in TickNames |-> ticks[t]] /\ TicksTrue
    /\ Studio!BoundToShown
    /\ waits \subseteq Studio!Flags /\ Studio!WaitsForAnswer


LEMMA ThereIsNot == \A r : r.id \in Imports => r # Studio!Nothing /\ r # Studio!Gone
BY ImportsAssumption DEF Studio!Nothing, Studio!Gone, Studio!None

LEMMA StudioInit == Studio!Init => StudioInv
<1> SUFFICES ASSUME Studio!Init PROVE StudioInv
  OBVIOUS
<1>1. imports = [i \in Imports |-> imports[i]]
  BY DEF Studio!Init
<1>2. ASSUME NEW i \in Imports PROVE ServerImport(i)
  <2>1. CASE imports[i] = Studio!Nothing
    BY <2>1 DEF ServerImport
  <2>2. CASE \E j \in Imports : imports[i] = [Studio!NewImport(j) EXCEPT !.pending = task \notin {"facts", "claims"}]
    <3>1. imports[i].id \in {i, Studio!None}
      BY DEF Studio!Init
    <3>2. PICK j \in Imports : imports[i] = [Studio!NewImport(j) EXCEPT !.pending = task \notin {"facts", "claims"}]
      BY <2>2
    <3>3. IsImport(imports[i]) /\ imports[i].id = j
      BY <3>2 DEF IsImport, Studio!NewImport
    <3> QED
      BY <3>1, <3>3, ImportsAssumption DEF ServerImport, Studio!Nothing
  <2> QED
    BY <2>1, <2>2 DEF Studio!Init
<1>3. ticks = [t \in TickNames |-> ticks[t]] /\ TicksTrue
  BY DEF Studio!Init, TicksTrue, TickNames, Studio!NoTicks, Studio!Is
<1>4. Studio!BoundToShown
  BY DEF Studio!Init, Studio!BoundToShown, Studio!Is
<1>5. waits \subseteq Studio!Flags /\ Studio!WaitsForAnswer
  BY DEF Studio!Init, Studio!WaitsForAnswer
<1> QED
  BY <1>1, <1>2, <1>3, <1>4, <1>5 DEF Studio!Init, StudioInv, Shown

\* The screen and what is ticked stay.
StudioScreen == <<open, edits, theme, versions, claims, options, ticks>>

LEMMA ScreenStays ==
    ASSUME StudioInv, UNCHANGED StudioScreen
    PROVE  /\ Shown(open)' /\ ticks' = [t \in TickNames |-> ticks'[t]] /\ TicksTrue'
           /\ Studio!BoundToShown'
<1>1. UNCHANGED <<open, theme, versions, claims, options, ticks>>
  BY DEF StudioScreen
<1>2. TicksTrue'
  BY <1>1 DEF StudioInv, TicksTrue, Studio!OnShown, Studio!ThemeOnScreen, Studio!VersionOnScreen, Studio!Is
<1>3. Studio!BoundToShown'
  BY <1>1 DEF StudioInv, Studio!BoundToShown, Studio!Is
<1> QED
  BY <1>1, <1>2, <1>3 DEF StudioInv, Shown

\* A request that is answered or lost waits for its handler.
LEMMA WaitsGoOn ==
    ASSUME StudioInv, NEW q \in sent, NEW p, p.op = q.op,
           sent' = (sent \ {q}) \cup {p}, waits' = waits
    PROVE  waits' \subseteq Studio!Flags /\ Studio!WaitsForAnswer'
<1>1. ASSUME NEW f \in waits \ {"aiBusy"}, NEW r \in sent, r.op \in Studio!ClearedBy[f]
      PROVE  \E s \in sent' : s.op \in Studio!ClearedBy[f]
  <2>1. CASE r = q
    BY <1>1, <2>1
  <2>2. CASE r # q
    BY <1>1, <2>2
  <2> QED
    BY <2>1, <2>2
<1> QED
  BY <1>1 DEF StudioInv, Studio!WaitsForAnswer, Studio!ClearedBy

\* A handler clears what its request has set, and what it starts sets its own.
LEMMA WaitsAreCleared ==
    ASSUME StudioInv, NEW q \in sent, NEW started,
           sent' = (sent \ {q}) \cup started,
           waits' \subseteq (waits \ Studio!SetBy(q)) \cup {"aiBusy"} \cup Studio!Sets(started)
    PROVE  waits' \subseteq Studio!Flags /\ Studio!WaitsForAnswer'
<1>1. ASSUME NEW f \in waits, f # "aiBusy", f \notin Studio!SetBy(q)
      PROVE  \E s \in sent' : s.op \in Studio!ClearedBy[f]
  <2>1. PICK r \in sent : r.op \in Studio!ClearedBy[f]
    BY <1>1 DEF StudioInv, Studio!WaitsForAnswer
  <2>2. r # q
    BY <1>1, <2>1 DEF StudioInv, Studio!SetBy
  <2> QED
    BY <2>1, <2>2
<1>2. ASSUME NEW f \in Studio!Sets(started)
      PROVE  f \in Studio!Flags /\ \E s \in sent' : s.op \in Studio!ClearedBy[f]
  BY <1>2 DEF Studio!Sets, Studio!SetBy
<1>3. "aiBusy" \in Studio!Flags
  BY DEF Studio!Flags, Studio!ClearedBy
<1> QED
  BY <1>1, <1>2, <1>3 DEF StudioInv, Studio!WaitsForAnswer

LEMMA WaitsAreSet ==
    ASSUME StudioInv, NEW started, sent' = sent \cup started, waits' \subseteq waits \cup Studio!Sets(started)
    PROVE  waits' \subseteq Studio!Flags /\ Studio!WaitsForAnswer'
<1>1. ASSUME NEW f \in Studio!Sets(started)
      PROVE  f \in Studio!Flags /\ \E s \in sent' : s.op \in Studio!ClearedBy[f]
  BY <1>1 DEF Studio!Sets, Studio!SetBy
<1> QED
  BY <1>1 DEF StudioInv, Studio!WaitsForAnswer

-----------------------------------------------------------------------------
(* The server of the studio *)

\* What the user sees and what a handler waits for stay.
StudioClient == <<waits, StudioScreen>>

LEMMA RequestBecomes ==
    ASSUME NEW q, StudioRequest(q), NEW is \in {"answered", "refused", "lost"}, NEW value,
           is = "answered" /\ q.op \in ForImport => value.id = q.arg.id,
           is = "answered" /\ q.op = "upload" => value.id \in Imports,
           NEW p, p = [op |-> q.op, arg |-> q.arg, meant |-> q.meant, is |-> is, ans |-> value]
    PROVE  StudioRequest(p) /\ p.op = q.op
BY DEF StudioRequest

LEMMA StudioGoesOn ==
    ASSUME StudioInv, UNCHANGED StudioClient, NEW q \in sent, NEW p, StudioRequest(p), p.op = q.op,
           sent' = (sent \ {q}) \cup {p},
           imports' = [i \in Imports |-> imports'[i]], \A i \in Imports : ServerImport(i)'
    PROVE  StudioInv'
<1>1. UNCHANGED StudioScreen /\ waits' = waits
  BY DEF StudioClient
<1> QED
  BY <1>1, ScreenStays, WaitsGoOn DEF StudioInv

LEMMA Answers ==
    ASSUME StudioInv, UNCHANGED StudioClient, NEW q \in sent, NEW ok, NEW value,
           Studio!Answer(q, ok, value),
           ok /\ q.op \in ForImport => value.id = q.arg.id,
           ok /\ q.op = "upload" => value.id \in Imports,
           imports' = [i \in Imports |-> imports'[i]], \A i \in Imports : ServerImport(i)'
    PROVE  StudioInv'
<1>1. StudioRequest(q)
  BY DEF StudioInv
<1> DEFINE is == IF ok THEN "answered" ELSE "refused"
           ans == IF ok THEN value ELSE Studio!Nothing
           p == [q EXCEPT !.is = is, !.ans = ans]
<1>2. sent' = (sent \ {q}) \cup {p}
  BY DEF Studio!Answer
<1>3. StudioRequest(p) /\ p.op = q.op
  <2>1. is \in {"answered", "refused", "lost"}
    OBVIOUS
  <2>2. is = "answered" => ok /\ ans = value
    OBVIOUS
  <2>3. /\ is = "answered" /\ q.op \in ForImport => ans.id = q.arg.id
        /\ is = "answered" /\ q.op = "upload" => ans.id \in Imports
    BY <2>2
  <2> HIDE DEF is, ans
  <2>4. p = [op |-> q.op, arg |-> q.arg, meant |-> q.meant, is |-> is, ans |-> ans]
    <3>1. p = [[q EXCEPT !.is = is] EXCEPT !.ans = ans]
      OBVIOUS
    <3>2. [q EXCEPT !.is = is] = [op |-> q.op, arg |-> q.arg, meant |-> q.meant, is |-> is, ans |-> q.ans]
      BY <1>1 DEF StudioRequest
    <3> HIDE DEF p
    <3> QED
      BY <3>1, <3>2
  <2> HIDE DEF p
  <2> QED
    BY <1>1, <2>1, <2>3, <2>4, RequestBecomes
<1> HIDE DEF p
<1> QED
  BY <1>2, <1>3, StudioGoesOn

LEMMA ImportsStay ==
    ASSUME StudioInv, imports' = imports
    PROVE  imports' = [i \in Imports |-> imports'[i]] /\ \A i \in Imports : ServerImport(i)'
BY DEF StudioInv, ServerImport, IsImport

\* An import that exists is one, and its changes are of the same id.
LEMMA ExistsIs ==
    ASSUME StudioInv, NEW i \in Imports, Studio!Exists(i)
    PROVE  IsImport(imports[i]) /\ imports[i].id = i
BY ThereIsNot DEF StudioInv, ServerImport, Studio!Exists

LEMMA ChangedImports ==
    ASSUME StudioInv, NEW i \in Imports, NEW r, IsImport(r), r.id = i, imports' = Studio!Changed(i, r)
    PROVE  /\ imports' = [j \in Imports |-> imports'[j]] /\ \A j \in Imports : ServerImport(j)'
           /\ imports'[i].id = i
<1> DEFINE s == [r EXCEPT !.at = @ + 1]
<1>1. s = [id |-> r.id, at |-> r.at + 1, pending |-> r.pending, theme |-> r.theme, active |-> r.active, adopted |-> r.adopted]
  BY DEF IsImport
<1>2. IsImport(s) /\ s.id = i
  BY <1>1 DEF IsImport
<1>3. imports' = [imports EXCEPT ![i] = s]
  BY DEF Studio!Changed
<1> HIDE DEF s
<1>4. imports' = [j \in Imports |-> imports'[j]] /\ imports'[i] = s
      /\ \A j \in Imports : j # i => imports'[j] = imports[j]
  BY <1>3 DEF StudioInv
<1>5. \A j \in Imports : ServerImport(j)'
  BY <1>2, <1>4 DEF StudioInv, ServerImport, IsImport
<1> QED
  BY <1>2, <1>4, <1>5

LEMMA ServedChange ==
    ASSUME StudioInv, UNCHANGED StudioClient, NEW q \in sent, q.op \in ForImport, NEW ok, NEW record,
           Studio!ServeChange(q, ok, record),
           ok => /\ Studio!Exists(q.arg.id)
                 /\ (IsImport(imports[q.arg.id]) => IsImport(record) /\ record.id = imports[q.arg.id].id)
    PROVE  StudioInv'
<1>1. q.arg.id \in Imports /\ q.op # "upload"
  BY DEF StudioInv, StudioRequest, ForImport, OfImport
<1>2. CASE ok
  <2>1. IsImport(record) /\ record.id = q.arg.id
    BY <1>1, <1>2, ExistsIs
  <2>2. imports' = Studio!Changed(q.arg.id, record) /\ Studio!Answer(q, ok, imports'[q.arg.id])
    BY <1>2 DEF Studio!ServeChange
  <2>3. /\ imports' = [j \in Imports |-> imports'[j]] /\ \A j \in Imports : ServerImport(j)'
        /\ imports'[q.arg.id].id = q.arg.id
    BY <1>1, <2>1, <2>2, ChangedImports
  <2> QED
    BY <1>1, <2>2, <2>3, Answers
<1>3. CASE ~ok
  <2>1. imports' = imports /\ Studio!Answer(q, ok, imports'[q.arg.id])
    BY <1>3 DEF Studio!ServeChange
  <2> QED
    BY <1>1, <1>3, <2>1, ImportsStay, Answers
<1> QED
  BY <1>2, <1>3

LEMMA ImportChanges ==
    ASSUME NEW r, IsImport(r), NEW x
    PROVE  /\ IsImport([r EXCEPT !.pending = x]) /\ [r EXCEPT !.pending = x].id = r.id
           /\ IsImport([r EXCEPT !.adopted = x]) /\ [r EXCEPT !.adopted = x].id = r.id
           /\ IsImport([r EXCEPT !.theme = x]) /\ [r EXCEPT !.theme = x].id = r.id
<1>1. r = [id |-> r.id, at |-> r.at, pending |-> r.pending, theme |-> r.theme, active |-> r.active, adopted |-> r.adopted]
  BY DEF IsImport
<1>2. [r EXCEPT !.pending = x] =
        [id |-> r.id, at |-> r.at, pending |-> x, theme |-> r.theme, active |-> r.active, adopted |-> r.adopted]
  BY <1>1
<1>3. [r EXCEPT !.adopted = x] =
        [id |-> r.id, at |-> r.at, pending |-> r.pending, theme |-> r.theme, active |-> r.active, adopted |-> x]
  BY <1>1
<1>4. [r EXCEPT !.theme = x] =
        [id |-> r.id, at |-> r.at, pending |-> r.pending, theme |-> x, active |-> r.active, adopted |-> r.adopted]
  BY <1>1
<1> QED
  BY <1>2, <1>3, <1>4 DEF IsImport

LEMMA ServesChanges ==
    ASSUME StudioInv, UNCHANGED StudioClient, NEW q \in sent,
           \/ Studio!ServeFacts(q) \/ Studio!ServeAdopt(q) \/ Studio!ServeTheme(q) \/ Studio!ServeActivate(q)
           \/ Studio!ServeConfirm(q) \/ Studio!ServeRevoke(q) \/ Studio!ServeRestore(q) \/ Studio!ServeRender(q)
    PROVE  StudioInv'
<1> DEFINE r == imports[q.arg.id]
<1>1. ASSUME NEW ok, NEW record, q.op \in ForImport, Studio!ServeChange(q, ok, record),
             ok => Studio!Exists(q.arg.id), IsImport(r) => IsImport(record) /\ record.id = r.id
      PROVE  StudioInv'
  BY <1>1, ServedChange
<1>2. \A a : Studio!Current(a) => Studio!Exists(a.id)
  BY DEF Studio!Current
<1> HIDE DEF r
<1>3. ASSUME IsImport(r), NEW x
      PROVE  /\ IsImport([r EXCEPT !.pending = x]) /\ [r EXCEPT !.pending = x].id = r.id
             /\ IsImport([r EXCEPT !.adopted = x]) /\ [r EXCEPT !.adopted = x].id = r.id
             /\ IsImport([r EXCEPT !.theme = x]) /\ [r EXCEPT !.theme = x].id = r.id
  BY <1>3, ImportChanges
<1>4. CASE Studio!ServeFacts(q)
  <2>1. q.op \in ForImport
    BY <1>4 DEF Studio!ServeFacts, ForImport
  <2>2. PICK x : Studio!ServeChange(q, Studio!Current(q.arg), [imports[q.arg.id] EXCEPT !.pending = x])
    BY <1>4 DEF Studio!ServeFacts
  <2>3. Studio!ServeChange(q, Studio!Current(q.arg), [r EXCEPT !.pending = x])
    BY <2>2 DEF r
  <2> QED
    BY <1>1, <1>2, <1>3, <2>1, <2>3
<1>5. CASE Studio!ServeAdopt(q)
  <2>1. q.op \in ForImport
    BY <1>5 DEF Studio!ServeAdopt, ForImport
  <2>2. PICK ok, x : (ok => Studio!Current(q.arg)) /\ Studio!ServeChange(q, ok, [r EXCEPT !.adopted = x])
    BY <1>5 DEF Studio!ServeAdopt, r
  <2> QED
    BY <1>1, <1>2, <1>3, <2>1, <2>2
<1>6. CASE Studio!ServeTheme(q)
  <2>1. q.op \in ForImport
    BY <1>6 DEF Studio!ServeTheme, ForImport
  <2>2. PICK x : Studio!ServeChange(q, Studio!Current(q.arg), [r EXCEPT !.theme = x])
    BY <1>6 DEF Studio!ServeTheme, r
  <2> QED
    BY <1>1, <1>2, <1>3, <2>1, <2>2
<1>7. CASE Studio!ServeActivate(q)
  <2>1. q.op \in ForImport
    BY <1>7 DEF Studio!ServeActivate, ForImport
  <2>2. PICK s, z : /\ s = [r EXCEPT !.active = q.arg.version] /\ z = [s EXCEPT !.pending = TRUE]
                    /\ Studio!ServeChange(q, Studio!Current(q.arg), z)
    <3>1. Studio!ServeChange(q, Studio!Current(q.arg), [[r EXCEPT !.active = q.arg.version] EXCEPT !.pending = TRUE])
      BY <1>7 DEF Studio!ServeActivate, r
    <3> QED
      BY <3>1
  <2>3. ASSUME IsImport(r) PROVE IsImport(z) /\ z.id = r.id
    <3>1. s = [id |-> r.id, at |-> r.at, pending |-> r.pending, theme |-> r.theme, active |-> q.arg.version,
               adopted |-> r.adopted]
      BY <2>2, <2>3 DEF IsImport
    <3>2. z = [id |-> r.id, at |-> r.at, pending |-> TRUE, theme |-> r.theme, active |-> q.arg.version,
               adopted |-> r.adopted]
      BY <2>2, <3>1
    <3> QED
      BY <3>2 DEF IsImport
  <2> QED
    BY <1>1, <1>2, <2>1, <2>2, <2>3
<1>8. CASE Studio!ServeConfirm(q)
  <2>1. q.op \in ForImport
    BY <1>8 DEF Studio!ServeConfirm, ForImport
  <2>2. PICK ok, x : (ok => Studio!Current(q.arg)) /\ Studio!ServeChange(q, ok, [r EXCEPT !.pending = x])
    BY <1>8 DEF Studio!ServeConfirm, r
  <2> QED
    BY <1>1, <1>2, <1>3, <2>1, <2>2
<1>9. CASE Studio!ServeRevoke(q)
  <2>1. q.op \in ForImport
    BY <1>9 DEF Studio!ServeRevoke, ForImport
  <2>2. PICK ok, x : (ok => Studio!Current(q.arg)) /\ Studio!ServeChange(q, ok, [r EXCEPT !.adopted = x])
    BY <1>9 DEF Studio!ServeRevoke, r
  <2> QED
    BY <1>1, <1>2, <1>3, <2>1, <2>2
<1>10. CASE Studio!ServeRestore(q)
  <2>1. q.op \in ForImport
    BY <1>10 DEF Studio!ServeRestore, ForImport
  <2>2. PICK x : Studio!ServeChange(q, Studio!Current(q.arg), [r EXCEPT !.adopted = x])
    BY <1>10 DEF Studio!ServeRestore, r
  <2> QED
    BY <1>1, <1>2, <1>3, <2>1, <2>2
<1>11. CASE Studio!ServeRender(q)
  <2>1. q.op \in ForImport
    BY <1>11 DEF Studio!ServeRender, ForImport
  <2>2. PICK ok : (ok => Studio!Current(q.arg)) /\ Studio!ServeChange(q, ok, r)
    BY <1>11 DEF Studio!ServeRender, r
  <2> QED
    BY <1>1, <1>2, <2>1, <2>2
<1> QED
  BY <1>4, <1>5, <1>6, <1>7, <1>8, <1>9, <1>10, <1>11

\* An import comes or goes.
LEMMA ServesPresence ==
    ASSUME StudioInv, UNCHANGED StudioClient, NEW q \in sent, Studio!ServeUpload(q) \/ Studio!ServeDelete(q)
    PROVE  StudioInv'
<1>1. CASE Studio!ServeUpload(q)
  <2>1. q.op = "upload" /\ q.op \notin ForImport
    BY <1>1 DEF Studio!ServeUpload, ForImport
  <2>2. CASE imports' = imports /\ Studio!Answer(q, FALSE, Studio!Nothing)
    BY <2>1, <2>2, ImportsStay, Answers
  <2>3. ASSUME NEW i \in Imports, imports' = [imports EXCEPT ![i] = Studio!NewImport(i)],
               Studio!Answer(q, TRUE, Studio!NewImport(i))
        PROVE  StudioInv'
    <3>1. IsImport(Studio!NewImport(i)) /\ Studio!NewImport(i).id = i
      BY DEF IsImport, Studio!NewImport
    <3>2. imports' = [j \in Imports |-> imports'[j]] /\ \A j \in Imports : ServerImport(j)'
      BY <2>3, <3>1 DEF StudioInv, ServerImport, IsImport
    <3> QED
      BY <2>1, <2>3, <3>1, <3>2, Answers
  <2> QED
    BY <1>1, <2>2, <2>3 DEF Studio!ServeUpload
<1>2. CASE Studio!ServeDelete(q)
  <2>1. q.op # "upload" /\ q.op \notin ForImport
    BY <1>2 DEF Studio!ServeDelete, ForImport
  <2>2. PICK ok : /\ imports' = IF ok THEN [imports EXCEPT ![q.arg.id] = Studio!Gone] ELSE imports
                  /\ Studio!Answer(q, ok, Studio!Nothing)
    BY <1>2 DEF Studio!ServeDelete
  <2>3. imports' = [j \in Imports |-> imports'[j]] /\ \A j \in Imports : ServerImport(j)'
    BY <2>2 DEF StudioInv, ServerImport, IsImport
  <2> QED
    BY <2>1, <2>2, <2>3, Answers
<1> QED
  BY <1>1, <1>2

\* What is read, and what is said about the AI runs.
LEMMA ServesReads ==
    ASSUME StudioInv, UNCHANGED StudioClient, NEW q \in sent,
           \/ Studio!ServeImport(q) \/ Studio!ServeVersions(q) \/ Studio!ServeClaims(q) \/ Studio!ServeDownload(q)
           \/ Studio!ServeStart(q) \/ Studio!ServeCancel(q) \/ Studio!ServeForget(q)
           \/ Studio!ServeRun(q) \/ Studio!ServeRuns(q) \/ Studio!ServeOptions(q)
    PROVE  StudioInv'
<1> DEFINE Silent == q.op \notin ForImport /\ q.op # "upload"
<1>1. ASSUME NEW ok, NEW value, Studio!Answer(q, ok, value), imports' = imports,
             Silent \/ (q.op # "upload" /\ (ok => value.id = q.arg.id))
      PROVE  StudioInv'
  BY <1>1, ImportsStay, Answers
<1>2. CASE Studio!ServeImport(q) \/ Studio!ServeVersions(q) \/ Studio!ServeClaims(q)
  <2>1. \E ok, value : Studio!Answer(q, ok, value) /\ imports' = imports /\ (ok => value.id = q.arg.id)
    <3>1. CASE Studio!ServeImport(q)
      BY <3>1 DEF Studio!ServeImport, Studio!serverVars, Studio!Exists
    <3>2. CASE Studio!ServeVersions(q)
      BY <3>2 DEF Studio!ServeVersions, Studio!serverVars
    <3>3. CASE Studio!ServeClaims(q)
      BY <3>3 DEF Studio!ServeClaims, Studio!serverVars
    <3> QED
      BY <1>2, <3>1, <3>2, <3>3
  <2>2. q.op # "upload"
    BY <1>2 DEF Studio!ServeImport, Studio!ServeVersions, Studio!ServeClaims
  <2> QED
    BY <1>1, <2>1, <2>2
<1>3. CASE \/ Studio!ServeDownload(q) \/ Studio!ServeStart(q) \/ Studio!ServeCancel(q) \/ Studio!ServeForget(q)
           \/ Studio!ServeRun(q) \/ Studio!ServeRuns(q) \/ Studio!ServeOptions(q)
  <2>1. PICK ok, value : Studio!Answer(q, ok, value) /\ imports' = imports
    BY <1>3 DEF Studio!ServeDownload, Studio!ServeStart, Studio!ServeCancel, Studio!ServeForget,
       Studio!ServeRun, Studio!ServeRuns, Studio!ServeOptions, Studio!serverVars
  <2>2. Silent
    BY <1>3 DEF ForImport, Studio!ServeDownload, Studio!ServeStart, Studio!ServeCancel, Studio!ServeForget,
       Studio!ServeRun, Studio!ServeRuns, Studio!ServeOptions
  <2> QED
    BY <1>1, <2>1, <2>2
<1> QED
  BY <1>2, <1>3

LEMMA StudioServes ==
    ASSUME StudioInv, NEW q \in sent, Studio!Serve(q) \/ Studio!Lose(q)
    PROVE  StudioInv'
<1>1. UNCHANGED StudioClient
  BY DEF Studio!Serve, Studio!Lose, Studio!importVars, Studio!aiVars, StudioClient, StudioScreen
<1>2. CASE Studio!Serve(q)
  BY <1>1, <1>2, ServesChanges, ServesPresence, ServesReads DEF Studio!Serve
<1>3. CASE Studio!Lose(q)
  <2> DEFINE p == [q EXCEPT !.is = "lost", !.ans = Studio!Nothing]
  <2>1. StudioRequest(q)
    BY DEF StudioInv
  <2>2. p = [op |-> q.op, arg |-> q.arg, meant |-> q.meant, is |-> "lost", ans |-> Studio!Nothing]
    <3>1. p = [[q EXCEPT !.is = "lost"] EXCEPT !.ans = Studio!Nothing]
      OBVIOUS
    <3>2. [q EXCEPT !.is = "lost"] = [op |-> q.op, arg |-> q.arg, meant |-> q.meant, is |-> "lost", ans |-> q.ans]
      BY <2>1 DEF StudioRequest
    <3> HIDE DEF p
    <3> QED
      BY <3>1, <3>2
  <2>3. sent' = (sent \ {q}) \cup {p} /\ imports' = imports
    BY <1>3 DEF Studio!Lose, Studio!serverVars
  <2> HIDE DEF p
  <2>4. StudioRequest(p) /\ p.op = q.op
    BY <2>1, <2>2, RequestBecomes
  <2> QED
    BY <1>1, <2>3, <2>4, ImportsStay, StudioGoesOn
<1> QED
  BY <1>2, <1>3

\* An AI run or another window changes an import.
LEMMA StudioMoves ==
    ASSUME StudioInv, (\E r \in AiRuns : Studio!RunMoves(r)) \/ (\E i \in Imports : Studio!ElsewhereMoves(i))
    PROVE  StudioInv'
<1>1. UNCHANGED StudioScreen /\ waits' = waits /\ sent' = sent
  BY DEF Studio!RunMoves, Studio!ElsewhereMoves, Studio!importVars, Studio!aiVars, StudioScreen
<1>2. imports' = [i \in Imports |-> imports'[i]] /\ \A i \in Imports : ServerImport(i)'
  <2>1. CASE imports' = imports
    BY <2>1, ImportsStay
  <2>2. ASSUME NEW r \in AiRuns, Studio!RunMoves(r), imports' # imports
        PROVE  imports' = [i \in Imports |-> imports'[i]] /\ \A i \in Imports : ServerImport(i)'
    <3> DEFINE i == aiRuns[r].of
    <3>1. /\ Studio!Exists(i)
          /\ imports' = Studio!Changed(i, [imports[i] EXCEPT !.active = "ai", !.pending = TRUE])
      BY <2>2 DEF Studio!RunMoves, Studio!Current
    <3> HIDE DEF i
    <3>2. CASE i \in Imports
      <4>1. IsImport(imports[i]) /\ imports[i].id = i
        BY <3>1, <3>2, ExistsIs
      <4>2. PICK s, z : /\ s = [imports[i] EXCEPT !.active = "ai"] /\ z = [s EXCEPT !.pending = TRUE]
                        /\ imports' = Studio!Changed(i, z)
        <5>1. imports' = Studio!Changed(i, [[imports[i] EXCEPT !.active = "ai"] EXCEPT !.pending = TRUE])
          BY <3>1
        <5> QED
          BY <5>1
      <4>3. s = [id |-> i, at |-> imports[i].at, pending |-> imports[i].pending, theme |-> imports[i].theme,
                 active |-> "ai", adopted |-> imports[i].adopted]
        BY <4>1, <4>2 DEF IsImport
      <4>4. z = [s EXCEPT !.pending = TRUE]
        BY <4>2
      <4>5. z = [id |-> i, at |-> imports[i].at, pending |-> TRUE, theme |-> imports[i].theme,
                 active |-> "ai", adopted |-> imports[i].adopted]
        BY <4>4, <4>3
      <4>6. IsImport(z) /\ z.id = i
        BY <4>5 DEF IsImport
      <4> QED
        BY <3>2, <4>2, <4>6, ChangedImports
    <3>3. CASE i \notin Imports
      BY <2>2, <3>1, <3>3 DEF StudioInv, Studio!Changed
    <3> QED
      BY <3>2, <3>3
  <2>3. ASSUME NEW i \in Imports, Studio!ElsewhereMoves(i)
        PROVE  imports' = [j \in Imports |-> imports'[j]] /\ \A j \in Imports : ServerImport(j)'
    <3>1. IsImport(imports[i]) /\ imports[i].id = i
      BY <2>3, ExistsIs DEF Studio!ElsewhereMoves
    <3>2. PICK x : imports' = Studio!Changed(i, [imports[i] EXCEPT !.pending = x])
      BY <2>3 DEF Studio!ElsewhereMoves
    <3> QED
      BY <3>1, <3>2, ImportChanges, ChangedImports
  <2> QED
    BY <2>1, <2>2, <2>3
<1> QED
  BY <1>1, <1>2, ScreenStays DEF StudioInv, Studio!WaitsForAnswer

-----------------------------------------------------------------------------
(* The client of the studio: what is started for *)

LEMMA StudioAsked ==
    ASSUME StudioInv, UNCHANGED <<imports, StudioScreen>>, NEW started, \A q \in started : StudioRequest(q),
           sent' = sent \cup started, waits' \subseteq waits \cup Studio!Sets(started)
    PROVE  StudioInv'
<1>1. UNCHANGED StudioScreen /\ imports' = imports
  OBVIOUS
<1> QED
  BY <1>1, ScreenStays, ImportsStay, WaitsAreSet DEF StudioInv

LEMMA OrderIs ==
    ASSUME NEW op, NEW arg, NEW meant, Studio!Is(meant) => arg = meant, op \in OfImport => arg.id \in Imports
    PROVE  StudioRequest(Studio!Order(op, arg, meant))
BY DEF StudioRequest, Studio!Order

LEMMA AskIs ==
    ASSUME NEW op, NEW arg, op \in OfImport => arg.id \in Imports
    PROVE  StudioRequest(Studio!Ask(op, arg))
BY OrderIs DEF Studio!Ask, Studio!Is

LEMMA StudioAsks ==
    ASSUME StudioInv, NEW q, StudioRequest(q), Studio!Asks(q)
    PROVE  StudioInv'
<1>1. UNCHANGED <<imports, StudioScreen>>
  BY DEF Studio!Asks, Studio!Quiet, Studio!serverVars, Studio!importVars, Studio!aiVars, StudioScreen
<1>2. sent' = sent \cup {q} /\ waits' = waits \cup Studio!Sets({q})
  BY DEF Studio!Asks, Studio!Sends, Studio!Sets
<1> QED
  BY <1>1, <1>2, StudioAsked

\* What the user asks for of the import on the screen, without a confirmation.
LEMMA ShownIs == StudioInv /\ Studio!Studio => open.id \in Imports
BY DEF StudioInv, Shown, Studio!Studio, Studio!Is

LEMMA ClientAsks ==
    ASSUME StudioInv,
           \/ \E i \in Imports : Studio!OpenImport(i) \/ Studio!LoadProfileImport(i) \/ Studio!DeleteRow(i)
           \/ Studio!Reload \/ Studio!Upload \/ Studio!LoadVersions \/ Studio!Render \/ Studio!Download
           \/ Studio!MarkAdopted \/ Studio!Revoke \/ Studio!RestoreSnapshot \/ Studio!AddFact
           \/ \E f \in Facts : Studio!SaveFact(f) \/ Studio!DecideFact(f)
           \/ Studio!LoadAi \/ Studio!StartAi \/ Studio!RetryAi \/ Studio!CancelAi \/ Studio!ForgetAi \/ Studio!Poll
           \/ \E r \in AiRuns : Studio!SelectAi(r)
    PROVE  StudioInv'
<1> USE DEF OfImport, ForImport
<1>1. ASSUME NEW op, NEW arg, op \in OfImport => arg.id \in Imports, Studio!Asks(Studio!Ask(op, arg)) PROVE StudioInv'
  BY <1>1, AskIs, StudioAsks
<1>2. ASSUME NEW i \in Imports, Studio!OpenImport(i) \/ Studio!LoadProfileImport(i) \/ Studio!DeleteRow(i)
      PROVE  StudioInv'
  <2>1. \E op, arg : (op \in OfImport => arg.id \in Imports) /\ Studio!Asks(Studio!Ask(op, arg))
    BY <1>2 DEF Studio!OpenImport, Studio!LoadProfileImport, Studio!DeleteRow
  <2> QED
    BY <1>1, <2>1
<1>3. CASE Studio!Reload \/ Studio!Upload \/ Studio!LoadVersions \/ Studio!Render \/ Studio!Download
  <2>1. \E op, arg : (op \in OfImport => arg.id \in Imports) /\ Studio!Asks(Studio!Ask(op, arg))
    BY <1>3, ShownIs DEF Studio!Reload, Studio!Upload, Studio!LoadVersions, Studio!Render, Studio!Download, Studio!OnShown
  <2> QED
    BY <1>1, <2>1
<1>4. CASE Studio!MarkAdopted \/ Studio!Revoke \/ Studio!RestoreSnapshot
  <2>1. \E op, arg : (op \in OfImport => arg.id \in Imports) /\ Studio!Asks(Studio!Ask(op, arg))
    BY <1>4, ShownIs DEF Studio!MarkAdopted, Studio!Revoke, Studio!RestoreSnapshot, Studio!OnShown
  <2> QED
    BY <1>1, <2>1
<1>5. ASSUME NEW f, NEW edit, Studio!Mutates(f, edit) PROVE StudioInv'
  <2>1. \E op, arg : (op \in OfImport => arg.id \in Imports) /\ Studio!Asks(Studio!Ask(op, arg))
    BY <1>5, ShownIs DEF Studio!Mutates
  <2> QED
    BY <1>1, <2>1
<1>6. CASE Studio!AddFact \/ \E f \in Facts : Studio!SaveFact(f) \/ Studio!DecideFact(f)
  BY <1>5, <1>6 DEF Studio!AddFact, Studio!SaveFact, Studio!DecideFact
<1>7. CASE \/ Studio!LoadAi \/ Studio!StartAi \/ Studio!RetryAi \/ Studio!CancelAi \/ Studio!ForgetAi \/ Studio!Poll
           \/ \E r \in AiRuns : Studio!SelectAi(r)
  <2>1. Studio!Is(open) => open.id \in Imports
    BY DEF StudioInv, Shown, Studio!Is
  <2>2. CASE Studio!LoadAi \/ (\E r \in AiRuns : Studio!SelectAi(r)) \/ Studio!Poll
    <3>1. \E op, arg : arg.id \in Imports /\ Studio!Asks(Studio!Ask(op, arg))
      BY <2>1, <2>2 DEF Studio!LoadAi, Studio!Poll, Studio!SelectAi, Studio!OnShown, Studio!Studio
    <3> QED
      BY <1>1, <3>1
  <2>3. CASE Studio!StartAi \/ Studio!RetryAi \/ Studio!CancelAi \/ Studio!ForgetAi
    <3>1. \E op, arg : op \notin OfImport /\ Studio!Asks(Studio!Ask(op, arg))
      BY <2>3 DEF Studio!StartAi, Studio!RetryAi, Studio!CancelAi, Studio!ForgetAi
    <3> QED
      BY <1>1, <3>1
  <2> QED
    BY <1>7, <2>2, <2>3
<1> QED
  BY <1>2, <1>3, <1>4, <1>6, <1>7

\* What the user orders with a confirmation: it says what is on the screen.
LEMMA ClientOrders ==
    ASSUME StudioInv, Studio!DeleteCurrent \/ Studio!Adopt \/ Studio!SaveTheme \/ Studio!ClearTheme \/ Studio!ConfirmVersion
    PROVE  StudioInv'
<1>1. ASSUME NEW op, NEW arg, NEW meant, Studio!Is(meant) => arg = meant, op \in OfImport => arg.id \in Imports,
             Studio!Asks(Studio!Order(op, arg, meant))
      PROVE  StudioInv'
  BY <1>1, OrderIs, StudioAsks
<1>2. open.id \in Imports /\ TicksTrue /\ Studio!Is(open)
  BY ShownIs DEF StudioInv, Studio!DeleteCurrent, Studio!Adopt, Studio!SaveTheme, Studio!ClearTheme, Studio!ConfirmVersion, Studio!Studio
<1>3. CASE Studio!DeleteCurrent
  BY <1>1, <1>2, <1>3 DEF Studio!DeleteCurrent, TicksTrue, Studio!OnShown, Studio!Is
<1>4. CASE Studio!Adopt
  BY <1>1, <1>2, <1>4 DEF Studio!Adopt, TicksTrue, Studio!OnShown, Studio!Is
<1>5. CASE Studio!SaveTheme
  BY <1>1, <1>2, <1>5 DEF Studio!SaveTheme, TicksTrue, Studio!ThemeOnScreen, Studio!Is
<1>7. CASE Studio!ClearTheme
  <2>1. [Studio!ThemeOnScreen EXCEPT !.theme = Studio!NoTheme]
          = [id |-> open.id, at |-> open.at, theme |-> Studio!NoTheme]
    BY DEF Studio!ThemeOnScreen
  <2>2. ticks["theme"] = Studio!ThemeOnScreen
    BY <1>2, <1>7 DEF Studio!ClearTheme, TicksTrue, Studio!Is
  <2>3. Studio!Asks(Studio!Order("theme", [id |-> open.id, at |-> open.at, theme |-> Studio!NoTheme],
                                 [id |-> open.id, at |-> open.at, theme |-> Studio!NoTheme]))
    BY <1>7, <2>1, <2>2 DEF Studio!ClearTheme
  <2> QED
    BY <1>1, <1>2, <2>3
<1>6. CASE Studio!ConfirmVersion
  BY <1>1, <1>2, <1>6 DEF Studio!ConfirmVersion, TicksTrue, Studio!VersionOnScreen, Studio!Is
<1> QED
  BY <1>3, <1>4, <1>5, <1>6, <1>7

-----------------------------------------------------------------------------
(* The client of the studio: what is ticked, edited and left *)

LEMMA UntickedIs ==
    ASSUME StudioInv, NEW set, ticks' = Studio!UntickedOf(ticks, set)
    PROVE  /\ ticks' = [t \in TickNames |-> ticks'[t]]
           /\ \A t \in TickNames : ticks'[t] = IF t \in set THEN Studio!Nothing ELSE ticks[t]
BY DEF StudioInv, Studio!UntickedOf

\* The import and its lists stay; ticks may go, and so may the options of an AI run.
LEMMA ScreenThins ==
    ASSUME StudioInv, UNCHANGED <<open, versions, claims>>, options' \in {options, Studio!Nothing},
           ticks' = [t \in TickNames |-> ticks'[t]],
           \A t \in TickNames : ticks'[t] \in {Studio!Nothing, ticks[t]},
           theme' = theme \/ ticks'["theme"] = Studio!Nothing
    PROVE  Shown(open)' /\ TicksTrue' /\ Studio!BoundToShown'
<1>1. TicksTrue'
  <2>1. {"adopt", "delete", "theme", "version"} \subseteq TickNames
    BY DEF TickNames
  <2> QED
    BY <2>1 DEF StudioInv, TicksTrue, Studio!OnShown, Studio!ThemeOnScreen, Studio!VersionOnScreen, Studio!Is
<1>2. Studio!BoundToShown'
  BY DEF StudioInv, Studio!BoundToShown, Studio!Is
<1> QED
  BY <1>1, <1>2 DEF StudioInv, Shown

LEMMA ClientEdits ==
    ASSUME StudioInv,
           \/ \E f \in Facts : Studio!EditFact(f) \/ Studio!ResetFact(f)
           \/ Studio!EditTheme \/ Studio!SelectInstallation
    PROVE  StudioInv'
<1>1. PICK set : ticks' = Studio!UntickedOf(ticks, set) /\ (theme' = theme \/ "theme" \in set)
  <2>1. ticks = Studio!UntickedOf(ticks, {})
    BY DEF StudioInv, Studio!UntickedOf
  <2> QED
    BY <2>1 DEF Studio!EditFact, Studio!ResetFact, Studio!EditTheme, Studio!SelectInstallation, Studio!Untick,
       Studio!AiClient, Studio!importVars
<1>2. UNCHANGED <<sent, waits, open, versions, claims, options, imports>>
  BY DEF Studio!EditFact, Studio!ResetFact, Studio!EditTheme, Studio!SelectInstallation, Studio!Quiet,
     Studio!serverVars, Studio!aiVars, Studio!AiClient, Studio!importVars
<1>3. /\ ticks' = [t \in TickNames |-> ticks'[t]]
      /\ \A t \in TickNames : ticks'[t] = IF t \in set THEN Studio!Nothing ELSE ticks[t]
  BY <1>1, UntickedIs
<1>4. theme' = theme \/ ticks'["theme"] = Studio!Nothing
  BY <1>1, <1>3 DEF TickNames
<1>5. Shown(open)' /\ TicksTrue' /\ Studio!BoundToShown'
  BY <1>2, <1>3, <1>4, ScreenThins
<1> QED
  BY <1>2, <1>3, <1>5, ImportsStay DEF StudioInv, Studio!WaitsForAnswer

LEMMA ClientTicks ==
    ASSUME StudioInv, Studio!Tick
    PROVE  StudioInv'
<1>1. UNCHANGED <<sent, waits, open, theme, versions, claims, options, imports>>
  BY DEF Studio!Tick, Studio!Quiet, Studio!serverVars, Studio!importVars, Studio!aiVars
<1>2. ticks' = [t \in TickNames |-> ticks'[t]]
  BY DEF StudioInv, Studio!Tick
<1>3. TicksTrue'
  <2>1. \/ ticks' \in {[ticks EXCEPT !["adopt"] = Studio!OnShown], [ticks EXCEPT !["delete"] = Studio!OnShown]}
        \/ ticks' = [ticks EXCEPT !["theme"] = Studio!ThemeOnScreen]
        \/ ticks' = [ticks EXCEPT !["version"] = Studio!VersionOnScreen]
        \/ \E t \in {"revoke", "snapshot", "disclosure"} : \E x : ticks' = [ticks EXCEPT ![t] = x]
    BY DEF Studio!Tick
  <2>2. {"adopt", "delete", "theme", "version", "revoke", "snapshot", "disclosure"} \subseteq TickNames
    BY DEF TickNames
  <2>3. ASSUME NEW t \in TickNames, NEW x, ticks' = [ticks EXCEPT ![t] = x]
        PROVE  ticks'[t] = x /\ \A u \in TickNames : u # t => ticks'[u] = ticks[u]
    BY <2>3 DEF StudioInv
  <2>4. Studio!OnShown' = Studio!OnShown /\ Studio!ThemeOnScreen' = Studio!ThemeOnScreen
        /\ Studio!VersionOnScreen' = Studio!VersionOnScreen
    BY <1>1 DEF Studio!OnShown, Studio!ThemeOnScreen, Studio!VersionOnScreen
  <2>5. ASSUME NEW t \in TickNames, NEW x, ticks' = [ticks EXCEPT ![t] = x],
               \/ t \in {"adopt", "delete"} /\ x = Studio!OnShown
               \/ t = "theme" /\ x = Studio!ThemeOnScreen
               \/ t = "version" /\ x = Studio!VersionOnScreen
               \/ t \in {"revoke", "snapshot", "disclosure"}
        PROVE  TicksTrue'
    <3>1. ticks'[t] = x /\ \A u \in TickNames : u # t => ticks'[u] = ticks[u]
      BY <2>3, <2>5
    <3> QED
      BY <1>1, <2>2, <2>4, <2>5, <3>1 DEF StudioInv, TicksTrue, Studio!Is
  <2> QED
    BY <2>1, <2>2, <2>5
<1>4. Studio!BoundToShown'
  BY <1>1 DEF StudioInv, Studio!BoundToShown, Studio!Is
<1> QED
  BY <1>1, <1>2, <1>3, <1>4, ImportsStay DEF StudioInv, Shown, Studio!WaitsForAnswer

LEMMA ClientActivates ==
    ASSUME StudioInv, NEW v, Studio!ActivateVersion(v)
    PROVE  StudioInv'
<1>1. UNCHANGED <<open, theme, versions, claims, options, imports>>
  BY DEF Studio!ActivateVersion, Studio!Quiet, Studio!serverVars, Studio!importVars, Studio!aiVars
<1>2. PICK arg : arg.id \in Imports /\ Studio!Sends(Studio!Ask("activate", arg))
  BY ShownIs DEF Studio!ActivateVersion
<1>3. /\ ticks' = [t \in TickNames |-> ticks'[t]]
      /\ \A t \in TickNames : ticks'[t] = IF t \in {"version"} THEN Studio!Nothing ELSE ticks[t]
  BY UntickedIs DEF Studio!ActivateVersion, Studio!Untick
<1>4. Shown(open)' /\ TicksTrue' /\ Studio!BoundToShown'
  BY <1>1, <1>3, ScreenThins
<1>5. StudioRequest(Studio!Ask("activate", arg))
  BY <1>2, AskIs
<1>6. waits' \subseteq Studio!Flags /\ Studio!WaitsForAnswer'
  BY <1>2, WaitsAreSet DEF Studio!Sends, Studio!Sets
<1> QED
  BY <1>1, <1>2, <1>3, <1>4, <1>5, <1>6, ImportsStay DEF StudioInv, Studio!Sends

LEMMA ClientLeaves ==
    ASSUME StudioInv, Studio!Leave \/ Studio!Enter
    PROVE  StudioInv'
<1>1. UNCHANGED <<imports, StudioScreen>>
  BY DEF Studio!Leave, Studio!Enter, Studio!serverVars, Studio!importVars, Studio!aiVars, StudioScreen
<1>2. CASE Studio!Leave
  <2>1. sent' = sent \cup {} /\ waits' \subseteq waits \cup Studio!Sets({})
    BY <1>2 DEF Studio!Leave
  <2> QED
    BY <1>1, <2>1, StudioAsked
<1>3. CASE Studio!Enter
  <2>1. PICK started :
          /\ sent' = sent \cup started /\ waits' = waits \cup Studio!Sets(started)
          /\ \/ started = {}
             \/ \E op : started = {Studio!Ask(op, Studio!OnShown)} /\ Studio!Is(open)
    BY <1>3 DEF Studio!Enter
  <2>2. Studio!Is(open) => Studio!OnShown.id \in Imports
    BY DEF StudioInv, Shown, Studio!Is, Studio!OnShown
  <2>3. \A q \in started : StudioRequest(q)
    BY <2>1, <2>2, AskIs
  <2> QED
    BY <1>1, <2>1, <2>3, StudioAsked
<1> QED
  BY <1>2, <1>3

-----------------------------------------------------------------------------
(* The client of the studio: what is done with an answer *)

LEMMA StudioHandled ==
    ASSUME StudioInv, imports' = imports, NEW q \in sent, NEW started, \A p \in started : StudioRequest(p),
           sent' = (sent \ {q}) \cup started,
           waits' \subseteq (waits \ Studio!SetBy(q)) \cup {"aiBusy"} \cup Studio!Sets(started),
           ticks' = [t \in TickNames |-> ticks'[t]],
           Shown(open)' /\ TicksTrue' /\ Studio!BoundToShown'
    PROVE  StudioInv'
BY ImportsStay, WaitsAreCleared DEF StudioInv

\* Nothing is put on the screen but the AI run.
LEMMA StudioIgnores ==
    ASSUME StudioInv, imports' = imports, NEW q \in sent, NEW started, \A p \in started : StudioRequest(p),
           sent' = (sent \ {q}) \cup started,
           waits' \subseteq (waits \ Studio!SetBy(q)) \cup {"aiBusy"} \cup Studio!Sets(started),
           UNCHANGED Studio!importVars, options' \in {options, Studio!Nothing},
           NEW set, ticks' = ticks \/ ticks' = Studio!UntickedOf(ticks, set)
    PROVE  StudioInv'
<1>1. ticks' = [t \in TickNames |-> ticks'[t]] /\ \A t \in TickNames : ticks'[t] \in {Studio!Nothing, ticks[t]}
  BY UntickedIs DEF StudioInv
<1>2. UNCHANGED <<open, theme, versions, claims>>
  BY DEF Studio!importVars
<1>3. Shown(open)' /\ TicksTrue' /\ Studio!BoundToShown'
  BY <1>1, <1>2, ScreenThins
<1> QED
  BY <1>1, <1>3, StudioHandled

\* Another import or another revision of it: what was ticked is gone.
LEMMA AppliedIs ==
    ASSUME StudioInv, NEW record, record.id \in Imports, NEW kept, Studio!Applies(record, kept),
           options' = Studio!Nothing \/ (options' = options /\ ~Studio!OtherImport(record))
    PROVE  /\ Shown(open)' /\ TicksTrue' /\ Studio!BoundToShown'
           /\ ticks' = [t \in TickNames |-> ticks'[t]]
<1>1. open' = record
  BY DEF Studio!Applies
<1>2. /\ ticks' = [t \in TickNames |-> ticks'[t]]
      /\ \A t \in {"adopt", "theme", "version", "delete"} : ticks'[t] = Studio!Nothing
  BY UntickedIs DEF Studio!Applies, Studio!Untick, Studio!TakesBack, TickNames
<1>3. \/ Studio!OtherImport(record) /\ versions' = Studio!Nothing /\ claims' = Studio!Nothing
      \/ open.id = record.id /\ versions' = versions /\ claims' = claims
  BY DEF Studio!Applies, Studio!OtherImport
<1>4. open.id = record.id => Studio!Is(open)
  BY ThereIsNot DEF Studio!Is
<1>5. Studio!BoundToShown'
  BY <1>1, <1>3, <1>4 DEF StudioInv, Studio!BoundToShown, Studio!Is, Studio!OtherImport
<1> QED
  BY <1>1, <1>2, <1>5 DEF Shown, TicksTrue

LEMMA LoadsAre ==
    ASSUME NEW record, record.id \in Imports
    PROVE  \A p \in Studio!LoadsOf(record) : StudioRequest(p)
<1>1. \A p \in Studio!LoadsOf(record) : \E op, arg : p = Studio!Ask(op, arg) /\ arg.id = record.id
  BY DEF Studio!LoadsOf
<1> QED
  BY <1>1, AskIs

LEMMA StudioApplies ==
    ASSUME StudioInv, imports' = imports, NEW q \in sent, NEW record, record.id \in Imports,
           NEW kept, Studio!Applies(record, kept),
           options' = Studio!Nothing \/ (options' = options /\ ~Studio!OtherImport(record)),
           NEW started, \A p \in started : StudioRequest(p), Studio!FinishApplied(q, record, started)
    PROVE  StudioInv'
<1> DEFINE all == Studio!LoadsOf(record) \cup started
<1>1. \A p \in all : StudioRequest(p)
  BY LoadsAre
<1>2. /\ sent' = (sent \ {q}) \cup all
      /\ waits' \subseteq (waits \ Studio!SetBy(q)) \cup {"aiBusy"} \cup Studio!Sets(all)
  BY DEF Studio!FinishApplied
<1> HIDE DEF all
<1> QED
  BY <1>1, <1>2, AppliedIs, StudioHandled

LEMMA AnswerIs ==
    ASSUME StudioInv, NEW q \in sent, Studio!Told(q), ~Studio!Failed(q)
    PROVE  /\ q.op \in ForImport => q.ans.id = q.arg.id /\ q.ans.id \in Imports
           /\ q.op = "upload" => q.ans.id \in Imports
BY DEF StudioInv, StudioRequest, OfImport, Studio!Told, Studio!Failed

LEMMA StudioFails ==
    ASSUME StudioInv, imports' = imports, NEW q \in sent, NEW started, \A p \in started : StudioRequest(p),
           Studio!Finish(q, started), UNCHANGED Studio!importVars, options' \in {options, Studio!Nothing},
           NEW set, ticks' = ticks \/ ticks' = Studio!UntickedOf(ticks, set)
    PROVE  StudioInv'
BY StudioIgnores DEF Studio!Finish

LEMMA StudioShowsAnswer ==
    ASSUME StudioInv, NEW q \in sent, Studio!Told(q),
           imports' = imports, q.op \in ForImport \cup {"upload"}, NEW started, \A p \in started : StudioRequest(p),
           IF Studio!Failed(q)
           THEN Studio!Finish(q, {}) /\ UNCHANGED <<Studio!importVars, Studio!aiVars, ticks>>
           ELSE Studio!AppliesAlone(q.ans) /\ Studio!FinishApplied(q, q.ans, started)
    PROVE  StudioInv'
<1>1. CASE Studio!Failed(q)
  <2>1. UNCHANGED Studio!importVars /\ ticks' = ticks /\ options' = options /\ Studio!Finish(q, {})
    BY <1>1 DEF Studio!aiVars
  <2> QED
    BY <2>1, StudioFails
<1>2. CASE ~Studio!Failed(q)
  <2>1. q.ans.id \in Imports
    BY <1>2, AnswerIs
  <2>2. Studio!Applies(q.ans, {}) /\ Studio!FinishApplied(q, q.ans, started)
        /\ (options' = Studio!Nothing \/ (options' = options /\ ~Studio!OtherImport(q.ans)))
    BY <1>2 DEF Studio!AppliesAlone, Studio!AiForgotten, Studio!aiVars
  <2> QED
    BY <2>1, <2>2, StudioApplies
<1> QED
  BY <1>1, <1>2

LEMMA QuietImports == Studio!Quiet => imports' = imports
BY DEF Studio!Quiet, Studio!serverVars

\* Most answers are the import of the request.
LEMMA HandlesImport ==
    ASSUME StudioInv, NEW q \in sent,
           \/ Studio!UploadAnswered(q) \/ Studio!RenderAnswered(q) \/ Studio!RestoreAnswered(q)
           \/ Studio!OpenAnswered(q) \/ Studio!ProfileAnswered(q) \/ Studio!AdoptAnswered(q)
           \/ Studio!ThemeAnswered(q) \/ Studio!ActivateAnswered(q) \/ Studio!MarkAnswered(q)
           \/ Studio!RevokeAnswered(q)
    PROVE  StudioInv'
<1>1. ASSUME Studio!AppliedOrFailed(q), q.op \in ForImport \cup {"upload"} PROVE StudioInv'
  <2>1. \A p \in {} : StudioRequest(p)
    OBVIOUS
  <2> QED
    BY <1>1, <2>1, QuietImports, StudioShowsAnswer DEF Studio!AppliedOrFailed
<1>2. CASE \/ Studio!UploadAnswered(q) \/ Studio!RenderAnswered(q) \/ Studio!RestoreAnswered(q)
           \/ Studio!OpenAnswered(q) \/ Studio!AdoptAnswered(q)
           \/ Studio!ThemeAnswered(q) \/ Studio!ActivateAnswered(q) \/ Studio!MarkAnswered(q)
  <2>1. Studio!AppliedOrFailed(q) /\ q.op \in ForImport \cup {"upload"}
    BY <1>2 DEF ForImport, Studio!UploadAnswered, Studio!RenderAnswered, Studio!RestoreAnswered, Studio!OpenAnswered,
       Studio!AdoptAnswered, Studio!ThemeAnswered, Studio!ActivateAnswered, Studio!MarkAnswered
  <2> QED
    BY <1>1, <2>1
<1>3. CASE Studio!ProfileAnswered(q)
  <2> DEFINE started == IF task = "versions" /\ ~Studio!Failed(q) THEN {Studio!Ask("versions", [id |-> q.ans.id])} ELSE {}
  <2>1. q.op \in ForImport /\ Studio!Told(q) /\ imports' = imports
    BY <1>3, QuietImports DEF ForImport, Studio!ProfileAnswered
  <2>2. ~Studio!Failed(q) => q.ans.id \in Imports
    BY <2>1, AnswerIs
  <2>3. \A p \in started : StudioRequest(p)
    BY <2>2, AskIs
  <2>4. IF Studio!Failed(q)
        THEN Studio!Finish(q, {}) /\ UNCHANGED <<Studio!importVars, Studio!aiVars, ticks>>
        ELSE Studio!AppliesAlone(q.ans) /\ Studio!FinishApplied(q, q.ans, started)
    BY <1>3 DEF Studio!ProfileAnswered
  <2> HIDE DEF started
  <2> QED
    BY <2>1, <2>3, <2>4, StudioShowsAnswer
<1>4. CASE Studio!RevokeAnswered(q)
  <2> DEFINE started == IF Studio!Failed(q) THEN {} ELSE {Studio!Ask("readopt", [id |-> q.ans.id, at |-> q.ans.at])}
  <2>1. q.op \in ForImport /\ Studio!Told(q) /\ imports' = imports
    BY <1>4, QuietImports DEF ForImport, Studio!RevokeAnswered
  <2>2. ~Studio!Failed(q) => q.ans.id \in Imports
    BY <2>1, AnswerIs
  <2>3. \A p \in started : StudioRequest(p)
    BY <2>2, AskIs
  <2>4. IF Studio!Failed(q)
        THEN Studio!Finish(q, {}) /\ UNCHANGED <<Studio!importVars, Studio!aiVars, ticks>>
        ELSE Studio!AppliesAlone(q.ans) /\ Studio!FinishApplied(q, q.ans, started)
    BY <1>4 DEF Studio!RevokeAnswered
  <2> HIDE DEF started
  <2> QED
    BY <2>1, <2>3, <2>4, StudioShowsAnswer
<1> QED
  BY <1>2, <1>3, <1>4

\* The confirmation of a version is taken back when the order fails.
LEMMA HandlesConfirm ==
    ASSUME StudioInv, NEW q \in sent, Studio!ConfirmAnswered(q)
    PROVE  StudioInv'
<1>1. q.op \in ForImport /\ Studio!Told(q) /\ imports' = imports
  BY QuietImports DEF ForImport, Studio!ConfirmAnswered
<1>2. \A p \in {} : StudioRequest(p)
  OBVIOUS
<1>3. CASE Studio!Failed(q)
  <2>1. /\ Studio!Finish(q, {}) /\ UNCHANGED Studio!importVars /\ options' = options
        /\ ticks' = Studio!UntickedOf(ticks, {"version"})
    BY <1>3 DEF Studio!ConfirmAnswered, Studio!aiVars, Studio!Untick
  <2> QED
    BY <1>1, <1>2, <2>1, StudioFails
<1>4. CASE ~Studio!Failed(q)
  <2>1. IF Studio!Failed(q)
        THEN Studio!Finish(q, {}) /\ UNCHANGED <<Studio!importVars, Studio!aiVars, ticks>>
        ELSE Studio!AppliesAlone(q.ans) /\ Studio!FinishApplied(q, q.ans, {})
    BY <1>4 DEF Studio!ConfirmAnswered
  <2> QED
    BY <1>1, <1>2, <2>1, StudioShowsAnswer
<1> QED
  BY <1>3, <1>4

\* The lists of the import: one of another import is not shown.
LEMMA HandlesList ==
    ASSUME StudioInv, NEW q \in sent,
           Studio!DownloadAnswered(q) \/ Studio!VersionsAnswered(q) \/ Studio!ClaimsAnswered(q)
    PROVE  StudioInv'
<1>1. \A p \in {} : StudioRequest(p)
  OBVIOUS
<1>2. Studio!Finish(q, {}) /\ imports' = imports /\ Studio!Told(q) /\ options' = options /\ open' = open /\ theme' = theme
  BY QuietImports DEF Studio!DownloadAnswered, Studio!VersionsAnswered, Studio!ClaimsAnswered, Studio!importVars, Studio!aiVars
<1>3. CASE Studio!DownloadAnswered(q)
  <2>1. UNCHANGED Studio!importVars /\ ticks' = ticks
    BY <1>3 DEF Studio!DownloadAnswered
  <2> QED
    BY <1>1, <1>2, <2>1, StudioFails
<1>4. ASSUME ticks' = [t \in TickNames |-> ticks'[t]], TicksTrue', Studio!BoundToShown' PROVE StudioInv'
  <2>1. Shown(open)'
    BY <1>2 DEF StudioInv, Shown
  <2> QED
    BY <1>1, <1>2, <1>4, <2>1, StudioHandled DEF Studio!Finish
<1>5. CASE Studio!ClaimsAnswered(q)
  <2>1. versions' = versions /\ ticks' = ticks /\ q.op \in ForImport
    BY <1>5 DEF Studio!ClaimsAnswered, Studio!importVars, Studio!aiVars, ForImport
  <2>2. TicksTrue'
    BY <1>2, <2>1 DEF StudioInv, TicksTrue, Studio!OnShown, Studio!ThemeOnScreen, Studio!VersionOnScreen, Studio!Is
  <2>3. claims' = claims \/ claims' = Studio!Nothing \/ claims'.id = open.id
    BY <1>2, <1>5, <2>1, AnswerIs DEF Studio!ClaimsAnswered
  <2>4. Studio!BoundToShown'
    BY <1>2, <2>1, <2>3 DEF StudioInv, Studio!BoundToShown, Studio!Is
  <2> QED
    BY <1>4, <2>1, <2>2, <2>4 DEF StudioInv
<1>6. CASE Studio!VersionsAnswered(q)
  <2>1. claims' = claims
    BY <1>6 DEF Studio!VersionsAnswered
  <2>2. \/ versions' = Studio!Nothing /\ ticks' = ticks
        \/ /\ versions' = q.ans /\ q.ans.id = open.id
           /\ \/ Studio!Is(versions) /\ versions.active = q.ans.active /\ ticks' = ticks
              \/ ticks' = Studio!UntickedOf(ticks, {"version"})
    BY <1>6 DEF Studio!VersionsAnswered, Studio!ListMatches, Studio!Untick
  <2>3. Studio!BoundToShown'
    BY <1>2, <2>1, <2>2 DEF StudioInv, Studio!BoundToShown, Studio!Is
  <2>4. CASE ticks' = ticks
    <3>1. ticks' = [t \in TickNames |-> ticks'[t]]
      BY <2>4 DEF StudioInv
    <3>2. \/ ~Studio!Is(versions') \/ ticks' = Studio!UntickedOf(ticks, {"version"})
          \/ Studio!Is(versions) /\ versions'.active = versions.active
      BY <2>2 DEF Studio!Is
    <3>3. ASSUME ticks' = Studio!UntickedOf(ticks, {"version"})
          PROVE  ticks'["version"] = Studio!Nothing
      BY <3>3, UntickedIs DEF TickNames
    <3>4. TicksTrue'
      BY <1>2, <2>4, <3>2, <3>3 DEF StudioInv, TicksTrue, Studio!OnShown, Studio!ThemeOnScreen, Studio!VersionOnScreen, Studio!Is
    <3> QED
      BY <1>4, <2>3, <3>1, <3>4
  <2>5. CASE ticks' = Studio!UntickedOf(ticks, {"version"})
    <3>1. /\ ticks' = [t \in TickNames |-> ticks'[t]]
          /\ \A t \in TickNames : ticks'[t] = IF t \in {"version"} THEN Studio!Nothing ELSE ticks[t]
      BY <2>5, UntickedIs
    <3>2. TicksTrue'
      <4>1. {"adopt", "delete", "theme", "version"} \subseteq TickNames
        BY DEF TickNames
      <4> QED
        BY <1>2, <3>1, <4>1 DEF StudioInv, TicksTrue, Studio!OnShown, Studio!ThemeOnScreen, Studio!VersionOnScreen, Studio!Is
    <3> QED
      BY <1>4, <2>3, <3>1, <3>2
  <2> QED
    BY <2>2, <2>4, <2>5
<1> QED
  BY <1>3, <1>5, <1>6

\* The import is taken from the screen with everything that was shown of it.
LEMMA HandlesRemoval ==
    ASSUME StudioInv, NEW q \in sent, Studio!DeleteAnswered(q) \/ Studio!RowAnswered(q)
    PROVE  StudioInv'
<1>1. imports' = imports /\ \A p \in {} : StudioRequest(p)
  BY QuietImports DEF Studio!DeleteAnswered, Studio!RowAnswered
<1>2. CASE Studio!Finish(q, {}) /\ UNCHANGED <<Studio!importVars, Studio!aiVars, ticks>>
  <2>1. UNCHANGED Studio!importVars /\ ticks' = ticks /\ options' = options
    BY <1>2 DEF Studio!aiVars
  <2> QED
    BY <1>1, <1>2, <2>1, StudioFails
<1>3. CASE /\ Studio!Removes /\ \E set : Studio!Untick(set)
           /\ sent' = sent \ {q} /\ waits' = (waits \ Studio!SetBy(q)) \ {"aiBusy", "versionBusy", "pollBusy"}
  <2>1. /\ sent' = (sent \ {q}) \cup {}
        /\ waits' \subseteq (waits \ Studio!SetBy(q)) \cup {"aiBusy"} \cup Studio!Sets({})
    BY <1>3
  <2>2. ticks' = [t \in TickNames |-> ticks'[t]]
    BY <1>3, UntickedIs DEF Studio!Untick
  <2>3. Shown(open)' /\ TicksTrue' /\ Studio!BoundToShown'
    BY <1>3 DEF Studio!Removes, Studio!AiForgotten, Shown, TicksTrue, Studio!BoundToShown, Studio!Is
  <2> QED
    BY <1>1, <2>1, <2>2, <2>3, StudioHandled
<1> QED
  BY <1>2, <1>3 DEF Studio!DeleteAnswered, Studio!RowAnswered

\* The answer to a change of a fact is shown when its import is still on the screen.
LEMMA FactsStay ==
    ASSUME StudioInv, NEW q \in sent, Studio!FactsAnswered(q)
    PROVE  StudioInv' /\ open'.id = open.id
<1>1. /\ imports' = imports /\ \A p \in {} : StudioRequest(p)
      /\ q.op \in ForImport /\ Studio!Told(q)
  BY QuietImports DEF Studio!FactsAnswered, ForImport
<1>2. CASE Studio!Failed(q) \/ open.id # q.arg.id
  <2>1. UNCHANGED Studio!importVars /\ ticks' = ticks /\ options' = options /\ Studio!Finish(q, {})
    BY <1>2 DEF Studio!FactsAnswered, Studio!aiVars
  <2> QED
    BY <1>1, <2>1, StudioFails DEF Studio!importVars
<1>3. CASE ~(Studio!Failed(q) \/ open.id # q.arg.id)
  <2>1. q.ans.id = open.id /\ q.ans.id \in Imports
    BY <1>1, <1>3, AnswerIs
  <2>2. Studio!Applies(q.ans, q.arg.kept) /\ Studio!FinishApplied(q, q.ans, {}) /\ options' = options
    BY <1>3 DEF Studio!FactsAnswered, Studio!aiVars
  <2>3. ~Studio!OtherImport(q.ans) /\ open' = q.ans
    BY <2>1, <2>2 DEF Studio!OtherImport, Studio!Applies
  <2>4. StudioInv'
    BY <1>1, <2>1, <2>2, <2>3, StudioApplies
  <2> QED
    BY <2>1, <2>3, <2>4
<1> QED
  BY <1>2, <1>3

\* What an AI run has made of the import.
LEMMA HandlesApplied ==
    ASSUME StudioInv, NEW q \in sent, Studio!AppliedAnswered(q)
    PROVE  StudioInv'
<1>1. /\ imports' = imports /\ \A p \in {} : StudioRequest(p)
      /\ q.op \in ForImport /\ Studio!Told(q)
  BY QuietImports DEF Studio!AppliedAnswered, ForImport
<1>2. CASE Studio!Failed(q) \/ q.ans.at # q.arg.run.at
  <2>1. UNCHANGED Studio!importVars /\ ticks' = ticks /\ options' = options /\ Studio!Finish(q, {})
    BY <1>2 DEF Studio!AppliedAnswered
  <2> QED
    BY <1>1, <2>1, StudioFails
<1>3. CASE ~(Studio!Failed(q) \/ q.ans.at # q.arg.run.at)
  <2>1. q.ans.id \in Imports
    BY <1>1, <1>3, AnswerIs
  <2>2. /\ Studio!Applies(q.ans, {}) /\ Studio!FinishApplied(q, q.ans, {})
        /\ options' = Studio!Nothing \/ (options' = options /\ ~Studio!OtherImport(q.ans))
    BY <1>3 DEF Studio!AppliedAnswered
  <2> QED
    BY <1>1, <2>1, <2>2, StudioApplies
<1> QED
  BY <1>2, <1>3

-----------------------------------------------------------------------------
(* The client of the studio: the answers about AI runs *)

\* An AI run is shown, or nothing; the import on the screen stays.
LEMMA RunFinished ==
    ASSUME NEW q, NEW run, NEW started, Studio!FinishRun(q, run, started)
    PROVE  /\ sent' = (sent \ {q}) \cup started
           /\ waits' \subseteq (waits \ Studio!SetBy(q)) \cup {"aiBusy"} \cup Studio!Sets(started)
BY DEF Studio!FinishRun

\* The flag of the caller stays set, unless it is the one of the poll.
LEMMA Reloaded ==
    ASSUME StudioInv, NEW q \in sent, q.op \in {"aiRuns", "poll", "select"}, NEW run, Studio!Reloads(q, q.arg, run)
    PROVE  StudioInv'
<1> DEFINE mark == [id |-> run.id, at |-> run.at]
           started == IF reload = mark THEN {} ELSE {Studio!Ask("applied", [id |-> q.arg.id, run |-> run])}
<1>1. q.arg.id \in Imports
  BY DEF StudioInv, StudioRequest, OfImport
<1>2. \A p \in started : StudioRequest(p)
  BY <1>1, AskIs
<1>3. Studio!SetBy(q) \subseteq {"aiBusy", "pollBusy"}
  BY DEF Studio!SetBy, Studio!Flags, Studio!ClearedBy
<1>4. sent' = (sent \ {q}) \cup started /\ waits' = (waits \ {"pollBusy"}) \cup Studio!Sets(started)
  BY DEF Studio!Reloads
<1> HIDE DEF started
<1>5. waits' \subseteq (waits \ Studio!SetBy(q)) \cup {"aiBusy"} \cup Studio!Sets(started)
  BY <1>3, <1>4
<1>6. UNCHANGED Studio!importVars /\ imports' = imports /\ options' = options /\ ticks' = ticks
  BY QuietImports DEF Studio!Reloads, Studio!AiClient
<1> QED
  BY <1>2, <1>4, <1>5, <1>6, StudioIgnores

LEMMA ShowsAnswer ==
    ASSUME StudioInv, NEW q \in sent, NEW run, NEW untick, Studio!ShownAnswer(q, run, untick), Studio!AiClient
    PROVE  StudioInv'
<1>1. \A p \in {} : StudioRequest(p)
  OBVIOUS
<1>2. /\ UNCHANGED Studio!importVars /\ imports' = imports /\ options' = options
      /\ ticks' = Studio!UntickedOf(ticks, untick) /\ Studio!FinishRun(q, run, {})
  BY QuietImports DEF Studio!ShownAnswer, Studio!AiClient
<1>3. /\ sent' = (sent \ {q}) \cup {}
      /\ waits' \subseteq (waits \ Studio!SetBy(q)) \cup {"aiBusy"} \cup Studio!Sets({})
  BY <1>2, RunFinished
<1> QED
  BY <1>1, <1>2, <1>3, StudioIgnores

LEMMA HandlesRuns ==
    ASSUME StudioInv, NEW q \in sent, Studio!RunsAnswered(q)
    PROVE  StudioInv'
<1>1. /\ UNCHANGED Studio!importVars /\ imports' = imports /\ q.op = "aiRuns" /\ \A p \in {} : StudioRequest(p)
  BY QuietImports DEF Studio!RunsAnswered, Studio!AiClient
<1>2. CASE Studio!FinishRun(q, Studio!Nothing, {}) /\ options' \in {options, Studio!Nothing} /\ ticks' = ticks
  <2>1. /\ sent' = (sent \ {q}) \cup {}
        /\ waits' \subseteq (waits \ Studio!SetBy(q)) \cup {"aiBusy"} \cup Studio!Sets({})
    BY <1>2, RunFinished
  <2> QED
    BY <1>1, <1>2, <2>1, StudioIgnores
<1>3. ASSUME NEW run, Studio!Reloads(q, q.arg, run) PROVE StudioInv'
  BY <1>1, <1>3, Reloaded
<1>4. ASSUME NEW arg, Studio!Finish(q, {Studio!Ask("aiOptions", arg)}), UNCHANGED <<Studio!aiVars, ticks>>
      PROVE  StudioInv'
  <2>1. \A p \in {Studio!Ask("aiOptions", arg)} : StudioRequest(p)
    BY AskIs DEF OfImport, ForImport
  <2>2. options' = options /\ ticks' = ticks
    BY <1>4 DEF Studio!aiVars
  <2> QED
    BY <1>1, <1>4, <2>1, <2>2, StudioFails
<1> QED
  BY <1>2, <1>3, <1>4 DEF Studio!RunsAnswered, Studio!AiStops

LEMMA HandlesOptions ==
    ASSUME StudioInv, NEW q \in sent, Studio!OptionsAnswered(q)
    PROVE  StudioInv'
<1>1. /\ UNCHANGED Studio!importVars /\ imports' = imports /\ ticks' = ticks /\ \A p \in {} : StudioRequest(p)
  BY QuietImports DEF Studio!OptionsAnswered, Studio!AiClient
<1>2. PICK run : Studio!FinishRun(q, run, {}) \/ Studio!Finish(q, {})
  BY DEF Studio!OptionsAnswered
<1>3. /\ sent' = (sent \ {q}) \cup {}
      /\ waits' \subseteq (waits \ Studio!SetBy(q)) \cup {"aiBusy"} \cup Studio!Sets({})
  BY <1>2, RunFinished DEF Studio!Finish
<1>4. CASE options' \in {options, Studio!Nothing}
  BY <1>1, <1>3, <1>4, StudioIgnores
<1>5. CASE options' = q.ans /\ q.ans.id = open.id
  <2>1. UNCHANGED <<open, theme, versions, claims>>
    BY <1>1 DEF Studio!importVars
  <2>2. TicksTrue' /\ Shown(open)' /\ ticks' = [t \in TickNames |-> ticks'[t]]
    BY <1>1, <2>1 DEF StudioInv, Shown, TicksTrue, Studio!OnShown, Studio!ThemeOnScreen, Studio!VersionOnScreen, Studio!Is
  <2>3. Studio!BoundToShown'
    BY <1>5, <2>1 DEF StudioInv, Studio!BoundToShown, Studio!Is
  <2> QED
    BY <1>1, <1>3, <2>2, <2>3, StudioHandled
<1>6. options' \in {options, Studio!Nothing} \/ (options' = q.ans /\ q.ans.id = open.id)
  BY DEF Studio!OptionsAnswered, Studio!aiVars, Studio!OnShown
<1> QED
  BY <1>4, <1>5, <1>6

LEMMA HandlesOrder ==
    ASSUME StudioInv, NEW q \in sent,
           \/ Studio!StartAnswered(q) \/ Studio!CancelAnswered(q) \/ Studio!ForgetAnswered(q)
           \/ Studio!SelectAnswered(q) \/ Studio!PollAnswered(q)
    PROVE  StudioInv'
<1>1. ASSUME Studio!Finish(q, {}), UNCHANGED <<Studio!aiVars, ticks>>, Studio!AiClient PROVE StudioInv'
  <2>1. \A p \in {} : StudioRequest(p)
    OBVIOUS
  <2>2. options' = options /\ ticks' = ticks /\ UNCHANGED Studio!importVars /\ imports' = imports
    BY <1>1, QuietImports DEF Studio!aiVars, Studio!AiClient
  <2> QED
    BY <1>1, <2>1, <2>2, StudioFails
<1>2. ASSUME NEW run, NEW untick, Studio!ShownAnswer(q, run, untick), Studio!AiClient PROVE StudioInv'
  BY <1>2, ShowsAnswer
<1>3. ASSUME NEW run, Studio!Reloads(q, q.arg, run), q.op \in {"aiRuns", "poll", "select"} PROVE StudioInv'
  BY <1>3, Reloaded
<1>4. CASE Studio!StartAnswered(q) \/ Studio!CancelAnswered(q) \/ Studio!ForgetAnswered(q)
  BY <1>1, <1>2, <1>4 DEF Studio!StartAnswered, Studio!CancelAnswered, Studio!ForgetAnswered, Studio!AiFailed
<1>5. CASE Studio!SelectAnswered(q)
  BY <1>1, <1>2, <1>3, <1>5 DEF Studio!SelectAnswered, Studio!AiFailed
<1>6. CASE Studio!PollAnswered(q)
  <2>1. ASSUME Studio!AiStops, sent' = sent \ {q}, waits' = waits \ {"pollBusy", "aiBusy"}, Studio!AiClient
        PROVE  StudioInv'
    <3>1. Studio!SetBy(q) = {"pollBusy"}
      BY <1>6 DEF Studio!PollAnswered, Studio!SetBy, Studio!Flags, Studio!ClearedBy
    <3>2. /\ sent' = (sent \ {q}) \cup {} /\ \A p \in {} : StudioRequest(p)
          /\ waits' \subseteq (waits \ Studio!SetBy(q)) \cup {"aiBusy"} \cup Studio!Sets({})
      BY <2>1, <3>1
    <3>3. options' = options /\ ticks' = ticks /\ UNCHANGED Studio!importVars /\ imports' = imports
      BY <2>1, QuietImports DEF Studio!AiStops, Studio!AiClient
    <3> QED
      BY <3>2, <3>3, StudioIgnores
  <2> QED
    BY <1>2, <1>3, <1>6, <2>1 DEF Studio!PollAnswered
<1> QED
  BY <1>4, <1>5, <1>6

-----------------------------------------------------------------------------
(* The CV studio as a whole *)

LEMMA StudioHandles ==
    ASSUME StudioInv, NEW q \in sent, Studio!Handlers(q)
    PROVE  StudioInv'
BY HandlesImport, HandlesConfirm, HandlesList, HandlesRemoval, FactsStay, HandlesApplied, HandlesRuns, HandlesOptions,
   HandlesOrder DEF Studio!Handlers

LEMMA StudioStays ==
    ASSUME StudioInv, UNCHANGED studioVars
    PROVE  StudioInv'
<1>1. UNCHANGED <<imports, StudioScreen>> /\ sent' = sent \cup {} /\ waits' \subseteq waits \cup Studio!Sets({})
  BY DEF studioVars, StudioScreen
<1> QED
  BY <1>1, StudioAsked

LEMMA StudioStep ==
    ASSUME StudioInv, Studio!Next
    PROVE  StudioInv'
<1>1. CASE \E q \in sent : Studio!Serve(q) \/ Studio!Lose(q)
  BY <1>1, StudioServes
<1>2. CASE \E q \in sent : Studio!Handlers(q)
  BY <1>2, StudioHandles
<1>3. CASE (\E r \in AiRuns : Studio!RunMoves(r)) \/ (\E i \in Imports : Studio!ElsewhereMoves(i))
  BY <1>3, StudioMoves
<1>4. CASE \/ \E i \in Imports : Studio!OpenImport(i) \/ Studio!LoadProfileImport(i) \/ Studio!DeleteRow(i)
           \/ Studio!Reload \/ Studio!Upload \/ Studio!LoadVersions \/ Studio!Render \/ Studio!Download
           \/ Studio!MarkAdopted \/ Studio!Revoke \/ Studio!RestoreSnapshot \/ Studio!AddFact
           \/ \E f \in Facts : Studio!SaveFact(f) \/ Studio!DecideFact(f)
           \/ Studio!LoadAi \/ Studio!StartAi \/ Studio!RetryAi \/ Studio!CancelAi \/ Studio!ForgetAi \/ Studio!Poll
           \/ \E r \in AiRuns : Studio!SelectAi(r)
  BY <1>4, ClientAsks
<1>5. CASE Studio!DeleteCurrent \/ Studio!Adopt \/ Studio!SaveTheme \/ Studio!ClearTheme \/ Studio!ConfirmVersion
  BY <1>5, ClientOrders
<1>6. CASE \/ \E f \in Facts : Studio!EditFact(f) \/ Studio!ResetFact(f)
           \/ Studio!EditTheme \/ Studio!SelectInstallation
  BY <1>6, ClientEdits
<1>7. CASE Studio!Leave \/ Studio!Enter \/ Studio!Tick \/ \E v \in Studio!Readings : Studio!ActivateVersion(v)
  BY <1>7, ClientLeaves, ClientTicks, ClientActivates
<1> QED
  BY <1>1, <1>2, <1>3, <1>4, <1>5, <1>6, <1>7 DEF Studio!Next, Studio!FactEdits

\* No handler takes another request away.
LEMMA HandlersKeep ==
    ASSUME NEW q, Studio!Handlers(q)
    PROVE  sent \ {q} \subseteq sent'
<1> USE DEF Studio!Finish, Studio!FinishRun, Studio!FinishApplied
<1>1. CASE \/ Studio!UploadAnswered(q) \/ Studio!RenderAnswered(q) \/ Studio!RestoreAnswered(q)
           \/ Studio!OpenAnswered(q) \/ Studio!ProfileAnswered(q) \/ Studio!AdoptAnswered(q)
           \/ Studio!ThemeAnswered(q) \/ Studio!ActivateAnswered(q) \/ Studio!MarkAnswered(q)
           \/ Studio!RevokeAnswered(q) \/ Studio!ConfirmAnswered(q)
  BY <1>1 DEF Studio!UploadAnswered, Studio!RenderAnswered, Studio!RestoreAnswered, Studio!OpenAnswered,
     Studio!ProfileAnswered, Studio!AdoptAnswered, Studio!ThemeAnswered, Studio!ActivateAnswered, Studio!MarkAnswered,
     Studio!RevokeAnswered, Studio!ConfirmAnswered, Studio!AppliedOrFailed
<1>2. CASE \/ Studio!DownloadAnswered(q) \/ Studio!VersionsAnswered(q) \/ Studio!ClaimsAnswered(q)
           \/ Studio!DeleteAnswered(q) \/ Studio!RowAnswered(q) \/ Studio!FactsAnswered(q) \/ Studio!AppliedAnswered(q)
  BY <1>2 DEF Studio!DownloadAnswered, Studio!VersionsAnswered, Studio!ClaimsAnswered, Studio!DeleteAnswered,
     Studio!RowAnswered, Studio!FactsAnswered, Studio!AppliedAnswered
<1>3. CASE \/ Studio!RunsAnswered(q) \/ Studio!OptionsAnswered(q) \/ Studio!StartAnswered(q)
           \/ Studio!CancelAnswered(q) \/ Studio!ForgetAnswered(q) \/ Studio!SelectAnswered(q) \/ Studio!PollAnswered(q)
  BY <1>3 DEF Studio!RunsAnswered, Studio!OptionsAnswered, Studio!StartAnswered, Studio!CancelAnswered,
     Studio!ForgetAnswered, Studio!SelectAnswered, Studio!PollAnswered, Studio!Reloads, Studio!ShownAnswer, Studio!AiFailed
<1> QED
  BY <1>1, <1>2, <1>3 DEF Studio!Handlers

LEMMA FactsHandler ==
    ASSUME NEW q, q.op = "facts", Studio!Handlers(q)
    PROVE  Studio!FactsAnswered(q)
BY DEF Studio!Handlers, Studio!UploadAnswered, Studio!RenderAnswered, Studio!RestoreAnswered, Studio!OpenAnswered,
   Studio!ProfileAnswered, Studio!AdoptAnswered, Studio!ThemeAnswered, Studio!ActivateAnswered, Studio!MarkAnswered,
   Studio!RevokeAnswered, Studio!ConfirmAnswered, Studio!DownloadAnswered, Studio!VersionsAnswered,
   Studio!ClaimsAnswered, Studio!DeleteAnswered, Studio!RowAnswered, Studio!AppliedAnswered, Studio!RunsAnswered,
   Studio!OptionsAnswered, Studio!StartAnswered, Studio!CancelAnswered, Studio!ForgetAnswered, Studio!SelectAnswered,
   Studio!PollAnswered

\* Only a handler puts something on the screen.
LEMMA OnlyHandlersShow ==
    ASSUME Studio!Next, ~\E q \in sent : Studio!Handlers(q)
    PROVE  open' = open
<1> USE DEF Studio!importVars
<1>1. CASE \E q \in sent : Studio!Serve(q) \/ Studio!Lose(q)
  BY <1>1 DEF Studio!Serve, Studio!Lose
<1>2. CASE (\E r \in AiRuns : Studio!RunMoves(r)) \/ (\E i \in Imports : Studio!ElsewhereMoves(i))
  BY <1>2 DEF Studio!RunMoves, Studio!ElsewhereMoves
<1>3. CASE \/ \E i \in Imports : Studio!OpenImport(i) \/ Studio!LoadProfileImport(i) \/ Studio!DeleteRow(i)
           \/ Studio!Reload \/ Studio!Upload \/ Studio!LoadVersions \/ Studio!Render \/ Studio!Download
           \/ Studio!MarkAdopted \/ Studio!Revoke \/ Studio!RestoreSnapshot \/ Studio!AddFact
           \/ \E f \in Facts : Studio!SaveFact(f) \/ Studio!DecideFact(f)
  BY <1>3 DEF Studio!OpenImport, Studio!LoadProfileImport, Studio!DeleteRow, Studio!Reload, Studio!Upload,
     Studio!LoadVersions, Studio!Render, Studio!Download, Studio!MarkAdopted, Studio!Revoke, Studio!RestoreSnapshot,
     Studio!AddFact, Studio!SaveFact, Studio!DecideFact, Studio!Mutates, Studio!Asks
<1>4. CASE \/ Studio!LoadAi \/ Studio!StartAi \/ Studio!RetryAi \/ Studio!CancelAi \/ Studio!ForgetAi \/ Studio!Poll
           \/ \E r \in AiRuns : Studio!SelectAi(r)
           \/ Studio!DeleteCurrent \/ Studio!Adopt \/ Studio!SaveTheme \/ Studio!ClearTheme \/ Studio!ConfirmVersion
  BY <1>4 DEF Studio!LoadAi, Studio!StartAi, Studio!RetryAi, Studio!CancelAi, Studio!ForgetAi, Studio!Poll,
     Studio!SelectAi, Studio!DeleteCurrent, Studio!Adopt, Studio!SaveTheme, Studio!ClearTheme, Studio!ConfirmVersion, Studio!Asks
<1>5. CASE \/ \E f \in Facts : Studio!EditFact(f) \/ Studio!ResetFact(f)
           \/ Studio!EditTheme \/ Studio!SelectInstallation
           \/ Studio!Leave \/ Studio!Enter \/ Studio!Tick \/ \E v \in Studio!Readings : Studio!ActivateVersion(v)
  BY <1>5 DEF Studio!EditFact, Studio!ResetFact, Studio!EditTheme, Studio!SelectInstallation, Studio!Leave, Studio!Enter,
     Studio!Tick, Studio!ActivateVersion, Studio!AiClient
<1> QED
  BY <1>1, <1>2, <1>3, <1>4, <1>5 DEF Studio!Next, Studio!FactEdits

LEMMA SavedStays ==
    ASSUME StudioInv, Studio!Next \/ UNCHANGED studioVars
    PROVE  \A q \in sent : q.op = "facts" /\ q \notin sent' => open'.id = open.id
<1> SUFFICES ASSUME NEW q \in sent, q.op = "facts", q \notin sent' PROVE open'.id = open.id
  OBVIOUS
<1>1. CASE UNCHANGED studioVars
  BY <1>1 DEF studioVars
<1>2. ASSUME NEW p \in sent, Studio!Handlers(p) PROVE open'.id = open.id
  <2>1. p = q
    BY <1>2, HandlersKeep
  <2>2. Studio!Handlers(q)
    BY <1>2, <2>1
  <2> QED
    BY <2>2, FactsHandler, FactsStay
<1>3. CASE Studio!Next /\ ~\E p \in sent : Studio!Handlers(p)
  BY <1>3, OnlyHandlersShow
<1> QED
  BY <1>1, <1>2, <1>3

LEMMA StudioSays == StudioInv => Studio!TickedIsSent /\ Studio!BoundToShown /\ Studio!WaitsForAnswer
BY DEF StudioInv, StudioRequest, Studio!TickedIsSent

-----------------------------------------------------------------------------
(* The agent center: what a request carries, what its answer is, and what was confirmed *)

ConfirmationNames == {"answer", "cancel", "conflict", "recovery", "profile", "optIn", "fix"}

IsProfile(p) == p = [at |-> p.at, rule |-> p.rule, codex |-> p.codex]

\* An orchestration carries its own id.
FlowOf(record, f) == record = Center!Nothing \/ record = [id |-> f, at |-> record.at, open |-> record.open]

CenterAnswer(q) ==
    /\ q.op = "flows" => \A f \in Flows : FlowOf(q.ans[f], f)
    /\ q.op \in {"loadProfile", "saveProfile", "fixProfile"} => IsProfile(q.ans)
    /\ q.op = "preflight" /\ q.ans.ready => q.arg.of \in cleared

CenterRequest(q) ==
    /\ q = [op |-> q.op, arg |-> q.arg, meant |-> q.meant, is |-> q.is, ans |-> q.ans]
    /\ q.is \in {"sent", "answered", "refused", "lost"}
    /\ q.meant # Center!Nothing /\ q.op # "fixProfile" => q.arg = q.meant
    /\ q.op = "createRun" => q.arg \in cleared
    /\ q.is = "answered" => CenterAnswer(q)

ServerTrue ==
    /\ flows = [f \in Flows |-> flows[f]] /\ \A f \in Flows : FlowOf(flows[f], f)
    /\ IsProfile(profile)

\* What is confirmed is on the screen.
FlowConfirmed ==
    Center!Is(flow) => \A t \in Center!FlowTicks : confirmations[t] \in {Center!Nothing, Center!OnFlow(t)}
RecoveryConfirmed == confirmations["recovery"] \in {Center!Nothing, question}
ProfileConfirmed ==
    /\ view = Center!NoProfile \/ IsProfile(view)
    /\ view # Center!NoProfile => confirmations["profile"] \in {Center!Nothing, Center!OnScreen}

\* What the form calls ready has been found so.
CheckTrue ==
    /\ check = [of |-> check.of, ready |-> check.ready, revision |-> check.revision, timer |-> check.timer]
    /\ check.ready => check.of \in cleared

RequestsTrue == \A q \in under : CenterRequest(q)
ConfirmationsAre == confirmations = [t \in ConfirmationNames |-> confirmations[t]]
FlagsTrue == flags \subseteq Center!Flags /\ Center!BusyMeansWaiting

CenterInv ==
    /\ RequestsTrue
    /\ ServerTrue
    /\ ConfirmationsAre /\ FlowConfirmed /\ RecoveryConfirmed /\ ProfileConfirmed
    /\ CheckTrue
    /\ FlagsTrue

LEMMA CenterInit == Center!Init => CenterInv
<1> SUFFICES ASSUME Center!Init PROVE CenterInv
  OBVIOUS
<1>1. RequestsTrue /\ FlagsTrue
  BY DEF Center!Init, RequestsTrue, FlagsTrue, Center!BusyMeansWaiting
<1>2. ServerTrue
  <2>1. flows = [f \in Flows |-> flows[f]]
    BY DEF Center!Init
  <2>2. ASSUME NEW f \in Flows PROVE FlowOf(flows[f], f)
    <3>1. flows[f] \in {Center!Nothing} \cup {Center!NewFlow(g) : g \in Flows} /\ flows[f].id \in {f, Center!None}
      BY DEF Center!Init
    <3>2. CASE flows[f] = Center!Nothing
      BY <3>2 DEF FlowOf
    <3>3. ASSUME NEW g \in Flows, flows[f] = Center!NewFlow(g) PROVE FlowOf(flows[f], f)
      <4>1. flows[f] = [id |-> g, at |-> 1, open |-> {"answer"}]
        BY <3>3 DEF Center!NewFlow
      <4>2. g = f
        BY <3>1, <4>1, FlowsAssumption DEF Center!Nothing
      <4> QED
        BY <4>1, <4>2 DEF FlowOf
    <3> QED
      BY <3>1, <3>2, <3>3
  <2>3. PICK i \in Installations : profile = [at |-> 1, rule |-> i, codex |-> FALSE]
    BY DEF Center!Init
  <2>4. IsProfile(profile)
    BY <2>3 DEF IsProfile
  <2> QED
    BY <2>1, <2>2, <2>4 DEF ServerTrue
<1>3. ConfirmationsAre /\ FlowConfirmed /\ RecoveryConfirmed /\ ProfileConfirmed
  BY DEF Center!Init, Center!NoTicks, ConfirmationsAre, ConfirmationNames, FlowConfirmed, RecoveryConfirmed,
     ProfileConfirmed, Center!Is
<1>4. CheckTrue
  BY DEF Center!Init, Center!NoCheck, CheckTrue
<1> QED
  BY <1>1, <1>2, <1>3, <1>4 DEF CenterInv

-----------------------------------------------------------------------------
(* The agent center: what stays *)

LEMMA CenterRequestStays ==
    ASSUME NEW q, CenterRequest(q), cleared \subseteq cleared'
    PROVE  CenterRequest(q)'
BY DEF CenterRequest, CenterAnswer

LEMMA ServerStays == ServerTrue /\ UNCHANGED <<flows, profile>> => ServerTrue'
BY DEF ServerTrue, FlowOf, IsProfile

LEMMA CheckStays == CheckTrue /\ check' = check /\ cleared \subseteq cleared' => CheckTrue'
BY DEF CheckTrue

\* Confirmations are taken back, and what they were given for stays on the screen.
LEMMA ConfirmedStays ==
    ASSUME CenterInv, ConfirmationsAre',
           \A t \in ConfirmationNames : confirmations'[t] \in {Center!Nothing, confirmations[t]}
    PROVE  /\ UNCHANGED <<flow, choice>> => FlowConfirmed'
           /\ question' = question => RecoveryConfirmed'
           /\ UNCHANGED <<view, form>> => ProfileConfirmed'
<1>1. ASSUME UNCHANGED <<flow, choice>> PROVE FlowConfirmed'
  <2>1. \A t : Center!OnFlow(t)' = Center!OnFlow(t)
    BY <1>1 DEF Center!OnFlow
  <2>2. Center!FlowTicks \subseteq ConfirmationNames
    BY DEF Center!FlowTicks, ConfirmationNames
  <2>3. Center!Is(flow)' => Center!Is(flow)
    BY <1>1 DEF Center!Is
  <2> QED
    BY <2>1, <2>2, <2>3 DEF CenterInv, FlowConfirmed
<1>2. ASSUME question' = question PROVE RecoveryConfirmed'
  BY <1>2 DEF CenterInv, RecoveryConfirmed, ConfirmationNames
<1>3. ASSUME UNCHANGED <<view, form>> PROVE ProfileConfirmed'
  BY <1>3 DEF CenterInv, ProfileConfirmed, ConfirmationNames, Center!OnScreen, IsProfile
<1> QED
  BY <1>1, <1>2, <1>3

LEMMA ConfirmationsStay ==
    ASSUME CenterInv, confirmations' = confirmations
    PROVE  ConfirmationsAre' /\ \A t \in ConfirmationNames : confirmations'[t] \in {Center!Nothing, confirmations[t]}
BY DEF CenterInv, ConfirmationsAre

LEMMA UntickedAre ==
    ASSUME CenterInv, NEW set, Center!Untick(set)
    PROVE  /\ ConfirmationsAre'
           /\ \A t \in ConfirmationNames : confirmations'[t] = IF t \in set THEN Center!Nothing ELSE confirmations[t]
BY DEF CenterInv, ConfirmationsAre, Center!Untick

\* What the properties are about stays on the screen and on the server.
CenterScreen == <<flows, profile, cleared, question, flow, choice, view, form, check, confirmations>>

LEMMA CenterQuiet ==
    ASSUME CenterInv, UNCHANGED CenterScreen, RequestsTrue', FlagsTrue'
    PROVE  CenterInv'
<1>1. UNCHANGED <<flows, profile>> /\ UNCHANGED <<flow, choice>> /\ UNCHANGED <<view, form>>
      /\ question' = question /\ check' = check /\ cleared' = cleared /\ confirmations' = confirmations
  BY DEF CenterScreen
<1>2. ConfirmationsAre' /\ FlowConfirmed' /\ RecoveryConfirmed' /\ ProfileConfirmed'
  BY <1>1, ConfirmationsStay, ConfirmedStays
<1>3. ServerTrue' /\ CheckTrue'
  BY <1>1, ServerStays, CheckStays DEF CenterInv
<1> QED
  BY <1>2, <1>3 DEF CenterInv

-----------------------------------------------------------------------------
(* The agent center: what is started for *)

LEMMA CenterOrder ==
    ASSUME NEW op, NEW arg, NEW meant, meant # Center!Nothing /\ op # "fixProfile" => arg = meant,
           op = "createRun" => arg \in cleared
    PROVE  CenterRequest(Center!Order(op, arg, meant))
BY DEF CenterRequest, Center!Order

LEMMA CenterAsk ==
    ASSUME NEW op, NEW arg, op # "createRun"
    PROVE  CenterRequest(Center!Ask(op, arg))
BY CenterOrder DEF Center!Ask

LEMMA RefreshesAre ==
    ASSUME NEW now, NEW id
    PROVE  /\ \A q \in Center!RefreshRuns(now) : CenterRequest(q)
           /\ \A q \in Center!RefreshFlows(now) : CenterRequest(q)
           /\ \A q \in Center!RefreshShown(id) : CenterRequest(q)
BY CenterAsk DEF Center!RefreshRuns, Center!RefreshFlows, Center!RefreshShown

\* A flag is set for a request that clears it.
Awaited(started, set) == \A f \in set : f \in Center!Flags /\ \E q \in started : q.op \in Center!ClearedBy[f]

LEMMA PollsAwaited == \A started : Awaited(started, Center!Polls(started))
BY DEF Awaited, Center!Polls, Center!Flags, Center!ClearedBy

LEMMA FlagsStarted ==
    ASSUME CenterInv, NEW started, NEW set, Awaited(started, set), Center!Start(started, set)
    PROVE  FlagsTrue'
BY PollsAwaited DEF CenterInv, FlagsTrue, Center!BusyMeansWaiting, Center!Start, Awaited

LEMMA FlagsFinished ==
    ASSUME CenterInv, NEW q \in under, NEW started, NEW set, Awaited(started, set), Center!Finish(q, started, set)
    PROVE  FlagsTrue'
<1>1. ASSUME NEW f \in Center!Left(q) PROVE \E r \in under' : r.op \in Center!ClearedBy[f]
  <2>1. f \in flags /\ f \in Center!Flags /\ q.op \notin Center!ClearedBy[f]
    BY <1>1 DEF CenterInv, FlagsTrue, Center!Left
  <2>2. PICK r \in under : r.op \in Center!ClearedBy[f]
    BY <2>1 DEF CenterInv, FlagsTrue, Center!BusyMeansWaiting
  <2>3. r # q
    BY <2>1, <2>2
  <2> QED
    BY <2>2, <2>3 DEF Center!Finish
<1>2. ASSUME NEW f \in Center!Polls(started) \cup set
      PROVE  f \in Center!Flags /\ \E r \in under' : r.op \in Center!ClearedBy[f]
  BY <1>2, PollsAwaited DEF Awaited, Center!Finish
<1>3. flags' = Center!Left(q) \cup (Center!Polls(started) \cup set) /\ Center!Left(q) \subseteq Center!Flags
  BY DEF Center!Finish, Center!Left, CenterInv, FlagsTrue
<1> QED
  BY <1>1, <1>2, <1>3 DEF FlagsTrue, Center!BusyMeansWaiting

LEMMA RequestsStarted ==
    ASSUME CenterInv, cleared' = cleared, NEW started, \A q \in started : CenterRequest(q), under' = under \cup started
    PROVE  RequestsTrue'
<1>1. \A q \in under' : CenterRequest(q)
  BY DEF CenterInv, RequestsTrue
<1>2. \A q \in under' : CenterRequest(q)'
  BY <1>1, CenterRequestStays
<1> QED
  BY <1>2 DEF RequestsTrue

LEMMA RequestsFinished ==
    ASSUME CenterInv, cleared' = cleared, NEW q, NEW started, \A p \in started : CenterRequest(p),
           under' = (under \ {q}) \cup started
    PROVE  RequestsTrue'
<1>1. \A p \in under' : CenterRequest(p)
  BY DEF CenterInv, RequestsTrue
<1>2. \A p \in under' : CenterRequest(p)'
  BY <1>1, CenterRequestStays
<1> QED
  BY <1>2 DEF RequestsTrue

LEMMA CenterAsks ==
    ASSUME CenterInv, UNCHANGED CenterScreen, NEW started, NEW set, \A q \in started : CenterRequest(q), Awaited(started, set),
           Center!Start(started, set)
    PROVE  CenterInv'
<1>1. cleared' = cleared /\ under' = under \cup started
  BY DEF CenterScreen, Center!Start
<1> QED
  BY <1>1, RequestsStarted, FlagsStarted, CenterQuiet

LEMMA CenterEnds ==
    ASSUME CenterInv, UNCHANGED CenterScreen, NEW q \in under, NEW started, NEW set, \A p \in started : CenterRequest(p),
           Awaited(started, set), Center!Finish(q, started, set)
    PROVE  CenterInv'
<1>1. cleared' = cleared /\ under' = (under \ {q}) \cup started
  BY DEF CenterScreen, Center!Finish
<1> QED
  BY <1>1, RequestsFinished, FlagsFinished, CenterQuiet

-----------------------------------------------------------------------------
(* The server of the agent center *)

\* What the user sees and the flags stay.
CenterClient == <<question, flow, choice, view, form, check, confirmations, flags>>

LEMMA ServedAre ==
    ASSUME CenterInv, UNCHANGED CenterClient, NEW q \in under, NEW p, CenterRequest(p)', p.op = q.op,
           under' = (under \ {q}) \cup {p}, cleared \subseteq cleared', ServerTrue'
    PROVE  CenterInv'
<1>1. \A r \in under' : CenterRequest(r)'
  BY CenterRequestStays DEF CenterInv, RequestsTrue
<1>2. UNCHANGED <<flow, choice>> /\ UNCHANGED <<view, form>> /\ question' = question /\ check' = check
      /\ confirmations' = confirmations /\ flags' = flags
  BY DEF CenterClient
<1>3. ConfirmationsAre' /\ FlowConfirmed' /\ RecoveryConfirmed' /\ ProfileConfirmed'
  BY <1>2, ConfirmationsStay, ConfirmedStays
<1>4. CheckTrue'
  BY <1>2, CheckStays DEF CenterInv
<1>5. ASSUME NEW f \in flags PROVE \E r \in under' : r.op \in Center!ClearedBy[f]
  <2>1. PICK r \in under : r.op \in Center!ClearedBy[f]
    BY DEF CenterInv, FlagsTrue, Center!BusyMeansWaiting
  <2>2. CASE r = q
    BY <2>1, <2>2
  <2>3. CASE r # q
    BY <2>1, <2>3
  <2> QED
    BY <2>2, <2>3
<1>6. FlagsTrue'
  BY <1>2, <1>5 DEF CenterInv, FlagsTrue, Center!BusyMeansWaiting
<1> QED
  BY <1>1, <1>3, <1>4, <1>6 DEF CenterInv, RequestsTrue

LEMMA AnsweredIs ==
    ASSUME NEW q, CenterRequest(q), cleared \subseteq cleared', NEW is \in {"answered", "refused", "lost"}, NEW value,
           NEW p, p = [op |-> q.op, arg |-> q.arg, meant |-> q.meant, is |-> is, ans |-> value],
           is = "answered" => CenterAnswer(p)'
    PROVE  CenterRequest(p)' /\ p.op = q.op
BY DEF CenterRequest

\* What an answer of the server says.
Says(q, value) ==
    /\ q.op = "flows" => \A f \in Flows : FlowOf(value[f], f)
    /\ q.op \in {"loadProfile", "saveProfile", "fixProfile"} => IsProfile(value)
    /\ q.op = "preflight" /\ value.ready => q.arg.of \in cleared

LEMMA CenterAnswers ==
    ASSUME CenterInv, UNCHANGED CenterClient, NEW q \in under, NEW ok, NEW value, Center!Answer(q, ok, value),
           ok => Says(q, value)', cleared \subseteq cleared', ServerTrue'
    PROVE  CenterInv'
<1> DEFINE is == IF ok THEN "answered" ELSE "refused"
           ans == IF ok THEN value ELSE Center!Nothing
           p == [q EXCEPT !.is = is, !.ans = ans]
<1>1. CenterRequest(q)
  BY DEF CenterInv, RequestsTrue
<1>2. under' = (under \ {q}) \cup {p}
  BY DEF Center!Answer
<1>3. is \in {"answered", "refused", "lost"} /\ (is = "answered" => Says(q, ans)')
  OBVIOUS
<1> HIDE DEF is, ans
<1>4. p = [op |-> q.op, arg |-> q.arg, meant |-> q.meant, is |-> is, ans |-> ans]
  <2>1. p = [[q EXCEPT !.is = is] EXCEPT !.ans = ans]
    OBVIOUS
  <2>2. [q EXCEPT !.is = is] = [op |-> q.op, arg |-> q.arg, meant |-> q.meant, is |-> is, ans |-> q.ans]
    BY <1>1 DEF CenterRequest
  <2> HIDE DEF p
  <2> QED
    BY <2>1, <2>2
<1> HIDE DEF p
<1>5. is = "answered" => CenterAnswer(p)'
  BY <1>3, <1>4 DEF CenterAnswer, Says
<1>6. CenterRequest(p)' /\ p.op = q.op
  BY <1>1, <1>3, <1>4, <1>5, AnsweredIs
<1> QED
  BY <1>2, <1>6, ServedAre

\* An orchestration keeps its id, whatever is changed of it.
LEMMA FlowChanges ==
    ASSUME NEW fs, fs = [f \in Flows |-> fs[f]], \A f \in Flows : FlowOf(fs[f], f), NEW i, NEW x, NEW gs,
           gs = [fs EXCEPT ![i].at = x] \/ gs = [fs EXCEPT ![i].open = x]
    PROVE  gs = [f \in Flows |-> gs[f]] /\ \A f \in Flows : FlowOf(gs[f], f)
<1>1. gs = [f \in Flows |-> gs[f]]
  OBVIOUS
<1>2. ASSUME NEW f \in Flows PROVE FlowOf(gs[f], f)
  <2>1. gs[f] = fs[f] \/ gs[f] = [fs[f] EXCEPT !.at = x] \/ gs[f] = [fs[f] EXCEPT !.open = x]
    OBVIOUS
  <2>2. CASE fs[f] = Center!Nothing
    <3>1. [Center!Nothing EXCEPT !.at = x] = Center!Nothing /\ [Center!Nothing EXCEPT !.open = x] = Center!Nothing
      BY DEF Center!Nothing
    <3> QED
      BY <2>1, <2>2, <3>1 DEF FlowOf
  <2>3. CASE fs[f] = [id |-> f, at |-> fs[f].at, open |-> fs[f].open]
    <3>1. /\ [fs[f] EXCEPT !.at = x] = [id |-> f, at |-> x, open |-> fs[f].open]
          /\ [fs[f] EXCEPT !.open = x] = [id |-> f, at |-> fs[f].at, open |-> x]
      BY <2>3
    <3> QED
      BY <2>1, <2>3, <3>1 DEF FlowOf
  <2> QED
    BY <2>2, <2>3 DEF FlowOf
<1> QED
  BY <1>1, <1>2

LEMMA CenterReads ==
    ASSUME CenterInv, UNCHANGED CenterClient, NEW q \in under, Center!ServeRead(q)
    PROVE  CenterInv'
<1>1. UNCHANGED <<flows, profile>> /\ cleared \subseteq cleared'
  BY DEF Center!ServeRead
<1>2. ServerTrue'
  BY <1>1, ServerStays DEF CenterInv
<1>3. PICK value : /\ Center!Answer(q, TRUE, value)
                   /\ q.op = "flows" => value = flows
                   /\ q.op = "loadProfile" => value = profile
                   /\ q.op = "preflight" => value = Center!ServePreflight(q.arg.of)
                   /\ q.op \in Center!Reads
  BY DEF Center!ServeRead, Center!ReadFlows, Center!ReadProfile
<1>4. Says(q, value)'
  <2>1. q.op = "flows" => \A f \in Flows : FlowOf(value[f], f)
    BY <1>3 DEF CenterInv, ServerTrue
  <2>2. q.op \in {"loadProfile", "saveProfile", "fixProfile"} => IsProfile(value)
    BY <1>3 DEF CenterInv, ServerTrue, Center!Reads
  <2>3. q.op = "preflight" /\ value.ready => q.arg.of \in cleared'
    BY <1>3 DEF Center!ServeRead
  <2> QED
    BY <2>1, <2>2, <2>3 DEF Says
<1> QED
  BY <1>1, <1>2, <1>3, <1>4, CenterAnswers

LEMMA CenterServes ==
    ASSUME CenterInv, UNCHANGED CenterClient, NEW q \in under, Center!ServeOrder(q)
    PROVE  CenterInv'
<1>1. cleared \subseteq cleared'
  BY DEF Center!ServeOrder, Center!OverRuns, Center!OverFlows, Center!serverVars
<1>2. ASSUME NEW ok, NEW value, Center!Answer(q, ok, value), ServerTrue',
             q.op \notin {"flows", "loadProfile", "saveProfile", "fixProfile", "preflight"}
      PROVE  CenterInv'
  <2>1. Says(q, value)'
    BY <1>2 DEF Says
  <2> QED
    BY <1>1, <1>2, <2>1, CenterAnswers
<1>3. CASE q.op \in {"cancelRun", "acquire", "resolve", "createRun", "approveVersion"}
  <2>1. UNCHANGED <<flows, profile>>
    BY <1>3 DEF Center!ServeOrder, Center!OverRuns, Center!serverVars
  <2>2. ServerTrue'
    BY <2>1, ServerStays DEF CenterInv
  <2>3. \E ok, value : Center!Answer(q, ok, value)
    BY <1>3 DEF Center!ServeOrder, Center!OverRuns
  <2> QED
    BY <1>2, <1>3, <2>2, <2>3
<1>4. CASE q.op \in {"continue", "cancelFlow", "conflict"}
  <2>1. PICK s : s \in {Center!ServeContinue(q.arg), Center!ServeCancelFlow(q.arg), Center!ServeConflict(q.arg)}
                 /\ Center!OverFlows(q, s)
    BY <1>4 DEF Center!ServeOrder
  <2>2. flows' = s.flows /\ profile' = profile /\ Center!Answer(q, s.ok, s.flows[q.arg.id])
    BY <2>1 DEF Center!OverFlows
  <2>3. s.flows = flows \/ \E gs, x, y : gs = [flows EXCEPT ![q.arg.id].at = x] /\ s.flows = [gs EXCEPT ![q.arg.id].open = y]
    <3> DEFINE i == q.arg.id
               gs == [flows EXCEPT ![i].at = @ + 1]
    <3>1. CASE s = Center!ServeContinue(q.arg)
      <4>1. s.flows = flows \/ s.flows = [gs EXCEPT ![i].open = @ \ {"answer"}]
        BY <3>1 DEF Center!ServeContinue
      <4> QED
        BY <4>1
    <3>2. CASE s = Center!ServeCancelFlow(q.arg)
      <4>1. s.flows = flows \/ s.flows = [gs EXCEPT ![i].open = {}]
        BY <3>2 DEF Center!ServeCancelFlow
      <4> QED
        BY <4>1
    <3>3. CASE s = Center!ServeConflict(q.arg)
      <4>1. s.flows = flows \/ s.flows = [gs EXCEPT ![i].open = @ \ {"conflict"}]
        BY <3>3 DEF Center!ServeConflict
      <4> QED
        BY <4>1
    <3> QED
      BY <2>1, <3>1, <3>2, <3>3
  <2>4. flows' = [f \in Flows |-> flows'[f]] /\ \A f \in Flows : FlowOf(flows'[f], f)
    <3>1. CASE s.flows = flows
      BY <2>2, <3>1 DEF CenterInv, ServerTrue
    <3>2. ASSUME NEW gs, NEW x, NEW y, gs = [flows EXCEPT ![q.arg.id].at = x], s.flows = [gs EXCEPT ![q.arg.id].open = y]
          PROVE  flows' = [f \in Flows |-> flows'[f]] /\ \A f \in Flows : FlowOf(flows'[f], f)
      <4>1. gs = [f \in Flows |-> gs[f]] /\ \A f \in Flows : FlowOf(gs[f], f)
        BY <3>2, FlowChanges DEF CenterInv, ServerTrue
      <4>2. \A hs : hs = [gs EXCEPT ![q.arg.id].open = y]
                    => hs = [f \in Flows |-> hs[f]] /\ \A f \in Flows : FlowOf(hs[f], f)
        <5> SUFFICES ASSUME NEW hs, hs = [gs EXCEPT ![q.arg.id].open = y]
                     PROVE  hs = [f \in Flows |-> hs[f]] /\ \A f \in Flows : FlowOf(hs[f], f)
          OBVIOUS
        <5> QED
          BY <4>1, FlowChanges
      <4> QED
        BY <2>2, <3>2, <4>2
    <3> QED
      BY <2>3, <3>1, <3>2
  <2>5. ServerTrue'
    BY <2>2, <2>4 DEF CenterInv, ServerTrue, FlowOf, IsProfile
  <2> QED
    BY <1>2, <1>4, <2>2, <2>5
<1>5. CASE q.op \in {"saveProfile", "fixProfile"}
  <2>1. PICK s : s = Center!ServeSave(q.arg) /\ profile' = s.profile /\ Center!Answer(q, s.ok, s.profile) /\ flows' = flows
    BY <1>5 DEF Center!ServeOrder
  <2>2. IsProfile(s.profile)
    BY <2>1 DEF Center!ServeSave, CenterInv, ServerTrue, IsProfile
  <2>3. ServerTrue'
    BY <2>1, <2>2 DEF CenterInv, ServerTrue, IsProfile, FlowOf
  <2>4. Says(q, s.profile)'
    BY <1>5, <2>2 DEF Says, IsProfile
  <2> QED
    BY <1>1, <2>1, <2>3, <2>4, CenterAnswers
<1>6. CASE q.op = "createFlow"
  <2>1. profile' = profile /\ \E ok, value : Center!Answer(q, ok, value)
    BY <1>6 DEF Center!ServeOrder
  <2>2. flows' = flows \/ \E f \in Flows : flows' = [flows EXCEPT ![f] = Center!NewFlow(f)]
    BY <1>6 DEF Center!ServeOrder, Center!FreshFlows
  <2>3. flows' = [f \in Flows |-> flows'[f]] /\ \A f \in Flows : FlowOf(flows'[f], f)
    BY <2>2 DEF CenterInv, ServerTrue, FlowOf, Center!NewFlow
  <2>4. ServerTrue'
    BY <2>1, <2>3 DEF CenterInv, ServerTrue, IsProfile, FlowOf
  <2> QED
    BY <1>2, <1>6, <2>1, <2>4
<1> QED
  BY <1>3, <1>4, <1>5, <1>6 DEF Center!ServeOrder

LEMMA CenterAnswered ==
    ASSUME CenterInv, NEW q \in under, Center!Serve(q) \/ Center!Lose(q)
    PROVE  CenterInv'
<1>1. UNCHANGED CenterClient
  BY DEF Center!Serve, Center!Lose, Center!recoveryVars, Center!flowVars, Center!profileVars, Center!formVars, CenterClient
<1>2. CASE Center!Serve(q)
  BY <1>1, <1>2, CenterReads, CenterServes DEF Center!Serve
<1>3. CASE Center!Lose(q)
  <2> DEFINE p == [q EXCEPT !.is = "lost", !.ans = Center!Nothing]
  <2>1. CenterRequest(q)
    BY DEF CenterInv, RequestsTrue
  <2>2. p = [op |-> q.op, arg |-> q.arg, meant |-> q.meant, is |-> "lost", ans |-> Center!Nothing]
    <3>1. p = [[q EXCEPT !.is = "lost"] EXCEPT !.ans = Center!Nothing]
      OBVIOUS
    <3>2. [q EXCEPT !.is = "lost"] = [op |-> q.op, arg |-> q.arg, meant |-> q.meant, is |-> "lost", ans |-> q.ans]
      BY <2>1 DEF CenterRequest
    <3> HIDE DEF p
    <3> QED
      BY <3>1, <3>2
  <2>3. under' = (under \ {q}) \cup {p} /\ UNCHANGED <<flows, profile>> /\ cleared' = cleared
    BY <1>3 DEF Center!Lose, Center!serverVars
  <2> HIDE DEF p
  <2>4. CenterRequest(p)' /\ p.op = q.op
    BY <2>1, <2>2, <2>3, AnsweredIs
  <2>5. ServerTrue'
    BY <2>3, ServerStays DEF CenterInv
  <2> QED
    BY <1>1, <2>3, <2>4, <2>5, ServedAre
<1> QED
  BY <1>2, <1>3

\* Runs, leases and orchestrations move on, and another window saves the profile.
LEMMA CenterMoves ==
    ASSUME CenterInv, Center!ServerMoves
    PROVE  CenterInv'
<1>1. UNCHANGED CenterClient /\ under' = under /\ cleared' = cleared
  BY DEF Center!ServerMoves, Center!ProfileMoves, Center!RunMoves, Center!LeaseMoves, Center!FlowMoves,
     Center!recoveryVars, Center!flowVars, Center!profileVars, Center!formVars, CenterClient
<1>2. ServerTrue'
  <2>1. CASE UNCHANGED <<flows, profile>>
    BY <2>1, ServerStays DEF CenterInv
  <2>2. CASE Center!ProfileMoves
    <3>1. flows' = flows /\ \E i \in Installations : profile' = [profile EXCEPT !.at = @ + 1, !.rule = i]
      BY <2>2 DEF Center!ProfileMoves
    <3>2. PICK i, s, z : /\ i \in Installations /\ s = [profile EXCEPT !.at = @ + 1] /\ z = [s EXCEPT !.rule = i]
                        /\ profile' = z
      BY <3>1
    <3>3. s = [at |-> profile.at + 1, rule |-> profile.rule, codex |-> profile.codex]
      BY <3>2 DEF CenterInv, ServerTrue, IsProfile
    <3>4. z = [at |-> profile.at + 1, rule |-> i, codex |-> profile.codex]
      BY <3>2, <3>3
    <3> QED
      BY <3>1, <3>2, <3>4 DEF CenterInv, ServerTrue, IsProfile, FlowOf
  <2>3. ASSUME NEW f \in Flows, Center!FlowMoves(f) PROVE ServerTrue'
    <3>1. profile' = profile /\ \E at, open_ : flows' = [flows EXCEPT ![f] = [id |-> f, at |-> at, open |-> open_]]
      BY <2>3 DEF Center!FlowMoves
    <3> QED
      BY <3>1 DEF CenterInv, ServerTrue, IsProfile, FlowOf
  <2> QED
    BY <2>1, <2>2, <2>3 DEF Center!ServerMoves, Center!RunMoves, Center!LeaseMoves
<1>3. UNCHANGED <<flow, choice>> /\ UNCHANGED <<view, form>> /\ question' = question /\ check' = check
      /\ confirmations' = confirmations /\ flags' = flags
  BY <1>1 DEF CenterClient
<1>4. ConfirmationsAre' /\ FlowConfirmed' /\ RecoveryConfirmed' /\ ProfileConfirmed'
  BY <1>3, ConfirmationsStay, ConfirmedStays
<1>5. \A r \in under' : CenterRequest(r)'
  BY <1>1, CenterRequestStays DEF CenterInv, RequestsTrue
<1>6. FlagsTrue' /\ CheckTrue'
  BY <1>1, <1>3, CheckStays DEF CenterInv, FlagsTrue, Center!BusyMeansWaiting
<1> QED
  BY <1>2, <1>4, <1>5, <1>6 DEF CenterInv, RequestsTrue

-----------------------------------------------------------------------------
(* The client of the agent center: runs, orders, and what is only started for *)

LEMMA OneAwaited == \A q, f : f \in Center!Flags /\ q.op \in Center!ClearedBy[f] => Awaited({q}, {f})
BY DEF Awaited

LEMMA NoneAwaited == \A started : Awaited(started, {})
BY DEF Awaited

LEMMA ServerKept == Center!Client => UNCHANGED <<flows, profile, cleared>>
BY DEF Center!Client, Center!serverVars

LEMMA CenterStarted ==
    ASSUME CenterInv, cleared' = cleared, NEW started, NEW set, \A q \in started : CenterRequest(q), Awaited(started, set),
           Center!Start(started, set)
    PROVE  RequestsTrue' /\ FlagsTrue'
BY RequestsStarted, FlagsStarted DEF Center!Start

LEMMA CenterFinished ==
    ASSUME CenterInv, cleared' = cleared, NEW q \in under, NEW started, NEW set, \A p \in started : CenterRequest(p),
           Awaited(started, set), Center!Finish(q, started, set)
    PROVE  RequestsTrue' /\ FlagsTrue'
BY RequestsFinished, FlagsFinished DEF Center!Finish

LEMMA CenterIdle ==
    ASSUME CenterInv, UNCHANGED <<under, flags, cleared>>
    PROVE  RequestsTrue' /\ FlagsTrue'
<1>1. \A q \in under' : CenterRequest(q)'
  BY CenterRequestStays DEF CenterInv, RequestsTrue
<1> QED
  BY <1>1 DEF CenterInv, RequestsTrue, FlagsTrue, Center!BusyMeansWaiting

\* Nothing of what the properties are about is touched.
CenterForms == <<question, flow, choice, view, form, check, confirmations>>

LEMMA ClientLooks ==
    ASSUME CenterInv,
           \/ Center!Poll \/ Center!OpenPage \/ Center!StreamEvent \/ Center!StreamFails
           \/ (\E r \in Runs : Center!SelectRun(r) \/ Center!Acquire(r)) \/ Center!CancelRun
           \/ (\E f \in Flows : Center!SelectFlow(f)) \/ Center!CreateFlow
           \/ Center!LoadProfile \/ Center!ApproveVersion \/ Center!LoadProviders
           \/ \E i \in Installations : Center!Pick(i)
    PROVE  CenterInv'
<1>1. UNCHANGED CenterScreen
  <2>1. UNCHANGED <<flows, profile, cleared>>
    BY ServerKept DEF Center!Poll, Center!OpenPage, Center!StreamEvent, Center!StreamFails, Center!SelectRun,
       Center!Acquire, Center!CancelRun, Center!SelectFlow, Center!CreateFlow, Center!LoadProfile, Center!ApproveVersion,
       Center!LoadProviders, Center!Pick, Center!FlowClient, Center!ProfileClient, Center!DraftClient, Center!serverVars
  <2>2. UNCHANGED CenterForms
    BY DEF CenterForms, Center!recoveryVars, Center!flowVars, Center!profileVars, Center!formVars,
       Center!Poll, Center!OpenPage, Center!StreamEvent, Center!StreamFails, Center!SelectRun,
       Center!Acquire, Center!CancelRun, Center!SelectFlow, Center!CreateFlow, Center!LoadProfile, Center!ApproveVersion,
       Center!LoadProviders, Center!Pick, Center!FlowClient, Center!ProfileClient, Center!DraftClient
  <2> QED
    BY <2>1, <2>2 DEF CenterForms, CenterScreen
<1>2. ASSUME NEW started, Center!Start(started, {}), \A q \in started : CenterRequest(q) PROVE CenterInv'
  BY <1>1, <1>2, NoneAwaited, CenterAsks
<1>3. ASSUME NEW op, NEW arg, NEW f, f \in Center!Flags, op \in Center!ClearedBy[f], op # "createRun",
             Center!Start({Center!Ask(op, arg)}, {f})
      PROVE  CenterInv'
  <2>1. Center!Ask(op, arg).op = op
    BY DEF Center!Ask, Center!Order
  <2>2. Awaited({Center!Ask(op, arg)}, {f}) /\ \A q \in {Center!Ask(op, arg)} : CenterRequest(q)
    BY <1>3, <2>1, OneAwaited, CenterAsk
  <2> QED
    BY <1>1, <1>3, <2>2, CenterAsks
<1>4. CASE Center!Poll \/ Center!OpenPage \/ Center!StreamEvent
  <2>1. CASE UNCHANGED <<under, flags>>
    <3>1. cleared' = cleared
      BY <1>1 DEF CenterScreen
    <3> QED
      BY <1>1, <2>1, <3>1, CenterIdle, CenterQuiet
  <2>2. (\E started : Center!Start(started, {}) /\ \A q \in started : CenterRequest(q)) \/ UNCHANGED <<under, flags>>
    BY <1>4, RefreshesAre DEF Center!Poll, Center!OpenPage, Center!StreamEvent
  <2> QED
    BY <1>2, <2>1, <2>2
<1>5. CASE Center!StreamFails \/ \E i \in Installations : Center!Pick(i)
  <2>1. UNCHANGED <<under, flags, cleared>>
    BY <1>1, <1>5 DEF Center!StreamFails, Center!Pick, CenterScreen
  <2> QED
    BY <1>1, <2>1, CenterIdle, CenterQuiet
<1>6. CASE (\E r \in Runs : Center!SelectRun(r)) \/ \E f \in Flows : Center!SelectFlow(f)
  <2>1. \E started : Center!Start(started, {}) /\ \A q \in started : CenterRequest(q)
    <3>1. CASE \E r \in Runs : Center!SelectRun(r)
      BY <3>1, RefreshesAre DEF Center!SelectRun
    <3>2. ASSUME NEW f \in Flows, Center!SelectFlow(f)
          PROVE  \E started : Center!Start(started, {}) /\ \A q \in started : CenterRequest(q)
      <4>1. Center!Start({Center!Ask("flow", [id |-> f])}, {}) /\ CenterRequest(Center!Ask("flow", [id |-> f]))
        BY <3>2, CenterAsk DEF Center!SelectFlow
      <4> QED
        BY <4>1
    <3> QED
      BY <1>6, <3>1, <3>2
  <2> QED
    BY <1>2, <2>1
<1>7. CASE (\E r \in Runs : Center!Acquire(r)) \/ Center!CancelRun
  <2>1. "agentBusy" \in Center!Flags /\ {"acquire", "cancelRun"} \subseteq Center!ClearedBy["agentBusy"]
    BY DEF Center!Flags, Center!ClearedBy
  <2>2. ASSUME NEW r \in Runs, Center!Acquire(r) PROVE CenterInv'
    <3>1. Center!Start({Center!Ask("acquire", [id |-> r, at |-> known[r].at])}, {"agentBusy"})
      BY <2>2 DEF Center!Acquire
    <3> QED
      BY <1>3, <2>1, <3>1
  <2>3. CASE Center!CancelRun
    <3>1. Center!Start({Center!Ask("cancelRun", [id |-> selected.id, at |-> selected.at])}, {"agentBusy"})
      BY <2>3 DEF Center!CancelRun
    <3> QED
      BY <1>3, <2>1, <3>1
  <2> QED
    BY <1>7, <2>2, <2>3
<1>8. CASE Center!CreateFlow \/ Center!LoadProfile
  <2>1. Center!Start({Center!Ask("createFlow", Center!Nothing)}, {"flowBusy"})
        \/ Center!Start({Center!Ask("loadProfile", Center!Nothing)}, {"profileBusy"})
    BY <1>8 DEF Center!CreateFlow, Center!LoadProfile
  <2>2. /\ "flowBusy" \in Center!Flags /\ "createFlow" \in Center!ClearedBy["flowBusy"]
        /\ "profileBusy" \in Center!Flags /\ "loadProfile" \in Center!ClearedBy["profileBusy"]
    BY DEF Center!Flags, Center!ClearedBy
  <2> QED
    BY <1>3, <2>1, <2>2
<1>9. CASE Center!ApproveVersion \/ Center!LoadProviders
  <2>1. Center!Start({Center!Ask("approveVersion", Center!Nothing)}, {"setupBusy"})
        \/ Center!Start({Center!Ask("providers", Center!Nothing)}, {"agentBusy"})
    BY <1>9 DEF Center!ApproveVersion, Center!LoadProviders
  <2>2. /\ "setupBusy" \in Center!Flags /\ "approveVersion" \in Center!ClearedBy["setupBusy"]
        /\ "agentBusy" \in Center!Flags /\ "providers" \in Center!ClearedBy["agentBusy"]
    BY DEF Center!Flags, Center!ClearedBy
  <2> QED
    BY <1>3, <2>1, <2>2
<1> QED
  BY <1>4, <1>5, <1>6, <1>7, <1>8, <1>9

\* An order carries what is on the screen; a run what has been checked.
LEMMA ClientConfirms ==
    ASSUME CenterInv,
           \/ Center!ContinueFlow \/ Center!CancelFlow \/ Center!ResolveConflict \/ Center!SaveProfile \/ Center!CreateRun
    PROVE  CenterInv'
<1>1. UNCHANGED CenterScreen
  <2>1. UNCHANGED <<flows, profile, cleared>>
    BY ServerKept DEF Center!ContinueFlow, Center!CancelFlow, Center!ResolveConflict, Center!SendsFlow, Center!SaveProfile,
       Center!CreateRun, Center!FlowClient, Center!ProfileClient, Center!DraftClient
  <2>2. UNCHANGED CenterForms
    BY DEF CenterForms, Center!recoveryVars, Center!flowVars, Center!profileVars, Center!formVars,
       Center!ContinueFlow, Center!CancelFlow, Center!ResolveConflict, Center!SendsFlow, Center!SaveProfile,
       Center!CreateRun, Center!FlowClient, Center!ProfileClient, Center!DraftClient
  <2> QED
    BY <2>1, <2>2 DEF CenterForms, CenterScreen
<1>2. ASSUME NEW op, NEW arg, NEW meant, NEW f, f \in Center!Flags, op \in Center!ClearedBy[f],
             meant # Center!Nothing /\ op # "fixProfile" => arg = meant, op = "createRun" => arg \in cleared,
             Center!Start({Center!Order(op, arg, meant)}, {f})
      PROVE  CenterInv'
  <2>1. Center!Order(op, arg, meant).op = op
    BY DEF Center!Order
  <2>2. Awaited({Center!Order(op, arg, meant)}, {f}) /\ \A q \in {Center!Order(op, arg, meant)} : CenterRequest(q)
    BY <1>2, <2>1, OneAwaited, CenterOrder
  <2> QED
    BY <1>1, <1>2, <2>2, CenterAsks
<1>3. ASSUME NEW op \in {"continue", "cancelFlow", "conflict"}, NEW t \in Center!FlowTicks, Center!Is(flow),
             Center!SendsFlow(op, t)
      PROVE  CenterInv'
  <2>1. confirmations[t] = Center!OnFlow(t)
    BY <1>3 DEF Center!SendsFlow, Center!Is, CenterInv, FlowConfirmed
  <2>2. "flowBusy" \in Center!Flags /\ op \in Center!ClearedBy["flowBusy"] /\ op # "createRun"
    BY DEF Center!Flags, Center!ClearedBy
  <2> QED
    BY <1>2, <1>3, <2>1, <2>2 DEF Center!SendsFlow
<1>4. CASE Center!ContinueFlow \/ Center!CancelFlow \/ Center!ResolveConflict
  BY <1>3, <1>4 DEF Center!ContinueFlow, Center!CancelFlow, Center!ResolveConflict, Center!FlowTicks
<1>5. CASE Center!SaveProfile
  <2>1. confirmations["profile"] = Center!OnScreen
    BY <1>5 DEF Center!SaveProfile, Center!MaySave, CenterInv, ProfileConfirmed
  <2>2. "profileBusy" \in Center!Flags /\ "saveProfile" \in Center!ClearedBy["profileBusy"]
    BY DEF Center!Flags, Center!ClearedBy
  <2> QED
    BY <1>2, <1>5, <2>1, <2>2 DEF Center!SaveProfile
<1>6. CASE Center!CreateRun
  <2>1. Center!Current \in cleared
    BY <1>6 DEF Center!CreateRun, Center!Matches, CenterInv, CheckTrue
  <2>2. "agentBusy" \in Center!Flags /\ "createRun" \in Center!ClearedBy["agentBusy"]
    BY DEF Center!Flags, Center!ClearedBy
  <2>3. Center!Start({Center!Order("createRun", Center!Current, Center!Nothing)}, {"agentBusy"})
    BY <1>6 DEF Center!CreateRun, Center!Ask
  <2> QED
    BY <1>2, <2>1, <2>2, <2>3
<1> QED
  BY <1>4, <1>5, <1>6

\* The answers about runs, and what an approval starts.
LEMMA HandlesRun ==
    ASSUME CenterInv, NEW q \in under,
           \/ Center!RunsAnswered(q) \/ Center!RunAnswered(q) \/ Center!EventsAnswered(q) \/ Center!CancelAnswered(q)
           \/ Center!AcquireAnswered(q) \/ Center!ApproveAnswered(q)
    PROVE  CenterInv'
<1>1. UNCHANGED CenterScreen
  <2>1. UNCHANGED <<flows, profile, cleared>>
    BY ServerKept DEF Center!RunsAnswered, Center!RunAnswered, Center!EventsAnswered, Center!CancelAnswered,
       Center!AcquireAnswered, Center!ApproveAnswered, Center!ProfileClient
  <2>2. UNCHANGED CenterForms
    BY DEF CenterForms, Center!recoveryVars, Center!flowVars, Center!profileVars, Center!formVars,
       Center!RunsAnswered, Center!RunAnswered, Center!EventsAnswered, Center!CancelAnswered,
       Center!AcquireAnswered, Center!ApproveAnswered, Center!ProfileClient
  <2> QED
    BY <2>1, <2>2 DEF CenterForms, CenterScreen
<1>2. ASSUME NEW started, Center!Finish(q, started, {}), \A p \in started : CenterRequest(p) PROVE CenterInv'
  BY <1>1, <1>2, NoneAwaited, CenterEnds
<1>3. \A p \in {} : CenterRequest(p)
  OBVIOUS
<1>4. CASE Center!RunsAnswered(q) \/ Center!EventsAnswered(q) \/ Center!CancelAnswered(q) \/ Center!AcquireAnswered(q)
  <2>1. \E started : Center!Finish(q, started, {}) /\ \A p \in started : CenterRequest(p)
    BY <1>3, <1>4, RefreshesAre DEF Center!RunsAnswered, Center!EventsAnswered, Center!CancelAnswered, Center!AcquireAnswered
  <2> QED
    BY <1>2, <2>1
<1>5. CASE Center!RunAnswered(q)
  <2> DEFINE ask == Center!Ask("events", [id |-> q.arg.id, after |-> cursor])
  <2>1. Center!Finish(q, {}, {}) \/ Center!Finish(q, {ask}, {})
    BY <1>5 DEF Center!RunAnswered
  <2>2. CenterRequest(ask)
    BY CenterAsk
  <2> HIDE DEF ask
  <2>3. \A p \in {ask} : CenterRequest(p)
    BY <2>2
  <2> QED
    BY <1>2, <1>3, <2>1, <2>3
<1>6. CASE Center!ApproveAnswered(q)
  <2>1. CASE Center!Finish(q, {}, {})
    BY <1>2, <1>3, <2>1
  <2>2. CASE Center!Finish(q, {Center!Ask("providers", Center!Nothing)}, {"agentBusy"})
    <3>1. "agentBusy" \in Center!Flags /\ Center!Ask("providers", Center!Nothing).op \in Center!ClearedBy["agentBusy"]
      BY DEF Center!Flags, Center!ClearedBy, Center!Ask, Center!Order
    <3>2. /\ Awaited({Center!Ask("providers", Center!Nothing)}, {"agentBusy"})
          /\ \A p \in {Center!Ask("providers", Center!Nothing)} : CenterRequest(p)
      BY <3>1, OneAwaited, CenterAsk
    <3> QED
      BY <1>1, <2>2, <3>2, CenterEnds
  <2> QED
    BY <1>6, <2>1, <2>2 DEF Center!ApproveAnswered
<1> QED
  BY <1>4, <1>5, <1>6

-----------------------------------------------------------------------------
(* The client of the agent center: recovery *)

LEMMA NamesAre ==
    /\ Center!FlowTicks \subseteq ConfirmationNames /\ Center!ProfileTicks \subseteq ConfirmationNames
    /\ "recovery" \in ConfirmationNames \ (Center!FlowTicks \cup Center!ProfileTicks)
    /\ "profile" \in ConfirmationNames \ Center!FlowTicks /\ "fix" \in ConfirmationNames
    /\ Center!FlowTicks \cap Center!ProfileTicks = {} /\ "profile" \in Center!ProfileTicks
BY DEF ConfirmationNames, Center!FlowTicks, Center!ProfileTicks

LEMMA OneConfirmed ==
    ASSUME CenterInv, NEW t \in ConfirmationNames, NEW x, confirmations' = [confirmations EXCEPT ![t] = x]
    PROVE  /\ ConfirmationsAre' /\ confirmations'[t] = x
           /\ \A u \in ConfirmationNames : u # t => confirmations'[u] = confirmations[u]
BY DEF CenterInv, ConfirmationsAre

\* The question of the recovery and its confirmation move together.
LEMMA QuestionMoves ==
    ASSUME CenterInv, UNCHANGED <<flows, profile, cleared>>, UNCHANGED <<flow, choice>>, UNCHANGED <<view, form>>,
           check' = check, RequestsTrue', FlagsTrue',
           \/ question' = question /\ confirmations' = confirmations
           \/ \E x \in {Center!Nothing, question'} : confirmations' = [confirmations EXCEPT !["recovery"] = x]
    PROVE  CenterInv'
<1>1. ServerTrue' /\ CheckTrue'
  BY ServerStays, CheckStays DEF CenterInv
<1>2. CASE question' = question /\ confirmations' = confirmations
  <2>1. ConfirmationsAre' /\ FlowConfirmed' /\ RecoveryConfirmed' /\ ProfileConfirmed'
    BY <1>2, ConfirmationsStay, ConfirmedStays
  <2> QED
    BY <1>1, <2>1 DEF CenterInv
<1>3. ASSUME NEW x, x \in {Center!Nothing, question'}, confirmations' = [confirmations EXCEPT !["recovery"] = x]
      PROVE  CenterInv'
  <2>1. /\ ConfirmationsAre' /\ confirmations'["recovery"] = x
        /\ \A u \in ConfirmationNames : u # "recovery" => confirmations'[u] = confirmations[u]
    BY <1>3, NamesAre, OneConfirmed
  <2>2. RecoveryConfirmed'
    BY <1>3, <2>1 DEF RecoveryConfirmed
  <2>3. FlowConfirmed'
    <3>1. \A t : Center!OnFlow(t)' = Center!OnFlow(t)
      BY DEF Center!OnFlow
    <3>2. \A t \in Center!FlowTicks : confirmations'[t] = confirmations[t]
      BY <2>1, NamesAre
    <3> QED
      BY <3>1, <3>2 DEF CenterInv, FlowConfirmed, Center!Is
  <2>4. ProfileConfirmed'
    <3>1. confirmations'["profile"] = confirmations["profile"]
      BY <2>1, NamesAre
    <3> QED
      BY <3>1 DEF CenterInv, ProfileConfirmed, Center!OnScreen, IsProfile
  <2> QED
    BY <1>1, <2>1, <2>2, <2>3, <2>4 DEF CenterInv
<1> QED
  BY <1>2, <1>3

LEMMA ClientRecovers ==
    ASSUME CenterInv,
           \/ Center!LeavePage \/ Center!CloseDialog \/ Center!TickDialog \/ (\E r \in Runs : Center!OpenDialog(r))
           \/ Center!Confirm
    PROVE  CenterInv'
<1>1. UNCHANGED <<flows, profile, cleared>>
  BY ServerKept DEF Center!LeavePage, Center!CloseDialog, Center!TickDialog, Center!OpenDialog, Center!Confirm
<1>2. UNCHANGED <<flow, choice>> /\ UNCHANGED <<view, form>> /\ check' = check
  BY DEF Center!LeavePage, Center!CloseDialog, Center!TickDialog, Center!OpenDialog, Center!Confirm,
     Center!flowVars, Center!profileVars, Center!formVars
<1>3. \/ question' = question /\ confirmations' = confirmations
      \/ \E x \in {Center!Nothing, question'} : confirmations' = [confirmations EXCEPT !["recovery"] = x]
  <2>1. \/ question' = question /\ confirmations' = confirmations
        \/ confirmations' = [confirmations EXCEPT !["recovery"] = Center!Nothing]
        \/ question' = question /\ confirmations' = [confirmations EXCEPT !["recovery"] = question]
    BY DEF Center!LeavePage, Center!CloseDialog, Center!TickDialog, Center!OpenDialog, Center!Confirm,
       Center!recoveryVars, Center!ClosesDialog, Center!KeepsDialog
  <2> QED
    BY <2>1
<1>4. RequestsTrue' /\ FlagsTrue'
  <2>1. CASE Center!LeavePage \/ Center!CloseDialog \/ Center!TickDialog \/ \E r \in Runs : Center!OpenDialog(r)
    <3>1. UNCHANGED <<under, flags, cleared>>
      BY <1>1, <2>1 DEF Center!LeavePage, Center!CloseDialog, Center!TickDialog, Center!OpenDialog
    <3> QED
      BY <3>1, CenterIdle
  <2>2. CASE Center!Confirm
    <3> DEFINE order == Center!Order("resolve", question, confirmations["recovery"])
               now == flags \cup {"runsPoll"}
    <3>1. Center!Start({order}, {"agentBusy"}) \/ Center!Start(Center!RefreshRuns(now), {})
      BY <2>2 DEF Center!Confirm
    <3>2. CenterRequest(order)
      <4>1. confirmations["recovery"] # Center!Nothing => question = confirmations["recovery"]
        BY DEF CenterInv, RecoveryConfirmed
      <4> QED
        BY <4>1, CenterOrder
    <3>3. Awaited({order}, {"agentBusy"})
      <4>1. "agentBusy" \in Center!Flags /\ order.op \in Center!ClearedBy["agentBusy"]
        BY DEF Center!Flags, Center!ClearedBy, Center!Order
      <4> QED
        BY <4>1, OneAwaited
    <3>4. \A q \in Center!RefreshRuns(now) : CenterRequest(q)
      BY RefreshesAre
    <3> HIDE DEF order, now
    <3>5. CASE Center!Start({order}, {"agentBusy"})
      <4>1. \A q \in {order} : CenterRequest(q)
        BY <3>2
      <4> QED
        BY <1>1, <3>3, <3>5, <4>1, CenterStarted
    <3>6. CASE Center!Start(Center!RefreshRuns(now), {})
      BY <1>1, <3>4, <3>6, NoneAwaited, CenterStarted
    <3> QED
      BY <3>1, <3>5, <3>6
  <2> QED
    BY <2>1, <2>2
<1> QED
  BY <1>1, <1>2, <1>3, <1>4, QuestionMoves

LEMMA HandlesRecovery ==
    ASSUME CenterInv, NEW q \in under, Center!OpsAnswered(q) \/ Center!ResolveAnswered(q)
    PROVE  CenterInv'
<1>1. UNCHANGED <<flows, profile, cleared>>
  BY ServerKept DEF Center!OpsAnswered, Center!ResolveAnswered
<1>2. UNCHANGED <<flow, choice>> /\ UNCHANGED <<view, form>> /\ check' = check
  BY DEF Center!OpsAnswered, Center!ResolveAnswered, Center!flowVars, Center!profileVars, Center!formVars
<1>3. \/ question' = question /\ confirmations' = confirmations
      \/ \E x \in {Center!Nothing, question'} : confirmations' = [confirmations EXCEPT !["recovery"] = x]
  BY DEF Center!OpsAnswered, Center!ResolveAnswered, Center!ClosesDialog, Center!KeepsDialog
<1>4. \E started : Center!Finish(q, started, {}) /\ \A p \in started : CenterRequest(p)
  <2>1. \A p \in {} : CenterRequest(p)
    OBVIOUS
  <2> QED
    BY <2>1, RefreshesAre DEF Center!OpsAnswered, Center!ResolveAnswered
<1>5. RequestsTrue' /\ FlagsTrue'
  BY <1>1, <1>4, NoneAwaited, CenterFinished
<1> QED
  BY <1>1, <1>2, <1>3, <1>5, QuestionMoves

-----------------------------------------------------------------------------
(* The client of the agent center: orchestrations *)

LEMMA FlowsMove ==
    ASSUME CenterInv, UNCHANGED <<flows, profile, cleared>>, UNCHANGED <<view, form>>, question' = question,
           check' = check, RequestsTrue', FlagsTrue', ConfirmationsAre', FlowConfirmed',
           \A t \in ConfirmationNames \ Center!FlowTicks : confirmations'[t] = confirmations[t]
    PROVE  CenterInv'
<1>1. ServerTrue' /\ CheckTrue'
  BY ServerStays, CheckStays DEF CenterInv
<1>2. RecoveryConfirmed' /\ ProfileConfirmed'
  BY NamesAre DEF CenterInv, RecoveryConfirmed, ProfileConfirmed, Center!OnScreen, IsProfile
<1> QED
  BY <1>1, <1>2 DEF CenterInv

LEMMA ShownFlow ==
    ASSUME CenterInv, NEW record, Center!ShowsFlow(record)
    PROVE  /\ ConfirmationsAre' /\ FlowConfirmed'
           /\ \A t \in ConfirmationNames \ Center!FlowTicks : confirmations'[t] = confirmations[t]
<1>1. /\ ConfirmationsAre'
      /\ \A t \in ConfirmationNames : confirmations'[t] = IF t \in Center!FlowTicks THEN Center!Nothing ELSE confirmations[t]
  BY UntickedAre DEF Center!ShowsFlow
<1> QED
  BY <1>1, NamesAre DEF FlowConfirmed

LEMMA KeptFlow ==
    ASSUME CenterInv, UNCHANGED <<flow, choice>>, confirmations' = confirmations
    PROVE  /\ ConfirmationsAre' /\ FlowConfirmed'
           /\ \A t \in ConfirmationNames \ Center!FlowTicks : confirmations'[t] = confirmations[t]
BY ConfirmationsStay, ConfirmedStays

LEMMA HandlesFlow ==
    ASSUME CenterInv, NEW q \in under,
           \/ Center!FlowAnswered(q) \/ Center!FlowsAnswered(q) \/ Center!FlowOrderAnswered(q) \/ Center!ConflictAnswered(q)
    PROVE  CenterInv'
<1>1. Center!FlowClient /\ Center!Finish(q, {}, {})
  BY DEF Center!FlowAnswered, Center!FlowsAnswered, Center!FlowOrderAnswered, Center!ConflictAnswered
<1>2. UNCHANGED <<flows, profile, cleared>>
  BY <1>1, ServerKept DEF Center!FlowClient
<1>3. UNCHANGED <<view, form>> /\ question' = question /\ check' = check
  BY <1>1 DEF Center!FlowClient, Center!recoveryVars, Center!profileVars, Center!formVars
<1>4. RequestsTrue' /\ FlagsTrue'
  <2>1. \A p \in {} : CenterRequest(p)
    OBVIOUS
  <2> QED
    BY <1>1, <1>2, <2>1, NoneAwaited, CenterFinished
<1>5. /\ ConfirmationsAre' /\ FlowConfirmed'
      /\ \A t \in ConfirmationNames \ Center!FlowTicks : confirmations'[t] = confirmations[t]
  <2>1. ASSUME UNCHANGED <<Center!flowVars, confirmations>>
        PROVE  /\ ConfirmationsAre' /\ FlowConfirmed'
               /\ \A t \in ConfirmationNames \ Center!FlowTicks : confirmations'[t] = confirmations[t]
    BY <2>1, KeptFlow DEF Center!flowVars
  <2>2. CASE Center!FlowAnswered(q) \/ Center!FlowOrderAnswered(q)
    BY <2>1, <2>2, ShownFlow DEF Center!FlowAnswered, Center!FlowOrderAnswered
  <2>3. CASE Center!ConflictAnswered(q)
    <3>1. CASE ~Center!Failed(q)
      BY <2>3, <3>1, ShownFlow DEF Center!ConflictAnswered
    <3>2. CASE Center!Failed(q)
      <4>1. PICK set : Center!Untick(set) /\ set \subseteq Center!FlowTicks /\ UNCHANGED <<flow, choice>>
        BY <2>3, <3>2 DEF Center!ConflictAnswered, Center!FlowTicks, Center!flowVars
      <4>2. /\ ConfirmationsAre'
            /\ \A t \in ConfirmationNames : confirmations'[t] = IF t \in set THEN Center!Nothing ELSE confirmations[t]
        BY <4>1, UntickedAre
      <4>3. FlowConfirmed'
        BY <4>1, <4>2, ConfirmedStays
      <4> QED
        BY <4>1, <4>2, <4>3
    <3> QED
      BY <3>1, <3>2
  <2>4. CASE Center!FlowsAnswered(q)
    <3>1. \/ UNCHANGED <<Center!flowVars, confirmations>>
          \/ \E record : Center!ShowsFlow(record)
          \/ /\ Center!Is(flow) /\ ~Center!Failed(q) /\ flow.id \in Flows /\ Center!Is(q.ans[flow.id])
             /\ q.ans[flow.id].at = flow.at /\ flow' = q.ans[flow.id] /\ UNCHANGED <<choice, confirmations>>
      BY <2>4 DEF Center!FlowsAnswered, Center!Refreshed
    <3>2. ASSUME Center!Is(flow), ~Center!Failed(q), flow.id \in Flows, Center!Is(q.ans[flow.id]),
                 q.ans[flow.id].at = flow.at, flow' = q.ans[flow.id], UNCHANGED <<choice, confirmations>>
          PROVE  /\ ConfirmationsAre' /\ FlowConfirmed'
                 /\ \A t \in ConfirmationNames \ Center!FlowTicks : confirmations'[t] = confirmations[t]
      <4>1. CenterRequest(q) /\ q.op = "flows" /\ q.is # "sent"
        BY <2>4 DEF CenterInv, RequestsTrue, Center!FlowsAnswered, Center!Told
      <4>2. FlowOf(q.ans[flow.id], flow.id)
        BY <3>2, <4>1 DEF CenterRequest, CenterAnswer, Center!Failed
      <4>3. q.ans[flow.id].id = flow.id
        BY <3>2, <4>2 DEF FlowOf, Center!Is
      <4>4. \A t : Center!OnFlow(t)' = Center!OnFlow(t)
        BY <3>2, <4>3 DEF Center!OnFlow
      <4>5. FlowConfirmed'
        BY <3>2, <4>4 DEF CenterInv, FlowConfirmed, Center!Is
      <4> QED
        BY <3>2, <4>5, ConfirmationsStay
    <3> QED
      BY <2>1, <3>1, <3>2, ShownFlow
  <2> QED
    BY <2>2, <2>3, <2>4
<1> QED
  BY <1>2, <1>3, <1>4, <1>5, FlowsMove

LEMMA ClientChooses ==
    ASSUME CenterInv, Center!Choose \/ \E t \in Center!FlowTicks : Center!TickFlow(t)
    PROVE  CenterInv'
<1>1. Center!FlowClient /\ UNCHANGED <<under, flags, flow>>
  BY DEF Center!Choose, Center!TickFlow, Center!flowVars
<1>2. UNCHANGED <<flows, profile, cleared>>
  BY <1>1, ServerKept DEF Center!FlowClient
<1>3. UNCHANGED <<view, form>> /\ question' = question /\ check' = check
  BY <1>1 DEF Center!FlowClient, Center!recoveryVars, Center!profileVars, Center!formVars
<1>4. RequestsTrue' /\ FlagsTrue'
  BY <1>1, <1>2, CenterIdle
<1>5. ASSUME Center!Choose
      PROVE  /\ ConfirmationsAre' /\ FlowConfirmed'
             /\ \A t \in ConfirmationNames \ Center!FlowTicks : confirmations'[t] = confirmations[t]
  <2>1. "conflict" \in ConfirmationNames /\ "conflict" \in Center!FlowTicks
    BY DEF ConfirmationNames, Center!FlowTicks
  <2>2. /\ ConfirmationsAre' /\ confirmations'["conflict"] = Center!Nothing
        /\ \A u \in ConfirmationNames : u # "conflict" => confirmations'[u] = confirmations[u]
    BY <1>5, <2>1, OneConfirmed DEF Center!Choose
  <2>3. \A t : t # "conflict" => Center!OnFlow(t)' = Center!OnFlow(t)
    BY <1>1 DEF Center!OnFlow
  <2>4. FlowConfirmed'
    BY <1>1, <2>2, <2>3, NamesAre DEF CenterInv, FlowConfirmed, Center!Is
  <2> QED
    BY <2>1, <2>2, <2>4
<1>6. ASSUME NEW t \in Center!FlowTicks, Center!TickFlow(t)
      PROVE  /\ ConfirmationsAre' /\ FlowConfirmed'
             /\ \A u \in ConfirmationNames \ Center!FlowTicks : confirmations'[u] = confirmations[u]
  <2>1. /\ ConfirmationsAre' /\ confirmations'[t] = Center!OnFlow(t)
        /\ \A u \in ConfirmationNames : u # t => confirmations'[u] = confirmations[u]
    BY <1>6, NamesAre, OneConfirmed DEF Center!TickFlow
  <2>2. \A u : Center!OnFlow(u)' = Center!OnFlow(u)
    BY <1>6 DEF Center!OnFlow, Center!TickFlow, Center!flowVars
  <2>3. FlowConfirmed'
    BY <1>1, <2>1, <2>2, NamesAre DEF CenterInv, FlowConfirmed, Center!Is
  <2> QED
    BY <2>1, <2>3
<1> QED
  BY <1>2, <1>3, <1>4, <1>5, <1>6, FlowsMove

-----------------------------------------------------------------------------
(* The client of the agent center: the security profile *)

LEMMA ProfileFormMoves ==
    ASSUME CenterInv, UNCHANGED <<flows, profile, cleared>>, UNCHANGED <<flow, choice>>, question' = question,
           RequestsTrue', FlagsTrue', CheckTrue', ConfirmationsAre', ProfileConfirmed',
           \A t \in Center!FlowTicks \cup {"recovery"} : confirmations'[t] = confirmations[t]
    PROVE  CenterInv'
<1>1. ServerTrue'
  BY ServerStays DEF CenterInv
<1>2. \A t : Center!OnFlow(t)' = Center!OnFlow(t)
  BY DEF Center!OnFlow
<1>3. FlowConfirmed' /\ RecoveryConfirmed'
  BY <1>2 DEF CenterInv, FlowConfirmed, RecoveryConfirmed, Center!Is
<1> QED
  BY <1>1, <1>3 DEF CenterInv

\* A preflight that is void or started for again.
LEMMA CheckChanges ==
    ASSUME CheckTrue, cleared' = cleared,
           \/ check' = [check EXCEPT !.of = Center!Nothing, !.ready = FALSE]
           \/ check' = [check EXCEPT !.of = Center!Nothing, !.ready = FALSE, !.timer = FALSE]
           \/ \E n : check' = [check EXCEPT !.revision = n, !.timer = FALSE]
           \/ \E n, t : check' = [of |-> Center!Nothing, ready |-> FALSE, revision |-> n, timer |-> t]
    PROVE  CheckTrue'
<1>1. check = [of |-> check.of, ready |-> check.ready, revision |-> check.revision, timer |-> check.timer]
  BY DEF CheckTrue
<1>2. ASSUME NEW of, NEW ready, NEW n, NEW t, check' = [of |-> of, ready |-> ready, revision |-> n, timer |-> t],
             ready => of \in cleared
      PROVE  CheckTrue'
  BY <1>2 DEF CheckTrue
<1>3. PICK a, b : a = [check EXCEPT !.of = Center!Nothing] /\ b = [a EXCEPT !.ready = FALSE]
  OBVIOUS
<1>4. a = [of |-> Center!Nothing, ready |-> check.ready, revision |-> check.revision, timer |-> check.timer]
  BY <1>1, <1>3
<1>5. b = [of |-> Center!Nothing, ready |-> FALSE, revision |-> check.revision, timer |-> check.timer]
  BY <1>3, <1>4
<1>6. CASE check' = [check EXCEPT !.of = Center!Nothing, !.ready = FALSE]
  <2>1. check' = b
    <3>1. check' = [[check EXCEPT !.of = Center!Nothing] EXCEPT !.ready = FALSE]
      BY <1>6
    <3> QED
      BY <1>3, <3>1
  <2> QED
    BY <1>2, <1>5, <2>1
<1>7. CASE check' = [check EXCEPT !.of = Center!Nothing, !.ready = FALSE, !.timer = FALSE]
  <2>1. check' = [b EXCEPT !.timer = FALSE]
    <3>1. check' = [[[check EXCEPT !.of = Center!Nothing] EXCEPT !.ready = FALSE] EXCEPT !.timer = FALSE]
      BY <1>7
    <3> QED
      BY <1>3, <3>1
  <2>2. check' = [of |-> Center!Nothing, ready |-> FALSE, revision |-> check.revision, timer |-> FALSE]
    BY <1>5, <2>1
  <2> QED
    BY <1>2, <2>2
<1>8. ASSUME NEW n, check' = [check EXCEPT !.revision = n, !.timer = FALSE] PROVE CheckTrue'
  <2>1. PICK c : c = [check EXCEPT !.revision = n] /\ check' = [c EXCEPT !.timer = FALSE]
    <3>1. check' = [[check EXCEPT !.revision = n] EXCEPT !.timer = FALSE]
      BY <1>8
    <3> QED
      BY <3>1
  <2>2. c = [of |-> check.of, ready |-> check.ready, revision |-> n, timer |-> check.timer]
    BY <1>1, <2>1
  <2>3. check' = [of |-> check.of, ready |-> check.ready, revision |-> n, timer |-> FALSE]
    BY <2>1, <2>2
  <2> QED
    BY <1>2, <2>3 DEF CheckTrue
<1>9. ASSUME NEW n, NEW t, check' = [of |-> Center!Nothing, ready |-> FALSE, revision |-> n, timer |-> t] PROVE CheckTrue'
  BY <1>2, <1>9
<1> QED
  BY <1>6, <1>7, <1>8, <1>9

LEMMA AppliedProfile ==
    ASSUME CenterInv, NEW p, IsProfile(p), Center!Applies(p)
    PROVE  /\ ConfirmationsAre' /\ ProfileConfirmed'
           /\ \A t \in Center!FlowTicks \cup {"recovery"} : confirmations'[t] = confirmations[t]
<1>1. /\ ConfirmationsAre'
      /\ \A t \in ConfirmationNames : confirmations'[t] = IF t \in Center!ProfileTicks THEN Center!Nothing ELSE confirmations[t]
  BY UntickedAre DEF Center!Applies
<1>2. ProfileConfirmed'
  BY <1>1, NamesAre DEF ProfileConfirmed, Center!Applies, IsProfile
<1> QED
  BY <1>1, <1>2, NamesAre

LEMMA UntickedProfile ==
    ASSUME CenterInv, NEW set, set \subseteq Center!ProfileTicks, Center!Untick(set), view' = view,
           form' = form \/ "profile" \in set
    PROVE  /\ ConfirmationsAre' /\ ProfileConfirmed'
           /\ \A t \in Center!FlowTicks \cup {"recovery"} : confirmations'[t] = confirmations[t]
<1>1. /\ ConfirmationsAre'
      /\ \A t \in ConfirmationNames : confirmations'[t] = IF t \in set THEN Center!Nothing ELSE confirmations[t]
  BY UntickedAre
<1>2. ProfileConfirmed'
  BY <1>1, NamesAre DEF CenterInv, ProfileConfirmed, IsProfile, Center!OnScreen
<1> QED
  BY <1>1, <1>2, NamesAre

LEMMA ClientEditsProfile ==
    ASSUME CenterInv, Center!EditProfile \/ Center!TickProfile
    PROVE  CenterInv'
<1>1. Center!ProfileClient /\ UNCHANGED <<under, flags, view, check>>
  BY DEF Center!EditProfile, Center!TickProfile, Center!profileVars, Center!formVars
<1>2. UNCHANGED <<flows, profile, cleared>>
  BY <1>1, ServerKept DEF Center!ProfileClient
<1>3. UNCHANGED <<flow, choice>> /\ question' = question
  BY <1>1 DEF Center!ProfileClient, Center!recoveryVars, Center!flowVars
<1>4. RequestsTrue' /\ FlagsTrue'
  BY <1>1, <1>2, CenterIdle
<1>5. CheckTrue'
  BY <1>1, <1>2, CheckStays DEF CenterInv
<1>6. /\ ConfirmationsAre' /\ ProfileConfirmed'
      /\ \A t \in Center!FlowTicks \cup {"recovery"} : confirmations'[t] = confirmations[t]
  <2>1. CASE Center!EditProfile
    <3>1. Center!Untick({"profile"}) \/ Center!Untick(Center!ProfileTicks)
      BY <2>1 DEF Center!EditProfile
    <3> QED
      BY <1>1, <3>1, UntickedProfile, NamesAre
  <2>2. CASE Center!TickProfile
    <3>1. PICK t, x :
             /\ t \in {"profile", "optIn", "fix"}
             /\ confirmations' = [confirmations EXCEPT ![t] = x]
             /\ t = "profile" => x = Center!OnScreen
      BY <2>2 DEF Center!TickProfile
    <3>2. t \in ConfirmationNames /\ t \notin Center!FlowTicks \cup {"recovery"}
          /\ Center!FlowTicks \cup {"recovery", "profile"} \subseteq ConfirmationNames
      BY <3>1 DEF ConfirmationNames, Center!FlowTicks
    <3>3. /\ ConfirmationsAre' /\ confirmations'[t] = x
          /\ \A u \in ConfirmationNames : u # t => confirmations'[u] = confirmations[u]
      BY <3>1, <3>2, OneConfirmed
    <3>4. view' = view /\ form' = form
      BY <2>2 DEF Center!TickProfile, Center!profileVars
    <3>5. Center!OnScreen' = Center!OnScreen
      BY <3>4 DEF Center!OnScreen
    <3>6. ProfileConfirmed'
      BY <3>1, <3>2, <3>3, <3>4, <3>5 DEF CenterInv, ProfileConfirmed, IsProfile
    <3> QED
      BY <3>2, <3>3, <3>6
  <2> QED
    BY <2>1, <2>2
<1> QED
  BY <1>2, <1>3, <1>4, <1>5, <1>6, ProfileFormMoves

LEMMA ClientAligns ==
    ASSUME CenterInv, Center!AlignProfile
    PROVE  CenterInv'
<1>1. Center!ProfileClient /\ UNCHANGED <<view, check>>
  BY DEF Center!AlignProfile, Center!formVars
<1>2. UNCHANGED <<flows, profile, cleared>>
  BY <1>1, ServerKept DEF Center!ProfileClient
<1>3. UNCHANGED <<flow, choice>> /\ question' = question
  BY <1>1 DEF Center!ProfileClient, Center!recoveryVars, Center!flowVars
<1>4. RequestsTrue' /\ FlagsTrue'
  <2> DEFINE order == Center!Order("fixProfile", form', confirmations["fix"])
  <2>1. Center!Start({order}, {"profileBusy"})
    BY DEF Center!AlignProfile
  <2>2. CenterRequest(order)
    BY DEF CenterRequest, Center!Order
  <2>3. "profileBusy" \in Center!Flags /\ order.op \in Center!ClearedBy["profileBusy"]
    BY DEF Center!Flags, Center!ClearedBy, Center!Order
  <2>4. PICK p : p = order
    OBVIOUS
  <2>5. Awaited({p}, {"profileBusy"})
    BY <2>3, <2>4, OneAwaited
  <2>6. Center!Start({p}, {"profileBusy"}) /\ \A r \in {p} : CenterRequest(r)
    BY <2>1, <2>2, <2>4
  <2> QED
    BY <1>2, <2>5, <2>6, CenterStarted
<1>5. CheckTrue'
  BY <1>1, <1>2, CheckStays DEF CenterInv
<1>6. PICK given : given = [confirmations EXCEPT !["fix"] = Center!Nothing] /\ confirmations' = [given EXCEPT !["profile"] = form']
  <2>1. confirmations' = [[confirmations EXCEPT !["fix"] = Center!Nothing] EXCEPT !["profile"] = form']
    BY DEF Center!AlignProfile
  <2> QED
    BY <2>1
<1>7. /\ given = [t \in ConfirmationNames |-> given[t]]
      /\ \A t \in ConfirmationNames : t # "fix" => given[t] = confirmations[t]
  BY <1>6 DEF CenterInv, ConfirmationsAre
<1>8. /\ ConfirmationsAre' /\ confirmations'["profile"] = form'
      /\ \A t \in ConfirmationNames \ {"profile", "fix"} : confirmations'[t] = confirmations[t]
  BY <1>6, <1>7, NamesAre DEF ConfirmationsAre
<1>9. ProfileConfirmed'
  <2>1. view # Center!NoProfile /\ form' = [view EXCEPT !.rule = picked]
    BY DEF Center!AlignProfile
  <2>2. IsProfile(view)
    BY <2>1 DEF CenterInv, ProfileConfirmed
  <2>3. form' = [at |-> view.at, rule |-> picked, codex |-> view.codex]
    BY <2>1, <2>2 DEF IsProfile
  <2>4. Center!OnScreen' = form'
    BY <1>1, <2>3 DEF Center!OnScreen
  <2> QED
    BY <1>1, <1>8, <2>2, <2>4 DEF ProfileConfirmed, IsProfile
<1>10. \A t \in Center!FlowTicks \cup {"recovery"} : confirmations'[t] = confirmations[t]
  <2>1. Center!FlowTicks \cup {"recovery"} \subseteq ConfirmationNames \ {"profile", "fix"}
    BY DEF ConfirmationNames, Center!FlowTicks
  <2> QED
    BY <1>8, <2>1
<1> QED
  BY <1>2, <1>3, <1>4, <1>5, <1>8, <1>9, <1>10, ProfileFormMoves

LEMMA HandlesProfile ==
    ASSUME CenterInv, NEW q \in under, Center!LoadAnswered(q) \/ Center!SaveAnswered(q)
    PROVE  CenterInv'
<1>1. Center!ProfileClient /\ q.op \in {"loadProfile", "saveProfile", "fixProfile"} /\ Center!Told(q)
  BY DEF Center!LoadAnswered, Center!SaveAnswered
<1>2. UNCHANGED <<flows, profile, cleared>>
  BY <1>1, ServerKept DEF Center!ProfileClient
<1>3. UNCHANGED <<flow, choice>> /\ question' = question
  BY <1>1 DEF Center!ProfileClient, Center!recoveryVars, Center!flowVars
<1>4. RequestsTrue' /\ FlagsTrue'
  <2>1. \A p \in {} : CenterRequest(p)
    OBVIOUS
  <2>2. CASE Center!Finish(q, {}, {})
    BY <1>2, <2>1, <2>2, NoneAwaited, CenterFinished
  <2>3. CASE Center!Finish(q, {Center!Ask("providers", Center!Nothing)}, {"agentBusy"})
    <3>1. "agentBusy" \in Center!Flags /\ Center!Ask("providers", Center!Nothing).op \in Center!ClearedBy["agentBusy"]
      BY DEF Center!Flags, Center!ClearedBy, Center!Ask, Center!Order
    <3>2. /\ Awaited({Center!Ask("providers", Center!Nothing)}, {"agentBusy"})
          /\ \A p \in {Center!Ask("providers", Center!Nothing)} : CenterRequest(p)
      BY <3>1, OneAwaited, CenterAsk
    <3> QED
      BY <1>2, <2>3, <3>2, CenterFinished
  <2> QED
    BY <2>2, <2>3 DEF Center!LoadAnswered, Center!SaveAnswered
<1>5. CheckTrue'
  <2>1. check' = check \/ check' = [check EXCEPT !.of = Center!Nothing, !.ready = FALSE]
    BY DEF Center!LoadAnswered, Center!SaveAnswered
  <2> QED
    BY <1>2, <2>1, CheckStays, CheckChanges DEF CenterInv
<1>6. /\ ConfirmationsAre' /\ ProfileConfirmed'
      /\ \A t \in Center!FlowTicks \cup {"recovery"} : confirmations'[t] = confirmations[t]
  <2>1. CASE Center!Failed(q)
    <3>1. Center!Untick(Center!ProfileTicks) /\ view' = view /\ form' = form
      BY <2>1 DEF Center!LoadAnswered, Center!SaveAnswered, Center!profileVars
    <3> QED
      BY <3>1, UntickedProfile
  <2>2. CASE ~Center!Failed(q)
    <3>1. Center!Applies(q.ans)
      BY <2>2 DEF Center!LoadAnswered, Center!SaveAnswered
    <3>2. IsProfile(q.ans)
      BY <1>1, <2>2 DEF CenterInv, RequestsTrue, CenterRequest, CenterAnswer, Center!Told, Center!Failed
    <3> QED
      BY <3>1, <3>2, AppliedProfile
  <2> QED
    BY <2>1, <2>2
<1> QED
  BY <1>2, <1>3, <1>4, <1>5, <1>6, ProfileFormMoves

-----------------------------------------------------------------------------
(* The client of the agent center: the draft of a run and its preflight *)

\* A handler of the draft changes neither the server nor what the other areas show.
DraftMoved == Center!Client /\ UNCHANGED <<question, flow, choice, view, form, confirmations>>

LEMMA DraftMoves ==
    ASSUME CenterInv, DraftMoved, RequestsTrue', FlagsTrue', CheckTrue'
    PROVE  CenterInv'
<1>1. UNCHANGED <<flows, profile, cleared>>
  BY ServerKept DEF DraftMoved
<1>2. UNCHANGED <<flow, choice>> /\ UNCHANGED <<view, form>> /\ question' = question /\ confirmations' = confirmations
  BY DEF DraftMoved
<1>3. ConfirmationsAre' /\ FlowConfirmed' /\ RecoveryConfirmed' /\ ProfileConfirmed'
  BY <1>2, ConfirmationsStay, ConfirmedStays
<1> QED
  BY <1>1, <1>3, ServerStays DEF CenterInv

LEMMA PreflightAsked ==
    ASSUME NEW i
    PROVE  \A q \in Center!PreflightOf(i) : CenterRequest(q)
<1>1. \A q \in Center!PreflightOf(i) : q = Center!Ask("preflight", [of |-> Center!Request(i, prompt), revision |-> check'.revision])
  BY DEF Center!PreflightOf
<1>2. CenterRequest(Center!Ask("preflight", [of |-> Center!Request(i, prompt), revision |-> check'.revision]))
  BY DEF CenterRequest, Center!Ask, Center!Order
<1> QED
  BY <1>1, <1>2

LEMMA ClientDrafts ==
    ASSUME CenterInv, Center!EditDraft \/ Center!TimerFires
    PROVE  CenterInv'
<1>1. DraftMoved
  BY DEF Center!EditDraft, Center!TimerFires, Center!DraftClient, DraftMoved,
     Center!recoveryVars, Center!flowVars, Center!profileVars
<1>2. UNCHANGED <<flows, profile, cleared>>
  BY <1>1, ServerKept DEF DraftMoved
<1>3. CASE Center!EditDraft
  <2>1. RequestsTrue' /\ FlagsTrue'
    BY <1>2, <1>3, CenterIdle DEF Center!EditDraft
  <2>2. CheckTrue'
    BY <1>2, <1>3, CheckChanges DEF Center!EditDraft, Center!Schedules, CenterInv
  <2> QED
    BY <1>1, <2>1, <2>2, DraftMoves
<1>4. CASE Center!TimerFires
  <2>1. PICK started : Center!Start(started, {}) /\ started = Center!PreflightOf(picked)
    BY <1>4 DEF Center!TimerFires
  <2>2. \A q \in started : CenterRequest(q)
    BY <2>1, PreflightAsked
  <2>3. RequestsTrue' /\ FlagsTrue'
    BY <1>2, <2>1, <2>2, NoneAwaited, CenterStarted
  <2>4. CheckTrue'
    BY <1>2, <1>4, CheckChanges DEF Center!TimerFires, Center!Preflights, CenterInv
  <2> QED
    BY <1>1, <2>3, <2>4, DraftMoves
<1> QED
  BY <1>3, <1>4

LEMMA HandlesDraft ==
    ASSUME CenterInv, NEW q \in under,
           Center!ProvidersAnswered(q) \/ Center!PreflightAnswered(q) \/ Center!CreateAnswered(q)
    PROVE  CenterInv'
<1>1. DraftMoved
  BY DEF Center!ProvidersAnswered, Center!PreflightAnswered, Center!CreateAnswered, Center!DraftClient, DraftMoved,
     Center!recoveryVars, Center!flowVars, Center!profileVars
<1>2. UNCHANGED <<flows, profile, cleared>>
  BY <1>1, ServerKept DEF DraftMoved
<1>3. PICK started : /\ Center!Finish(q, started, {})
                     /\ \/ started = {} \/ started = Center!PreflightOf(Center!Admitted)
                        \/ \E id : started = Center!RefreshShown(id)
  BY DEF Center!ProvidersAnswered, Center!PreflightAnswered, Center!CreateAnswered
<1>4. \A p \in started : CenterRequest(p)
  BY <1>3, PreflightAsked, RefreshesAre
<1>5. RequestsTrue' /\ FlagsTrue'
  BY <1>2, <1>3, <1>4, NoneAwaited, CenterFinished
<1>6. CASE check' = check
  BY <1>1, <1>2, <1>5, <1>6, CheckStays, DraftMoves DEF CenterInv
<1>7. CASE Center!ProvidersAnswered(q) \/ Center!CreateAnswered(q)
  <2>1. \/ check' = check
        \/ check' = [check EXCEPT !.of = Center!Nothing, !.ready = FALSE, !.timer = FALSE]
        \/ \E n : check' = [check EXCEPT !.revision = n, !.timer = FALSE]
        \/ \E n, t : check' = [of |-> Center!Nothing, ready |-> FALSE, revision |-> n, timer |-> t]
    BY <1>7 DEF Center!ProvidersAnswered, Center!CreateAnswered, Center!Preflights, Center!Schedules
  <2>2. CheckTrue'
    BY <1>2, <2>1, CheckStays, CheckChanges DEF CenterInv
  <2> QED
    BY <1>1, <1>5, <2>2, DraftMoves
<1>8. CASE Center!PreflightAnswered(q) /\ check' # check
  <2> DEFINE of == IF Center!Failed(q) THEN Center!Nothing ELSE q.arg.of
             ready == ~Center!Failed(q) /\ q.ans.ready
  <2>1. check' = [check EXCEPT !.of = of, !.ready = ready]
    BY <1>8 DEF Center!PreflightAnswered
  <2>2. ready => of \in cleared
    BY <1>8 DEF Center!PreflightAnswered, CenterInv, RequestsTrue, CenterRequest, CenterAnswer, Center!Told, Center!Failed
  <2> HIDE DEF of, ready
  <2>3. PICK c : c = [check EXCEPT !.of = of] /\ check' = [c EXCEPT !.ready = ready]
    <3>1. check' = [[check EXCEPT !.of = of] EXCEPT !.ready = ready]
      BY <2>1
    <3> QED
      BY <3>1
  <2>4. c = [of |-> of, ready |-> check.ready, revision |-> check.revision, timer |-> check.timer]
    BY <2>3 DEF CenterInv, CheckTrue
  <2>5. check' = [of |-> of, ready |-> ready, revision |-> check.revision, timer |-> check.timer]
    BY <2>3, <2>4
  <2>6. CheckTrue'
    BY <1>2, <2>2, <2>5 DEF CheckTrue
  <2> QED
    BY <1>1, <1>5, <2>6, DraftMoves
<1> QED
  BY <1>6, <1>7, <1>8

-----------------------------------------------------------------------------
(* The agent center as a whole *)

LEMMA CenterStays ==
    ASSUME CenterInv, UNCHANGED centerVars
    PROVE  CenterInv'
<1>1. UNCHANGED CenterScreen /\ UNCHANGED <<under, flags, cleared>>
  BY DEF centerVars, CenterScreen
<1> QED
  BY <1>1, CenterIdle, CenterQuiet

LEMMA CenterStep ==
    ASSUME CenterInv, Center!Next
    PROVE  CenterInv'
<1>1. CASE Center!ServerMoves \/ \E q \in under : Center!Serve(q) \/ Center!Lose(q)
  BY <1>1, CenterMoves, CenterAnswered
<1>2. ASSUME NEW q \in under, Center!Handlers(q) PROVE CenterInv'
  BY <1>2, HandlesRun, HandlesRecovery, HandlesFlow, HandlesProfile, HandlesDraft DEF Center!Handlers
<1>3. CASE \/ Center!Poll \/ Center!OpenPage \/ Center!StreamEvent \/ Center!StreamFails
           \/ (\E r \in Runs : Center!SelectRun(r) \/ Center!Acquire(r)) \/ Center!CancelRun
           \/ (\E f \in Flows : Center!SelectFlow(f)) \/ Center!CreateFlow
           \/ Center!LoadProfile \/ Center!ApproveVersion \/ Center!LoadProviders
           \/ \E i \in Installations : Center!Pick(i)
  BY <1>3, ClientLooks
<1>4. CASE \/ Center!ContinueFlow \/ Center!CancelFlow \/ Center!ResolveConflict \/ Center!SaveProfile
           \/ Center!CreateRun
  BY <1>4, ClientConfirms
<1>5. CASE \/ Center!LeavePage \/ Center!CloseDialog \/ Center!TickDialog \/ (\E r \in Runs : Center!OpenDialog(r))
           \/ Center!Confirm
  BY <1>5, ClientRecovers
<1>6. CASE Center!Choose \/ \E t \in Center!FlowTicks : Center!TickFlow(t)
  BY <1>6, ClientChooses
<1>7. CASE \/ Center!EditProfile \/ Center!TickProfile \/ Center!AlignProfile \/ Center!EditDraft \/ Center!TimerFires
  BY <1>7, ClientEditsProfile, ClientAligns, ClientDrafts
<1> QED
  BY <1>1, <1>2, <1>3, <1>4, <1>5, <1>6, <1>7 DEF Center!Next, Center!RunActions

LEMMA CenterSays == CenterInv => Center!ConfirmedIsSent /\ Center!CheckedBeforeSent /\ Center!BusyMeansWaiting
BY DEF CenterInv, RequestsTrue, CenterRequest, FlagsTrue, Center!ConfirmedIsSent, Center!CheckedBeforeSent

-----------------------------------------------------------------------------
(* The web client *)

WebInv == StudioInv /\ CenterInv

LEMMA WebBegins == WebInit => WebInv
BY StudioInit, CenterInit DEF WebInit, WebInv

LEMMA WebStep == WebInv /\ [WebNext]_webVars => WebInv'
<1> SUFFICES ASSUME WebInv, [WebNext]_webVars PROVE WebInv'
  OBVIOUS
<1>1. CASE Studio!Next /\ UNCHANGED centerVars
  BY <1>1, StudioStep, CenterStays DEF WebInv
<1>2. CASE Center!Next /\ UNCHANGED studioVars
  BY <1>2, CenterStep, StudioStays DEF WebInv
<1>3. CASE UNCHANGED webVars
  <2>1. UNCHANGED studioVars /\ UNCHANGED centerVars
    BY <1>3 DEF webVars
  <2> QED
    BY <2>1, StudioStays, CenterStays DEF WebInv
<1> QED
  BY <1>1, <1>2, <1>3 DEF WebNext

\* What is sent is what was confirmed, ticked or checked on the screen, the lists on the
\* screen belong to the import on it, and what waits is waited for: whatever answers of
\* whatever imports, runs, orchestrations and profiles come in between (app.ts).
THEOREM ScreenIsTrueHolds == WebSpec => []ScreenIsTrue
<1>1. WebInv => ScreenIsTrue
  BY StudioSays, CenterSays DEF WebInv, ScreenIsTrue
<1> QED
  BY <1>1, WebBegins, WebStep, PTL DEF WebSpec

\* The answer to a change of a fact leaves the import on the screen that is there.
LEMMA SavedStep ==
    ASSUME WebInv, [WebNext]_webVars
    PROVE  [\A q \in sent : q.op = "facts" /\ q \notin sent' => open'.id = open.id]_(Studio!vars)
<1>1. Studio!Next \/ UNCHANGED studioVars
  BY DEF WebNext, webVars
<1> QED
  BY <1>1, SavedStays DEF WebInv

\* Hence the answer to a change of a fact never throws the user back to the import it was
\* for, whatever was opened meanwhile (app.ts, mutateCvFacts).
THEOREM SavedStaysInPlaceHolds == WebSpec => SavedStaysInPlace
<1> QED
  BY WebBegins, WebStep, SavedStep, PTL DEF WebSpec, SavedStaysInPlace, Studio!SavedStaysInPlace

=============================================================================
