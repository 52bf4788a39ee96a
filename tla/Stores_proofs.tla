---------------------------- MODULE Stores_proofs ----------------------------
(***************************************************************************)
(* Proofs about what is kept on disk beside the runs: the files of the     *)
(* agents, for any number of windows, changes and faults; ended runs,      *)
(* their artifacts and overlapping deletions of them; the AI runs that     *)
(* structure a CV import; the imports with the profile they are adopted    *)
(* into; the central job list, for any number of jobs and requests.        *)
(***************************************************************************)
EXTENDS MCStores, SequenceTheorems, TLAPS

Unreadable == {Missing, Broken}

USE DEF Unreadable

\* The two files that are not readable are no versions.
LEMMA FilesApart ==
    /\ Missing \notin Versions /\ Broken \notin Versions /\ Empty \in Versions
    /\ \A f \in Files : Readable(f) <=> f \in Versions
    /\ Files = Versions \cup Unreadable
BY DEF Missing, Broken, Empty, Version, Versions, Files, Readable

(***************************************************************************)
(* Type correctness, and that a change to be saved names what was read.    *)
(***************************************************************************)

SavesNameContents == \A q \in waiting : q.op = "save" => q.base \in Versions

TypeInv == TypeOK /\ SavesNameContents

LEMMA InForceType ==
    ASSUME TypeOK
    PROVE  /\ InForce \in Files
           /\ kind = "profile" => InForce \in {primary, lastGood}
           /\ kind = "approvals" => InForce \in {primary, Empty, Broken}
BY FilesApart DEF TypeOK, InForce, Readable

LEMMA NewTimeType ==
    ASSUME TypeOK, NEW q \in Requests, q.op = "save" => InForce \in Versions
    PROVE  NewTime(q) \in Nat
<1>1. InForce \in Versions => InForce.at \in Nat
    BY DEF Versions
<1>. QED  BY <1>1 DEF NewTime, Requests, TypeOK

\* Mere requests.
LEMMA RequestType ==
    ASSUME TypeInv, NEW op \in {"save", "reset"}, NEW base \in Files,
           op = "save" => base \in Versions, Sends(Request(op, base))
    PROVE  TypeInv'
<1>1. Request(op, base) \in Requests /\ Request(op, base).op = op
      /\ Request(op, base).base = base
    BY DEF Request, Requests, TypeInv, TypeOK
<1>2. UNCHANGED <<kind, primary, lastGood, seen, job, clock, faults, versions, latest, clash, answered>>
      /\ waiting' = waiting \cup {Request(op, base)}
    BY DEF Sends, stores, history
<1>. QED  BY <1>1, <1>2 DEF TypeInv, TypeOK, SavesNameContents

LEMMA TypeInit == Init => TypeInv
<1> SUFFICES ASSUME Init PROVE TypeInv
    OBVIOUS
<1>. QED  BY DEF Init, TypeInv, TypeOK, SavesNameContents, Files

LEMMA LoadsType ==
    ASSUME TypeInv, NEW w \in Windows, Loads(w)
    PROVE  TypeInv'
<1>1. InForce \in Files
    BY InForceType DEF TypeInv
<1>2. CASE Readable(InForce)
    BY <1>1, <1>2 DEF Loads, TypeInv, TypeOK, SavesNameContents, stores, history
<1>3. CASE ~Readable(InForce)
  <2>1. /\ waiting' = waiting \cup {Request("reset", Missing)}
        /\ UNCHANGED <<kind, primary, lastGood, seen, job, clock, faults, versions, latest, clash, answered>>
      BY <1>3 DEF Loads, stores, history
  <2>2. Request("reset", Missing) \in Requests /\ Request("reset", Missing).op = "reset"
      BY DEF Request, Requests, TypeInv, TypeOK, Files
  <2>. QED  BY <2>1, <2>2 DEF TypeInv, TypeOK, SavesNameContents
<1>. QED  BY <1>2, <1>3

LEMMA AsksType ==
    ASSUME TypeInv,
           \/ \E w \in Windows : SavesProfile(w) \/ ChangesApprovals(w)
           \/ ResetsProfile
    PROVE  TypeInv'
<1>1. \A w \in Windows : Readable(seen[w]) => seen[w] \in Versions /\ seen[w] \in Files
    BY FilesApart DEF TypeInv, TypeOK
<1>2. ASSUME NEW w \in Windows, SavesProfile(w) \/ ChangesApprovals(w)
      PROVE  TypeInv'
    BY <1>1, <1>2, RequestType DEF SavesProfile, ChangesApprovals
<1>3. CASE ResetsProfile
    BY <1>3, RequestType DEF ResetsProfile, Files
<1>. QED  BY <1>2, <1>3

\* What a change is once it has begun.
LEMMA BeginsJob ==
    ASSUME TypeInv, NEW q \in waiting, Begins(q)
    PROVE  /\ q \in Requests /\ InForce \in Files
           /\ q.op = "save" =>
                InForce \in Versions /\ q.base \in Versions /\ Matches(q)
           /\ job = NoJob /\ versions' = versions + 1
           /\ job' = [op |-> q.op, step |-> "primary",
                      new |-> [at |-> NewTime(q), n |-> versions + 1],
                      base |-> q.base, over |-> InForce]
           /\ job' \in Jobs
           /\ clash' = (clash \/ NewTime(q) <= latest)
           /\ latest' = IF NewTime(q) > latest THEN NewTime(q) ELSE latest
           /\ NewTime(q) \in Nat
           /\ waiting' = waiting \ {q}
           /\ UNCHANGED <<kind, primary, lastGood, seen, clock, faults, answered>>
<1>1. q \in Requests /\ InForce \in Files
    BY InForceType DEF TypeInv, TypeOK
<1>2. q.op = "save" => InForce \in Versions /\ q.base \in Versions /\ Matches(q)
    BY <1>1, FilesApart DEF Begins, TypeInv, SavesNameContents
<1>3. NewTime(q) \in Nat
    BY <1>1, <1>2, NewTimeType DEF TypeInv
<1>4. /\ job = NoJob /\ versions' = versions + 1
      /\ job' = [op |-> q.op, step |-> "primary",
                 new |-> [at |-> NewTime(q), n |-> versions + 1],
                 base |-> q.base, over |-> InForce]
      /\ clash' = (clash \/ NewTime(q) <= latest)
      /\ latest' = IF NewTime(q) > latest THEN NewTime(q) ELSE latest
      /\ waiting' = waiting \ {q}
      /\ UNCHANGED <<kind, primary, lastGood, seen, clock, faults, answered>>
    BY DEF Begins, Version, stores
<1>5. job' \in Jobs
  <2>1. versions + 1 \in Nat
      BY DEF TypeInv, TypeOK
  <2>2. [at |-> NewTime(q), n |-> versions + 1] \in Versions
      BY <1>3, <2>1 DEF Versions
  <2>. QED  BY <1>1, <1>4, <2>2 DEF Jobs, Requests
<1>. QED  BY <1>1, <1>2, <1>3, <1>4, <1>5

LEMMA JobStepsType ==
    ASSUME TypeInv,
           \/ \E q \in waiting : Begins(q) \/ Refuses(q)
           \/ WritesPrimary \/ WritesCopy
    PROVE  TypeInv'
<1>1. ASSUME NEW q \in waiting, Begins(q)
      PROVE  TypeInv'
  <2>1. /\ job' \in Jobs /\ waiting' \subseteq waiting
        /\ versions' = versions + 1 /\ NewTime(q) \in Nat
        /\ latest' = IF NewTime(q) > latest THEN NewTime(q) ELSE latest
        /\ clash' = (clash \/ NewTime(q) <= latest)
        /\ UNCHANGED <<kind, primary, lastGood, seen, clock, faults, answered>>
      BY <1>1, BeginsJob
  <2>2. versions' \in Nat /\ latest' \in Nat
      BY <2>1 DEF TypeInv, TypeOK
  <2>3. clash' \in BOOLEAN
      BY <2>1
  <2>. QED  BY <2>1, <2>2, <2>3 DEF TypeInv, TypeOK, SavesNameContents
<1>2. ASSUME NEW q \in waiting, Refuses(q)
      PROVE  TypeInv'
    BY <1>2 DEF Refuses, stores, history, TypeInv, TypeOK, SavesNameContents
<1>3. ASSUME job # NoJob
      PROVE  job \in Jobs /\ job.new \in Versions /\ job.new \in Files /\ job.new.n \in Nat
             /\ [job EXCEPT !.step = "copy"] \in Jobs
    BY <1>3, FilesApart DEF TypeInv, TypeOK, Jobs, Versions
<1>4. CASE WritesPrimary
    BY <1>3, <1>4 DEF WritesPrimary, Ends, TypeInv, TypeOK, SavesNameContents
<1>5. CASE WritesCopy
    BY <1>3, <1>5 DEF WritesCopy, Copies, Ends, TypeInv, TypeOK, SavesNameContents
<1>. QED  BY <1>1, <1>2, <1>4, <1>5

LEMMA FaultsType ==
    ASSUME TypeInv, WriteFails \/ Stops \/ Ticks \/ \E f \in Unreadable : Damages(f)
    PROVE  TypeInv'
<1>1. CASE WriteFails
    BY <1>1 DEF WriteFails, Fault, stores, history, TypeInv, TypeOK, SavesNameContents
<1>2. CASE Stops
    BY <1>2 DEF Stops, Fault, stores, history, TypeInv, TypeOK, SavesNameContents
<1>3. CASE Ticks
    BY <1>3 DEF Ticks, stores, history, TypeInv, TypeOK, SavesNameContents
<1>4. ASSUME NEW f \in Unreadable, Damages(f)
      PROVE  TypeInv'
    BY <1>4 DEF Damages, Damaged, Fault, history, TypeInv, TypeOK, SavesNameContents, Files
<1>. QED  BY <1>1, <1>2, <1>3, <1>4

\* Every step preserves TypeInv.
LEMMA TypeStep == TypeInv /\ [Next]_vars => TypeInv'
<1> SUFFICES ASSUME TypeInv, [Next]_vars
             PROVE  TypeInv'
    OBVIOUS
<1>1. CASE UNCHANGED vars
    BY <1>1 DEF vars, stores, history, TypeInv, TypeOK, SavesNameContents
<1>2. CASE Next
    BY <1>2, LoadsType, AsksType, JobStepsType, FaultsType DEF Next
<1>. QED  BY <1>1, <1>2

\* The files, the requests and the history keep their form.
THEOREM TypeCorrect == Spec => []TypeOK
<1>1. Init => TypeInv
    BY TypeInit
<1>2. TypeInv /\ [Next]_vars => TypeInv'
    BY TypeStep
<1>3. TypeInv => TypeOK
    BY DEF TypeInv
<1>. QED  BY <1>1, <1>2, <1>3, PTL DEF Spec

(***************************************************************************)
(* What has been answered stays.  Contents are numbered in the order they  *)
(* are made, and both files are written before a change is answered: what  *)
(* can be read of either is never older than the last answer, except that  *)
(* the copy is the one a change in progress has still to write.  A file    *)
(* that cannot be read has cost a fault of its own.                        *)
(***************************************************************************)

\* The change in progress is the last one made, and nothing is newer.
NumbersOrdered ==
    /\ answered <= versions
    /\ job # NoJob => job.new.n = versions

\* Of the two files, what can be read is at least as new as the answer.
FilesKeepAnswer ==
    /\ primary \in Versions => primary.n >= answered
    /\ lastGood \in Versions => lastGood.n >= answered

\* Each file that was written and cannot be read was damaged.
DamageCounted ==
    /\ answered > 0 /\ primary \in Unreadable => faults >= 1
    /\ answered > 0 /\ lastGood \in Unreadable => faults >= 1
    /\ answered > 0 /\ primary \in Unreadable /\ lastGood \in Unreadable => faults >= 2
    /\ job.step = "copy" /\ primary \in Unreadable => faults >= 1

\* After the first of its two writes the change is in force or damaged.
CopyFollowsPrimary ==
    job.step = "copy" /\ primary \in Versions => primary.n = job.new.n

AnswerInv ==
    /\ TypeInv
    /\ NumbersOrdered
    /\ kind = "profile" => FilesKeepAnswer /\ DamageCounted /\ CopyFollowsPrimary

LEMMA AnswerInit == Init => AnswerInv
<1> SUFFICES ASSUME Init PROVE AnswerInv
    OBVIOUS
<1>1. TypeInv
    BY TypeInit
<1>. QED
    BY <1>1, FilesApart DEF Init, AnswerInv, NumbersOrdered, FilesKeepAnswer, DamageCounted,
       CopyFollowsPrimary, NoJob

\* A step that writes no file, answers nothing and counts no fault down.
LEMMA AnswerKept ==
    ASSUME AnswerInv, TypeInv', UNCHANGED <<kind, primary, lastGood, versions, answered>>,
           job' = job \/ job' = NoJob, faults' >= faults
    PROVE  AnswerInv'
<1>1. faults \in Nat /\ faults' \in Nat
    BY DEF AnswerInv, TypeInv, TypeOK
<1>2. NoJob.step = "none"
    BY DEF NoJob
<1>. QED
    BY <1>1, <1>2 DEF AnswerInv, NumbersOrdered, FilesKeepAnswer, DamageCounted,
       CopyFollowsPrimary

LEMMA AnswerBegins ==
    ASSUME AnswerInv, TypeInv', NEW q \in waiting, Begins(q)
    PROVE  AnswerInv'
<1>1. /\ job' = [op |-> q.op, step |-> "primary",
                 new |-> [at |-> NewTime(q), n |-> versions + 1],
                 base |-> q.base, over |-> InForce]
      /\ versions' = versions + 1
      /\ UNCHANGED <<kind, primary, lastGood, faults, answered>>
    BY BeginsJob DEF AnswerInv
<1>2. job'.step = "primary" /\ job'.new.n = versions'
    BY <1>1
<1>3. versions \in Nat /\ answered \in Nat
    BY DEF AnswerInv, TypeInv, TypeOK
<1>. QED
    BY <1>1, <1>2, <1>3 DEF AnswerInv, NumbersOrdered, FilesKeepAnswer, DamageCounted,
       CopyFollowsPrimary

LEMMA AnswerWritesPrimary ==
    ASSUME AnswerInv, TypeInv', WritesPrimary
    PROVE  AnswerInv'
<1>1. /\ job # NoJob /\ primary' = job.new
      /\ UNCHANGED <<kind, lastGood, faults, versions>>
    BY DEF WritesPrimary
<1>2. job \in Jobs /\ job.new \in Versions /\ job.new.n = versions
    BY <1>1 DEF AnswerInv, TypeInv, TypeOK, Jobs, NumbersOrdered
<1>3. /\ versions \in Nat /\ answered \in Nat /\ faults \in Nat /\ answered <= versions
    BY DEF AnswerInv, TypeInv, TypeOK, NumbersOrdered
<1>4. CASE kind = "profile"
  <2>1. job' = [job EXCEPT !.step = "copy"] /\ answered' = answered
      BY <1>4 DEF WritesPrimary
  <2>2. job'.new = job.new /\ job'.step = "copy"
      BY <1>2, <2>1 DEF Jobs
  <2>3. primary' \in Versions /\ primary' \notin Unreadable
      BY <1>1, <1>2, FilesApart
  <2>. QED
      BY <1>1, <1>2, <1>3, <1>4, <2>1, <2>2, <2>3
      DEF AnswerInv, NumbersOrdered, FilesKeepAnswer, DamageCounted, CopyFollowsPrimary
<1>5. CASE kind # "profile"
  <2>1. job' = NoJob /\ answered' = job.new.n
      BY <1>5 DEF WritesPrimary, Ends
  <2>. QED  BY <1>1, <1>2, <1>3, <1>5, <2>1 DEF AnswerInv, NumbersOrdered
<1>. QED  BY <1>4, <1>5

LEMMA AnswerWritesCopy ==
    ASSUME AnswerInv, TypeInv', WritesCopy
    PROVE  AnswerInv'
<1>1. /\ job # NoJob /\ job.step = "copy" /\ lastGood' = job.new /\ job' = NoJob
      /\ answered' = job.new.n /\ UNCHANGED <<kind, primary, faults, versions>>
    BY DEF WritesCopy, Copies, Ends
<1>2. job \in Jobs /\ job.new \in Versions /\ job.new.n = versions /\ job.new.n \in Nat
    BY <1>1 DEF AnswerInv, TypeInv, TypeOK, Jobs, Versions, NumbersOrdered
<1>3. lastGood' \notin Unreadable /\ NoJob.step = "none"
    BY <1>1, <1>2, FilesApart DEF NoJob
<1>4. NumbersOrdered'
    BY <1>1, <1>2 DEF NumbersOrdered
<1>5. ASSUME kind = "profile"
      PROVE  (FilesKeepAnswer /\ DamageCounted /\ CopyFollowsPrimary)'
    BY <1>1, <1>2, <1>3, <1>5
    DEF AnswerInv, FilesKeepAnswer, DamageCounted, CopyFollowsPrimary
<1>. QED  BY <1>1, <1>4, <1>5 DEF AnswerInv

LEMMA AnswerDamages ==
    ASSUME AnswerInv, TypeInv', NEW f \in Unreadable, Damages(f)
    PROVE  AnswerInv'
<1>1. /\ faults' = faults + 1 /\ f \notin Versions
      /\ UNCHANGED <<kind, job, versions, answered>>
      /\ \/ primary' = f /\ lastGood' = lastGood
         \/ lastGood' = f /\ primary' = primary
    BY FilesApart DEF Damages, Damaged, Fault, history
<1>2. faults \in Nat /\ answered \in Nat
    BY DEF AnswerInv, TypeInv, TypeOK
<1>. QED
    BY <1>1, <1>2 DEF AnswerInv, NumbersOrdered, FilesKeepAnswer, DamageCounted,
       CopyFollowsPrimary

LEMMA AnswerStep == AnswerInv /\ [Next]_vars => AnswerInv'
<1> SUFFICES ASSUME AnswerInv, [Next]_vars
             PROVE  AnswerInv'
    OBVIOUS
<1>1. TypeInv' /\ faults \in Nat
    BY TypeStep DEF AnswerInv, TypeInv, TypeOK
<1>2. CASE UNCHANGED vars
    BY <1>1, <1>2, AnswerKept DEF vars, stores, history
<1>3. ASSUME NEW w \in Windows, Loads(w) \/ SavesProfile(w) \/ ChangesApprovals(w)
      PROVE  AnswerInv'
    BY <1>1, <1>3, AnswerKept DEF Loads, SavesProfile, ChangesApprovals, Sends, stores, history
<1>4. CASE ResetsProfile \/ Ticks
    BY <1>1, <1>4, AnswerKept DEF ResetsProfile, Sends, Ticks, stores, history
<1>5. ASSUME NEW q \in waiting, Refuses(q)
      PROVE  AnswerInv'
    BY <1>1, <1>5, AnswerKept DEF Refuses, stores, history
<1>6. CASE WriteFails \/ Stops
    BY <1>1, <1>6, AnswerKept DEF WriteFails, Stops, Fault, stores, history
<1>7. CASE WritesPrimary
    BY <1>1, <1>7, AnswerWritesPrimary
<1>8. CASE WritesCopy
    BY <1>1, <1>8, AnswerWritesCopy
<1>9. ASSUME NEW q \in waiting, Begins(q)
      PROVE  AnswerInv'
    BY <1>1, <1>9, AnswerBegins
<1>10. ASSUME NEW f \in Unreadable, Damages(f)
       PROVE  AnswerInv'
    BY <1>1, <1>10, AnswerDamages
<1>. QED
    BY <1>2, <1>3, <1>4, <1>5, <1>6, <1>7, <1>8, <1>9, <1>10 DEF Next

\* A change of the profile that was answered stays in force until a later one,
\* whatever stops, fails or is damaged, and one fault does not leave the server
\* without a profile: for any number of windows, changes and faults.
THEOREM AnsweredStandsHolds == Spec => []AnsweredStands
<1>1. Init => AnswerInv
    BY AnswerInit
<1>2. AnswerInv /\ [Next]_vars => AnswerInv'
    BY AnswerStep
<1>3. AnswerInv => AnsweredStands
  <2> SUFFICES ASSUME AnswerInv, kind = "profile"
               PROVE  /\ Readable(InForce) => InForce.n >= answered
                      /\ answered > 0 /\ faults <= 1 => Readable(InForce)
      BY DEF AnsweredStands
  <2>1. /\ primary \in Files /\ lastGood \in Files /\ faults \in Nat
        /\ InForce = IF Readable(primary) THEN primary
                     ELSE IF Readable(lastGood) THEN lastGood ELSE primary
      BY DEF AnswerInv, TypeInv, TypeOK, InForce
  <2>. QED
      BY <2>1, FilesApart DEF AnswerInv, FilesKeepAnswer, DamageCounted
<1>. QED  BY <1>1, <1>2, <1>3, PTL DEF Spec

(***************************************************************************)
(* A change replaces what its window has seen.  As long as no content was  *)
(* given the time of another, the time a window names tells which content  *)
(* it has seen: the contents that anybody still knows differ in time.      *)
(***************************************************************************)

\* The contents that are on disk, in a window, in a request or in the change
\* in progress.
Known(f) ==
    /\ f \in Versions
    /\ \/ f \in {Empty, primary, lastGood}
       \/ \E w \in Windows : f = seen[w]
       \/ \E q \in waiting : f = q.base
       \/ job # NoJob /\ f \in {job.new, job.base, job.over}

TimesTell ==
    /\ \A f \in Versions : Known(f) => f.at <= latest
    /\ \A f, g \in Versions : Known(f) /\ Known(g) /\ f.at = g.at => f = g

SeenInv ==
    /\ TypeInv
    /\ ~clash => TimesTell /\ ChangesFollowSeen

\* Nothing new is known, and the change in progress is no other.
LEMMA NothingNewKnown ==
    ASSUME SeenInv, TypeInv', \A f \in Versions : Known(f)' => Known(f),
           UNCHANGED <<latest, clash>>,
           job' = NoJob \/ (job'.op = job.op /\ job'.over = job.over /\ job'.base = job.base)
    PROVE  SeenInv'
<1>1. NoJob.op # "save"
    BY DEF NoJob
<1>2. ~clash' => TimesTell'
    BY DEF SeenInv, TimesTell
<1>3. ~clash' => ChangesFollowSeen'
    BY <1>1 DEF SeenInv, ChangesFollowSeen
<1>. QED  BY <1>2, <1>3 DEF SeenInv

LEMMA SeenInit == Init => SeenInv
<1> SUFFICES ASSUME Init PROVE SeenInv
    OBVIOUS
<1>1. TypeInv
    BY TypeInit
<1>2. \A f \in Versions : Known(f) => f = Empty
    BY FilesApart DEF Init, Known
<1>3. Empty.at = 0 /\ NoJob.op # "save"
    BY DEF Empty, Version, NoJob
<1>4. \A f \in Versions : f.at \in Nat
    BY DEF Versions
<1>. QED
    BY <1>1, <1>2, <1>3 DEF SeenInv, Init, TimesTell, ChangesFollowSeen

\* The content in force is one of those on disk, or the empty list.
LEMMA InForceKnown ==
    ASSUME TypeInv, InForce \in Versions
    PROVE  Known(InForce)
BY InForceType, FilesApart DEF Known, TypeInv, TypeOK

LEMMA SeenBegins ==
    ASSUME SeenInv, TypeInv', NEW q \in waiting, Begins(q)
    PROVE  SeenInv'
<1> SUFFICES ASSUME ~clash' PROVE TimesTell' /\ ChangesFollowSeen'
    BY DEF SeenInv
<1> DEFINE new == [at |-> NewTime(q), n |-> versions + 1]
<1>1. /\ q \in Requests /\ InForce \in Files
      /\ q.op = "save" => InForce \in Versions /\ q.base \in Versions /\ q.base.at = InForce.at
      /\ job' = [op |-> q.op, step |-> "primary", new |-> new, base |-> q.base, over |-> InForce]
      /\ clash' = (clash \/ NewTime(q) <= latest)
      /\ latest' = IF NewTime(q) > latest THEN NewTime(q) ELSE latest
      /\ NewTime(q) \in Nat /\ latest \in Nat /\ waiting' = waiting \ {q}
      /\ UNCHANGED <<kind, primary, lastGood, seen>>
    BY BeginsJob DEF SeenInv, Matches, TypeInv, TypeOK
<1>2. ~clash /\ NewTime(q) > latest /\ latest' = NewTime(q)
  <2>1. clash \in BOOLEAN
      BY DEF SeenInv, TypeInv, TypeOK
  <2>2. ~clash /\ ~(NewTime(q) <= latest)
      BY <1>1, <2>1, Zenon
  <2>3. NewTime(q) > latest
      BY <1>1, <2>2, SMT
  <2>. QED  BY <1>1, <2>2, <2>3, Zenon
<1>3. TimesTell
    BY <1>2 DEF SeenInv
<1>4. new.at = NewTime(q)
    OBVIOUS
<1> HIDE DEF new
<1>5. \A f \in Versions : Known(f)' => Known(f) \/ f = new
  <2> SUFFICES ASSUME NEW f \in Versions, Known(f)', f # new
               PROVE  Known(f)
      OBVIOUS
  <2>1. job'.new = new /\ job'.base = q.base /\ job'.over = InForce
      BY <1>1
  <2>2. f = InForce => Known(f)
      BY InForceKnown DEF SeenInv
  <2>3. f = q.base => Known(f)
      BY DEF Known
  <2>. QED  BY <1>1, <2>1, <2>2, <2>3 DEF Known
<1>6. \A f \in Versions : f.at \in Nat
    BY DEF Versions
<1>7. TimesTell'
    BY <1>1, <1>2, <1>3, <1>4, <1>5, <1>6 DEF TimesTell
<1>8. ChangesFollowSeen'
  <2> SUFFICES ASSUME q.op = "save"
               PROVE  InForce = q.base
      BY <1>1 DEF ChangesFollowSeen
  <2>1. Known(InForce) /\ InForce \in Versions
      BY <1>1, InForceKnown DEF SeenInv
  <2>2. Known(q.base) /\ q.base \in Versions
      BY <1>1 DEF Known
  <2>. QED  BY <1>1, <1>3, <2>1, <2>2 DEF TimesTell
<1>. QED  BY <1>7, <1>8

LEMMA SeenStep == SeenInv /\ [Next]_vars => SeenInv'
<1> SUFFICES ASSUME SeenInv, [Next]_vars
             PROVE  SeenInv'
    OBVIOUS
<1>1. TypeInv /\ TypeInv'
    BY TypeStep DEF SeenInv
<1>2. CASE UNCHANGED vars
    BY <1>1, <1>2, NothingNewKnown DEF vars, stores, history, Known
<1>3. ASSUME NEW w \in Windows, Loads(w)
      PROVE  SeenInv'
  <2>1. UNCHANGED <<primary, lastGood, job, latest, clash>>
      BY <1>3 DEF Loads, stores, history
  <2>2. CASE Readable(InForce)
    <3>1. seen' = [seen EXCEPT ![w] = InForce] /\ waiting' = waiting
        BY <1>3, <2>2 DEF Loads
    <3>2. InForce \in Versions => Known(InForce)
        BY <1>1, InForceKnown
    <3>3. \A v \in Windows : seen'[v] \in {seen[v], InForce}
        BY <1>1, <3>1 DEF TypeInv, TypeOK
    <3>4. \A f \in Versions : Known(f)' => Known(f)
        BY <2>1, <3>1, <3>2, <3>3 DEF Known
    <3>. QED  BY <1>1, <2>1, <3>4, NothingNewKnown
  <2>3. CASE ~Readable(InForce)
    <3>1. seen' = seen /\ waiting' = waiting \cup {Request("reset", Missing)}
        BY <1>3, <2>3 DEF Loads
    <3>2. Request("reset", Missing).base = Missing
        BY DEF Request
    <3>3. \A f \in Versions : Known(f)' => Known(f)
        BY <2>1, <3>1, <3>2, FilesApart DEF Known
    <3>. QED  BY <1>1, <2>1, <3>3, NothingNewKnown
  <2>. QED  BY <2>2, <2>3
<1>4. ASSUME NEW w \in Windows, SavesProfile(w) \/ ChangesApprovals(w)
      PROVE  SeenInv'
  <2>1. /\ waiting' = waiting \cup {Request("save", seen[w])}
        /\ UNCHANGED <<primary, lastGood, seen, job, latest, clash>>
      BY <1>4 DEF SavesProfile, ChangesApprovals, Sends, stores, history
  <2>2. Request("save", seen[w]).base = seen[w]
      BY DEF Request
  <2>3. \A f \in Versions : Known(f)' => Known(f)
      BY <2>1, <2>2 DEF Known
  <2>. QED  BY <1>1, <2>1, <2>3, NothingNewKnown
<1>5. CASE ResetsProfile
  <2>1. /\ waiting' = waiting \cup {Request("reset", Missing)}
        /\ UNCHANGED <<primary, lastGood, seen, job, latest, clash>>
      BY <1>5 DEF ResetsProfile, Sends, stores, history
  <2>2. Request("reset", Missing).base = Missing
      BY DEF Request
  <2>3. \A f \in Versions : Known(f)' => Known(f)
      BY <2>1, <2>2, FilesApart DEF Known
  <2>. QED  BY <1>1, <2>1, <2>3, NothingNewKnown
<1>6. ASSUME NEW q \in waiting, Begins(q)
      PROVE  SeenInv'
    BY <1>1, <1>6, SeenBegins
<1>7. ASSUME NEW q \in waiting, Refuses(q)
      PROVE  SeenInv'
  <2>1. waiting' = waiting \ {q} /\ UNCHANGED <<primary, lastGood, seen, job, latest, clash>>
      BY <1>7 DEF Refuses, stores, history
  <2>2. \A f \in Versions : Known(f)' => Known(f)
      BY <2>1 DEF Known
  <2>. QED  BY <1>1, <2>1, <2>2, NothingNewKnown
<1>8. CASE WritesPrimary
  <2>1. /\ job # NoJob /\ primary' = job.new
        /\ UNCHANGED <<lastGood, seen, waiting, latest, clash>>
        /\ job' = NoJob \/ job' = [job EXCEPT !.step = "copy"]
      BY <1>8 DEF WritesPrimary, Ends
  <2>2. job \in Jobs
      BY <1>1, <2>1 DEF TypeInv, TypeOK
  <2>3. \/ job' = NoJob
        \/ /\ job'.op = job.op /\ job'.over = job.over /\ job'.base = job.base
           /\ job'.new = job.new
      BY <2>1, <2>2 DEF Jobs
  <2>4. \A f \in Versions : Known(f)' => Known(f)
      BY <2>1, <2>3 DEF Known
  <2>. QED  BY <1>1, <2>1, <2>3, <2>4, NothingNewKnown
<1>9. CASE WritesCopy
  <2>1. /\ job # NoJob /\ lastGood' = job.new /\ job' = NoJob
        /\ UNCHANGED <<primary, seen, waiting, latest, clash>>
      BY <1>9 DEF WritesCopy, Copies, Ends
  <2>2. \A f \in Versions : Known(f)' => Known(f)
      BY <2>1 DEF Known
  <2>. QED  BY <1>1, <2>1, <2>2, NothingNewKnown
<1>10. CASE WriteFails \/ Stops
  <2>1. /\ job' = NoJob /\ UNCHANGED <<primary, lastGood, seen, latest, clash>>
        /\ waiting' \subseteq waiting
      BY <1>10 DEF WriteFails, Stops, Fault, stores, history
  <2>2. \A f \in Versions : Known(f)' => Known(f)
      BY <2>1 DEF Known
  <2>. QED  BY <1>1, <2>1, <2>2, NothingNewKnown
<1>11. CASE Ticks
  <2>1. UNCHANGED <<primary, lastGood, seen, waiting, job, latest, clash>>
      BY <1>11 DEF Ticks, stores, history
  <2>2. \A f \in Versions : Known(f)' => Known(f)
      BY <2>1 DEF Known
  <2>. QED  BY <1>1, <2>1, <2>2, NothingNewKnown
<1>12. ASSUME NEW f \in Unreadable, Damages(f)
       PROVE  SeenInv'
  <2>1. /\ UNCHANGED <<seen, waiting, job, latest, clash>> /\ f \notin Versions
        /\ \/ primary' = f /\ lastGood' = lastGood
           \/ lastGood' = f /\ primary' = primary
      BY <1>12, FilesApart DEF Damages, Damaged, Fault, history
  <2>2. \A g \in Versions : Known(g)' => Known(g)
      BY <2>1 DEF Known
  <2>. QED  BY <1>1, <2>1, <2>2, NothingNewKnown
<1>. QED
    BY <1>2, <1>3, <1>4, <1>5, <1>6, <1>7, <1>8, <1>9, <1>10, <1>11, <1>12 DEF Next

\* A change replaces the content its window had seen and no other, as long as
\* no two contents were given the same time: for any number of windows and of
\* changes, whatever fails meanwhile.
THEOREM ChangesFollowSeenHolds == Spec => []ChangesFollowSeen
<1>1. Init => SeenInv
    BY SeenInit
<1>2. SeenInv /\ [Next]_vars => SeenInv'
    BY SeenStep
<1>3. SeenInv => ChangesFollowSeen
    BY DEF SeenInv, ChangesFollowSeen
<1>. QED  BY <1>1, <1>2, <1>3, PTL DEF Spec

-----------------------------------------------------------------------------
(* The central job list *)

\* A request is a record of its fields.
IsRequest(q) == q = [op |-> q.op, arg |-> q.arg, is |-> q.is, got |-> q.got]

\* An entry of the list is a record of its fields.
IsEntry(e) == e = [id |-> e.id, category |-> e.category, applied |-> e.applied, lastSeen |-> e.lastSeen]

ListInv ==
    /\ \A q \in net : IsRequest(q)
    /\ inventory = [j \in Postings |-> inventory[j]]
    /\ \A j \in Postings : Search!Is(inventory[j]) => IsEntry(inventory[j])

LEMMA ListInit == Search!Init => ListInv
BY DEF Search!Init, ListInv, Search!Is

LEMMA EntryIs == \A e : IsEntry(e) => Search!Is(e)
BY DEF IsEntry, Search!Is, Search!Nothing

LEMMA AskIsRequest == \A op, arg : IsRequest(Search!Ask(op, arg)) /\ Search!Ask(op, arg).op = op
BY DEF Search!Ask, IsRequest

LEMMA MovesKeeps ==
    ASSUME ListInv, NEW q \in net, NEW is, NEW got, Search!Moves(q, is, got)
    PROVE  (\A x \in net' : IsRequest(x)) /\ (q.is # is => q \notin net')
<1>1. PICK r : r = [q EXCEPT !.is = is, !.got = got]
  OBVIOUS
<1>2. net' = (net \ {q}) \cup {r}
  BY <1>1, Zenon DEF Search!Moves
<1>3. IsRequest(q)
  BY DEF ListInv
<1>4. IsRequest(r) /\ r.is = is
  BY <1>1, <1>3 DEF IsRequest
<1> QED
  BY <1>2, <1>4 DEF ListInv

\* An order changes the entry it is for.
LEMMA EntryKeeps ==
    ASSUME ListInv, NEW q \in net, q.is = "sent", NEW change, Search!ServeEntry(q, change),
           q.arg.job \in Postings /\ Search!Is(inventory[q.arg.job]) => change = Search!Nothing \/ IsEntry(change)
    PROVE  /\ ListInv'
           /\ \A j \in Postings : inventory'[j] # inventory[j] =>
                q.arg.job = j /\ q \notin net' /\ Search!Is(inventory[j])
<1>1. /\ \E got : Search!Moves(q, "answered", got) \/ Search!Moves(q, "refused", got)
      /\ \/ inventory' = inventory
         \/ Search!Is(inventory[q.arg.job]) /\ inventory' = [inventory EXCEPT ![q.arg.job] = change]
  BY Zenon DEF Search!ServeEntry, Search!Answer, Search!Refuse
<1>2. (\A x \in net' : IsRequest(x)) /\ q \notin net'
  BY <1>1, MovesKeeps
<1> QED
  BY <1>1, <1>2 DEF ListInv, Search!Is

\* What a fold makes of the list before the cut.
LEMMA FoldEntries ==
    ASSUME ListInv, NEW jobs, NEW at, NEW j \in Postings
    PROVE  LET e == Search!Folded(jobs, at)[j] IN
           /\ Search!Is(inventory[j]) =>
                /\ IsEntry(e) /\ e.category = inventory[j].category /\ e.applied = inventory[j].applied
                /\ j \notin jobs => e.lastSeen = inventory[j].lastSeen
           /\ ~Search!Is(inventory[j]) =>
                IF j \in jobs THEN e = Search!NewEntry(j, at) /\ IsEntry(e) ELSE e = inventory[j]
<1>1. PICK e : e = Search!Folded(jobs, at)[j]
  OBVIOUS
<1>2. PICK i, f : i = inventory[j] /\ f = [inventory[j] EXCEPT !.lastSeen = at]
  OBVIOUS
<1>3. Search!Is(i) => IF j \in jobs THEN e = [i EXCEPT !.lastSeen = at] ELSE e = i
  BY <1>1, <1>2 DEF Search!Folded, Search!NewKeys, Search!Listed
<1>4. ~Search!Is(i) => IF j \in jobs THEN e = Search!NewEntry(j, at) ELSE e = i
  BY <1>1, <1>2 DEF Search!Folded, Search!NewKeys, Search!Listed
<1>5. Search!Is(i) => i = [id |-> i.id, category |-> i.category, applied |-> i.applied, lastSeen |-> i.lastSeen]
  BY <1>2 DEF ListInv, IsEntry
<1>6. IsEntry(Search!NewEntry(j, at))
  BY DEF IsEntry, Search!NewEntry
<1>7. Search!Is(i) =>
        /\ e = [id |-> e.id, category |-> e.category, applied |-> e.applied, lastSeen |-> e.lastSeen]
        /\ e.category = i.category /\ e.applied = i.applied /\ (j \notin jobs => e.lastSeen = i.lastSeen)
  BY <1>3, <1>5
<1>8. Search!Is(i) => IsEntry(e)
  BY <1>7 DEF IsEntry
<1> QED
  BY <1>1, <1>2, <1>4, <1>6, <1>7, <1>8

\* A fold keeps the marks of what it leaves in the list, and it cuts only a list that is full.
LEMMA FoldKeeps ==
    ASSUME ListInv, NEW jobs, NEW at, inventory' \in Search!Newest(Search!Folded(jobs, at))
    PROVE  /\ inventory' = [j \in Postings |-> inventory'[j]]
           /\ \A j \in Postings : Search!Is(inventory'[j]) => IsEntry(inventory'[j])
           /\ \A j \in Postings : Search!Is(inventory[j]) =>
                \/ Search!SameMarks(j)
                \/ /\ ~Search!Is(inventory'[j]) /\ Search!Cardinality(Search!Listed(inventory')) = LimitOf[page]
                   /\ j \notin jobs => \A k \in Search!Listed(inventory') :
                                        inventory'[k].lastSeen >= inventory[j].lastSeen
           /\ \A j \in Postings : ~Search!Is(inventory[j]) /\ Search!Is(inventory'[j]) =>
                j \in jobs /\ inventory'[j] = Search!NewEntry(j, at)
<1>1. PICK list : list = Search!Folded(jobs, at)
  OBVIOUS
<1>2. list = [j \in Postings |-> list[j]]
  BY <1>1 DEF Search!Folded
<1>3. \A j \in Postings :
        /\ Search!Is(inventory[j]) =>
             /\ IsEntry(list[j]) /\ list[j].category = inventory[j].category /\ list[j].applied = inventory[j].applied
             /\ j \notin jobs => list[j].lastSeen = inventory[j].lastSeen
        /\ ~Search!Is(inventory[j]) =>
             IF j \in jobs THEN list[j] = Search!NewEntry(j, at) /\ IsEntry(list[j]) ELSE list[j] = inventory[j]
  BY <1>1, FoldEntries
<1>4. \A j \in Postings : Search!Is(list[j]) => IsEntry(list[j])
  BY <1>3
<1>5. CASE inventory' = list
  BY <1>2, <1>3, <1>4, <1>5, EntryIs DEF Search!SameMarks
<1>6. ASSUME NEW kept \in SUBSET Search!Listed(list), Search!Cardinality(kept) = LimitOf[page],
             \A j \in kept, k \in Search!Listed(list) \ kept : list[j].lastSeen >= list[k].lastSeen,
             inventory' = [j \in Postings |-> IF j \in kept THEN list[j] ELSE Search!Nothing]
      PROVE  /\ inventory' = [j \in Postings |-> inventory'[j]]
             /\ \A j \in Postings : Search!Is(inventory'[j]) => IsEntry(inventory'[j])
             /\ \A j \in Postings : Search!Is(inventory[j]) =>
                  \/ Search!SameMarks(j)
                  \/ /\ ~Search!Is(inventory'[j]) /\ Search!Cardinality(Search!Listed(inventory')) = LimitOf[page]
                     /\ j \notin jobs => \A k \in Search!Listed(inventory') :
                                          inventory'[k].lastSeen >= inventory[j].lastSeen
             /\ \A j \in Postings : ~Search!Is(inventory[j]) /\ Search!Is(inventory'[j]) =>
                  j \in jobs /\ inventory'[j] = Search!NewEntry(j, at)
  <2>1. \A j \in Postings : inventory'[j] = IF j \in kept THEN list[j] ELSE Search!Nothing
    BY <1>6
  <2>2. \A j \in Postings : Search!Is(inventory'[j]) <=> j \in kept
    BY <1>6, <2>1 DEF Search!Listed, Search!Is
  <2>3. Search!Listed(inventory') = kept
    BY <1>6, <2>2 DEF Search!Listed
  <2>4. ASSUME NEW j \in Postings, Search!Is(inventory[j])
        PROVE  \/ Search!SameMarks(j)
               \/ /\ ~Search!Is(inventory'[j])
                  /\ j \notin jobs => \A k \in kept : inventory'[k].lastSeen >= inventory[j].lastSeen
    <3>1. CASE j \in kept
      BY <1>3, <2>1, <2>2, <2>4, <3>1 DEF Search!SameMarks
    <3>2. CASE j \notin kept
      <4>1. j \in Search!Listed(list)
        BY <1>3, <2>4, EntryIs DEF Search!Listed
      <4>2. kept \subseteq Postings
        BY DEF Search!Listed
      <4> QED
        BY <1>3, <1>6, <2>1, <2>2, <2>4, <3>2, <4>1, <4>2
    <3> QED
      BY <3>1, <3>2
  <2> QED
    BY <1>3, <1>4, <1>6, <2>1, <2>2, <2>3, <2>4 DEF Search!Listed
<1>7. \/ inventory' = list
      \/ \E kept \in SUBSET Search!Listed(list) :
           /\ Search!Cardinality(kept) = LimitOf[page]
           /\ \A j \in kept, k \in Search!Listed(list) \ kept : list[j].lastSeen >= list[k].lastSeen
           /\ inventory' = [j \in Postings |-> IF j \in kept THEN list[j] ELSE Search!Nothing]
  <2>1. inventory' \in Search!Newest(list)
    BY <1>1
  <2> QED
    BY <2>1 DEF Search!Newest
<1> QED
  BY <1>5, <1>6, <1>7

\* Plans that are due are worked off one after the other.
LEMMA DueKeeps ==
    ASSUME ListInv, NEW q \in net, NEW plan, net' = (net \ {q}) \cup {Search!WithoutPlan(q, plan)}
    PROVE  \A x \in net' : IsRequest(x)
<1>1. IsRequest(q)
  BY DEF ListInv
<1>2. PICK a : a = [q.arg EXCEPT !.plans = @ \ {plan}]
  OBVIOUS
<1>3. Search!WithoutPlan(q, plan) = [q EXCEPT !.is = "listed", !.got = Search!Nothing, !.arg = a]
  BY <1>2 DEF Search!WithoutPlan
<1>4. PICK r : r = Search!WithoutPlan(q, plan)
  OBVIOUS
<1>5. IsRequest(r)
  BY <1>1, <1>3, <1>4 DEF IsRequest
<1> QED
  BY <1>4, <1>5 DEF ListInv

\* What a fold may do to the entry of a job.
MayFold(j, q) ==
    /\ Search!Is(inventory[j]) => Search!SameMarks(j) \/ Search!CutOff(j, q)
    /\ ~Search!Is(inventory[j]) /\ Search!Is(inventory'[j]) =>
         j \in q.got.jobs /\ inventory'[j] = Search!NewEntry(j, Search!At(q))

LEMMA EntryMarked ==
    ASSUME ListInv, NEW j \in Postings, Search!Is(inventory[j]), NEW x
    PROVE  /\ IsEntry([inventory[j] EXCEPT !.category = x])
           /\ IsEntry([inventory[j] EXCEPT !.applied = x])
<1>1. PICK e : e = inventory[j] /\ IsEntry(e)
  BY DEF ListInv
<1>2. PICK c, a : c = [e EXCEPT !.category = x] /\ a = [e EXCEPT !.applied = x]
  OBVIOUS
<1>3. IsEntry(c) /\ IsEntry(a)
  BY <1>1, <1>2 DEF IsEntry
<1> QED
  BY <1>1, <1>2, <1>3

LEMMA EntryOrdered ==
    ASSUME NEW q \in net, q \notin net', q.op \in {"category", "applied", "deleteJob"}
    PROVE  Search!Ordered(q.arg.job)
BY DEF Search!Ordered

LEMMA ServeKeeps ==
    ASSUME ListInv, NEW q \in net, Search!Serve(q)
    PROVE  /\ ListInv'
           /\ \A j \in Postings :
                \/ inventory'[j] = inventory[j]
                \/ Search!Is(inventory[j]) /\ Search!Ordered(j)
                \/ Search!Folds(q) /\ MayFold(j, q)
<1>1. CASE Search!ServeCategory(q)
  <2>1. q.op = "category" /\ q.is = "sent"
        /\ Search!ServeEntry(q, [inventory[q.arg.job] EXCEPT !.category = q.arg.to])
    BY <1>1, Zenon DEF Search!ServeCategory
  <2>2. ASSUME q.arg.job \in Postings, Search!Is(inventory[q.arg.job])
        PROVE  IsEntry([inventory[q.arg.job] EXCEPT !.category = q.arg.to])
    BY <2>2, EntryMarked
  <2> QED
    BY <2>1, <2>2, EntryKeeps, EntryOrdered
<1>2. CASE Search!ServeApplied(q)
  <2>1. q.op = "applied" /\ q.is = "sent"
        /\ Search!ServeEntry(q, [inventory[q.arg.job] EXCEPT !.applied = q.arg.to])
    BY <1>2, Zenon DEF Search!ServeApplied
  <2>2. ASSUME q.arg.job \in Postings, Search!Is(inventory[q.arg.job])
        PROVE  IsEntry([inventory[q.arg.job] EXCEPT !.applied = q.arg.to])
    BY <2>2, EntryMarked
  <2> QED
    BY <2>1, <2>2, EntryKeeps, EntryOrdered
<1>3. CASE Search!ServeDeleteJob(q)
  <2>1. q.op = "deleteJob" /\ q.is = "sent" /\ Search!ServeEntry(q, Search!Nothing)
    BY <1>3, Zenon DEF Search!ServeDeleteJob
  <2> QED
    BY <2>1, EntryKeeps, EntryOrdered
<1>4. CASE Search!ServeFold(q)
  <2>1. q.is = "found" /\ \E got : Search!Moves(q, "folded", got)
    BY <1>4, Zenon DEF Search!ServeFold
  <2>2. (\A x \in net' : IsRequest(x)) /\ q \notin net'
    BY <2>1, MovesKeeps
  <2>3. inventory' \in Search!Newest(Search!Folded(q.got.jobs, Search!At(q)))
    BY <1>4, Zenon DEF Search!ServeFold
  <2>4. ListInv'
    BY <2>2, <2>3, FoldKeeps DEF ListInv
  <2>5. \A j \in Postings : MayFold(j, q)
    <3>1. PICK jobs, at : jobs = q.got.jobs /\ at = Search!At(q)
      OBVIOUS
    <3>2. inventory' \in Search!Newest(Search!Folded(jobs, at))
      BY <2>3, <3>1
    <3>3. ASSUME NEW j \in Postings PROVE MayFold(j, q)
      <4>1. /\ Search!Is(inventory[j]) =>
                 \/ Search!SameMarks(j)
                 \/ /\ ~Search!Is(inventory'[j]) /\ Search!Cardinality(Search!Listed(inventory')) = LimitOf[page]
                    /\ j \notin jobs => \A k \in Search!Listed(inventory') :
                                         inventory'[k].lastSeen >= inventory[j].lastSeen
            /\ ~Search!Is(inventory[j]) /\ Search!Is(inventory'[j]) =>
                 j \in jobs /\ inventory'[j] = Search!NewEntry(j, at)
        BY <3>2, FoldKeeps
      <4> QED
        BY <3>1, <4>1 DEF MayFold, Search!CutOff
    <3> QED
      BY <3>3
  <2>6. Search!Folds(q)
    BY <2>1, <2>2 DEF Search!Folds
  <2> QED
    BY <2>4, <2>5, <2>6
<1>5. CASE Search!ServeSearch(q) \/ Search!ServeSaveRun(q) \/ Search!ServeAdopt(q) \/ Search!ServeJobs(q)
           \/ Search!ServePlans(q) \/ Search!ServeCreatePlan(q) \/ Search!ServeDeletePlan(q) \/ Search!ServeDueEnds(q)
  <2>1. inventory' = inventory /\ \E is, got : Search!Moves(q, is, got)
    BY <1>5, Zenon DEF Search!ServeSearch, Search!ServeSaveRun, Search!ServeAdopt, Search!ServeJobs,
       Search!ServePlans, Search!ServeCreatePlan, Search!ServeDeletePlan, Search!ServeDueEnds,
       Search!Answer, Search!Refuse, Search!serverVars
  <2> QED
    BY <2>1, MovesKeeps DEF ListInv
<1>6. CASE Search!ServeDue(q)
  <2>1. PICK a : a = [id |-> "due", plans |-> Search!DuePlans, at |-> Search!After(Search!Seen)]
    OBVIOUS
  <2>2. PICK r : r = [q EXCEPT !.is = "listed", !.arg = a]
    OBVIOUS
  <2>3. inventory' = inventory /\ net' = (net \ {q}) \cup {r}
    BY <1>6, <2>1, <2>2, Zenon DEF Search!ServeDue, Search!serverVars
  <2>4. IsRequest(q)
    BY DEF ListInv
  <2>5. IsRequest(r)
    BY <2>2, <2>4 DEF IsRequest
  <2> QED
    BY <2>3, <2>5 DEF ListInv
<1>7. CASE Search!ServeDueSearch(q) \/ Search!ServeDuePlan(q)
  <2>1. /\ inventory' = inventory
        /\ \/ \E is, got : Search!Moves(q, is, got)
           \/ \E plan : net' = (net \ {q}) \cup {Search!WithoutPlan(q, plan)}
    BY <1>7, Zenon DEF Search!ServeDueSearch, Search!ServeDuePlan, Search!serverVars
  <2> QED
    BY <2>1, MovesKeeps, DueKeeps DEF ListInv
<1> QED
  BY <1>1, <1>2, <1>3, <1>4, <1>5, <1>6, <1>7, Zenon DEF Search!Serve

\* The answers and orders of the page leave the list alone.
LEMMA PageKeeps ==
    ASSUME ListInv, inventory' = inventory, NEW A, net' \subseteq net \cup A, \A a \in A : IsRequest(a)
    PROVE  ListInv'
BY DEF ListInv

LEMMA AsksKeeps ==
    ASSUME ListInv, NEW op, NEW arg, Search!Asks(Search!Ask(op, arg))
    PROVE  ListInv' /\ inventory' = inventory
<1>1. PICK a : a = Search!Ask(op, arg)
  OBVIOUS
<1>2. inventory' = inventory /\ net' = net \cup {a}
  BY <1>1, Zenon DEF Search!Asks, Search!Sends, Search!Quiet, Search!serverVars
<1>3. IsRequest(a)
  BY <1>1, AskIsRequest
<1>4. PICK A : A = {a}
  OBVIOUS
<1> QED
  BY <1>2, <1>3, <1>4, PageKeeps

LEMMA FirstIsRequest == \A jobs : \A a \in Search!DeleteFirst(jobs) : IsRequest(a)
BY AskIsRequest DEF Search!DeleteFirst

LEMMA HandlersKeep ==
    ASSUME ListInv, NEW q \in net, Search!Handlers(q)
    PROVE  ListInv' /\ inventory' = inventory
<1>1. inventory' = inventory
  BY Zenon DEF Search!Handlers, Search!SearchAnswered, Search!AdoptAnswered, Search!JobsAnswered,
     Search!RefreshAnswered, Search!EntryAnswered, Search!DeleteAnswered, Search!PlansAnswered,
     Search!CreateAnswered, Search!DeleteScheduleAnswered, Search!DueAnswered, Search!Quiet, Search!serverVars
<1>2. \E A \in {{}, {Search!Ask("jobs", Search!Nothing)}, Search!DeleteFirst(q.arg.rest)} : Search!Finish(q, A)
  BY Zenon DEF Search!Handlers, Search!SearchAnswered, Search!AdoptAnswered, Search!JobsAnswered,
     Search!RefreshAnswered, Search!EntryAnswered, Search!DeleteAnswered, Search!PlansAnswered,
     Search!CreateAnswered, Search!DeleteScheduleAnswered, Search!DueAnswered
<1>3. PICK A : (\A a \in A : IsRequest(a)) /\ Search!Finish(q, A)
  BY <1>2, AskIsRequest, FirstIsRequest
<1> QED
  BY <1>1, <1>3, PageKeeps DEF Search!Finish

\* A stop of the server loses answers and leaves the list alone.
LEMMA StopsKeep ==
    ASSUME ListInv, Search!Stops
    PROVE  ListInv' /\ inventory' = inventory
<1>1. inventory' = inventory /\ \A x \in net' : \E q \in net : x = [q EXCEPT !.is = "lost", !.got = Search!Nothing]
  BY DEF Search!Stops, Search!serverVars
<1>2. ASSUME NEW x \in net'
      PROVE  IsRequest(x)
  <2>1. PICK q \in net : x = [q EXCEPT !.is = "lost", !.got = Search!Nothing]
    BY <1>1
  <2>2. IsRequest(q)
    BY DEF ListInv
  <2> QED
    BY <2>1, <2>2 DEF IsRequest
<1> QED
  BY <1>1, <1>2 DEF ListInv

\* Whatever the step, the marks of a job change by an order for it, by a clearing or by a cut,
\* and what comes into the list has been found.
LEMMA ListStep ==
    ListInv /\ [Search!Next]_searchVars =>
      /\ ListInv'
      /\ \A j \in Postings :
           /\ Search!Is(inventory[j]) =>
                \/ Search!SameMarks(j) \/ Search!Ordered(j) \/ Search!Cleared
                \/ \E q \in net : Search!Folds(q) /\ Search!CutOff(j, q)
           /\ ~Search!Is(inventory[j]) /\ Search!Is(inventory'[j]) =>
                \E q \in net : Search!Folds(q) /\ j \in q.got.jobs
                               /\ inventory'[j] = Search!NewEntry(j, Search!At(q))
<1> SUFFICES ASSUME ListInv, [Search!Next]_searchVars
             PROVE  \/ ListInv' /\ inventory' = inventory
                    \/ ListInv' /\ Search!Cleared
                    \/ \E q \in net :
                         /\ ListInv'
                         /\ \A j \in Postings :
                              \/ inventory'[j] = inventory[j]
                              \/ Search!Is(inventory[j]) /\ Search!Ordered(j)
                              \/ Search!Folds(q) /\ MayFold(j, q)
  <2>1. ASSUME Search!Cleared, NEW j \in Postings PROVE ~Search!Is(inventory'[j])
    BY <2>1 DEF Search!Cleared, Search!Listed
  <2>2. \A j \in Postings : Search!Is(inventory[j]) /\ inventory'[j] = inventory[j] => Search!SameMarks(j)
    BY DEF Search!SameMarks
  <2> QED
    BY <2>1, <2>2 DEF MayFold
<1>1. CASE \E q \in net : Search!Serve(q)
  BY <1>1, ServeKeeps
<1>2. CASE \E q \in net : Search!Handlers(q)
  BY <1>2, HandlersKeep
<1>3. CASE Search!Stops
  BY <1>3, StopsKeep
<1>4. CASE \/ \E r \in SearchRuns : Search!RunIsDropped(r)
           \/ \E p \in Plans : Search!PlanComesDue(p)
           \/ UNCHANGED searchVars
  <2>1. inventory' = inventory /\ net' = net
    BY <1>4, Zenon DEF Search!RunIsDropped, Search!PlanComesDue, searchVars
  <2> QED
    BY <2>1 DEF ListInv
<1>5. CASE \/ Search!RunSearch \/ Search!AdoptSearchResults \/ Search!LoadJobs \/ Search!RefreshJobsSearch
           \/ \E j \in Postings : \/ Search!ToggleJobApplied(j) \/ Search!DeleteJob(j)
                                  \/ \E c \in Search!Categories : Search!MoveJobCategory(j, c)
           \/ Search!LoadOperations \/ Search!CreateDisabledSchedule \/ Search!RunDue
           \/ \E p \in Plans : Search!DeleteSchedule(p)
  <2>1. \E op, arg : Search!Asks(Search!Ask(op, arg))
    BY <1>5, Zenon DEF Search!RunSearch, Search!AdoptSearchResults, Search!LoadJobs, Search!RefreshJobsSearch,
       Search!ToggleJobApplied, Search!DeleteJob, Search!MoveJobCategory, Search!LoadOperations,
       Search!CreateDisabledSchedule, Search!RunDue, Search!DeleteSchedule
  <2> QED
    BY <2>1, AsksKeeps
<1>6. ASSUME NEW c \in Search!Categories, Search!DeleteJobsInCategory(c)
      PROVE  ListInv' /\ inventory' = inventory
  <2>1. PICK jobs : jobs # {} /\ \A a \in Search!DeleteFirst(jobs) : Search!Asks(a)
    BY <1>6, Zenon DEF Search!DeleteJobsInCategory
  <2>2. \E op, arg : Search!Asks(Search!Ask(op, arg))
    BY <2>1 DEF Search!DeleteFirst
  <2> QED
    BY <2>2, AsksKeeps
<1>7. ASSUME Search!ListIsCleared PROVE ListInv' /\ Search!Cleared
  <2>1. net' = net /\ inventory' = [j \in Postings |-> Search!Nothing]
    BY <1>7, Zenon DEF Search!ListIsCleared
  <2> QED
    BY <2>1 DEF ListInv, Search!Cleared, Search!Listed, Search!Is
<1> QED
  BY <1>1, <1>2, <1>3, <1>4, <1>5, <1>6, <1>7, Zenon DEF Search!Next

HIDE DEF Unreadable

-----------------------------------------------------------------------------
(* Artifacts and the deletion of ended runs *)

Lives == {"proposed", "approved", "rejected", "used"}
Entry == [life : Lives, emptied : BOOLEAN]

\* A deletion that goes on, and one that has looked at the artifacts for good.
Going == {"build", "look", "apply", "deleting", "logs", "audit"}
Settled == Going \ {"build"}

\* A deletion is a record of its fields; it carries holds that have been in force.
SweepShape(s) ==
    LET w == sweeps[s] IN
    \/ w \in {Kept!Rest, Kept!Over}
    \/ /\ w = [at |-> "confirm", runs |-> w.runs, preview |-> w.preview]
       /\ w.runs = Selection[s]
    \/ /\ w = [at |-> w.at, runs |-> w.runs, preview |-> w.preview, holds |-> w.holds, done |-> w.done]
       /\ w.at \in Going /\ w.runs = Selection[s]
       /\ w.done \cap logs = {}
       /\ \A h \in w.holds : h \in Holds /\ holds[h].state \in {"active", "released"}

HoldShape(h) ==
    \/ holds[h] = [state |-> "none"]
    \/ /\ holds[h] = [state |-> holds[h].state, on |-> holds[h].on]
       /\ holds[h].state \in {"active", "released"}

PreviewShape(p) ==
    p = [runs |-> p.runs, held |-> p.held,
         effect |-> [records |-> p.effect.records, blobs |-> p.effect.blobs]]

\* What a deletion that has looked at the artifacts may delete was not held when it read
\* the holds, and once it is at the logs its artifacts are not available any more.
SweepInv(s) ==
    /\ SweepShape(s)
    /\ sweeps[s].at \in Settled =>
         /\ PreviewShape(sweeps[s].preview)
         /\ Kept!Chosen(s) \subseteq Artifacts
         /\ \A a \in Kept!Chosen(s) : ~Kept!ArtifactHeld(a, sweeps[s].holds)
         /\ \A r \in sweeps[s].runs : ~Kept!RunHeld(r, sweeps[s].holds)
    /\ sweeps[s].at = "logs" => \A a \in Kept!Chosen(s) :
         /\ records[a] # Kept!None /\ ~Kept!Available(a)
         /\ files.at \in {"records", "undo"} => a \notin files.staged

\* What the artifact store has in its hands.
StoreShape ==
    \/ files = Kept!Free
    \/ /\ files = [at |-> files.at, artifact |-> files.artifact]
       /\ files.at \in {"create", "adopt"} /\ files.artifact \in Artifacts
    \/ /\ files = [at |-> files.at, by |-> files.by, left |-> files.left, rewrite |-> files.rewrite,
                   staged |-> files.staged, moved |-> files.moved, blobs |-> files.blobs]
       /\ files.at \in {"records", "undo"}
       /\ files.by \in Sweeps /\ sweeps[files.by].at = "deleting"

\* A record that was moved can be put back as it was; it is gone, or of a used artifact
\* and without content.
Staged(a) ==
    /\ a \in Kept!Chosen(files.by)
    /\ Kept!Of(a) \in Entry /\ ~Kept!Of(a).emptied
    /\ \/ records[a] = Kept!Gone
       \/ records[a] \in Entry /\ records[a].emptied /\ Kept!Of(a).life = "used"

StoreInv ==
    /\ files.at = "create" => records[files.artifact] = Kept!None /\ Blob[files.artifact] \in blobs
    /\ files.at = "adopt" => records[files.artifact] \in Entry
    /\ files.at \in {"records", "undo"} =>
         /\ \A a \in files.staged : Staged(a)
         /\ ~torn => \A a \in Artifacts :
              Kept!Available(a) \/ a \in files.staged => Blob[a] \in blobs \cup files.moved
    /\ files.at = "records" =>
         /\ \A a \in files.left : /\ a \in Kept!Chosen(files.by) /\ records[a] \in Entry
                                  /\ records[a] = Kept!Of(a) /\ ~records[a].emptied
         /\ \A a \in files.rewrite : /\ a \in files.staged /\ records[a] = Kept!Gone
                                     /\ Kept!Of(a).life = "used"
         /\ \A a \in Kept!Chosen(files.by) \ files.left : records[a] # Kept!None /\ ~Kept!Available(a)
         /\ \A b \in files.blobs, a \in Artifacts : Kept!Available(a) /\ Blob[a] = b => a \in files.left

FilesInv ==
    /\ records \in [Artifacts -> Entry \cup {Kept!None, Kept!Gone}]
    /\ sweeps = [s \in Sweeps |-> sweeps[s]] /\ holds = [h \in Holds |-> holds[h]]
    /\ \A s \in Sweeps : SweepInv(s)
    /\ \A h \in Holds : HoldShape(h)
    /\ StoreShape /\ StoreInv
    /\ torn \in BOOLEAN
    /\ Kept!ContentOfRecords

LEMMA EntryShape ==
    /\ Kept!None \notin Entry /\ Kept!Gone \notin Entry /\ Kept!None # Kept!Gone
    /\ Kept!None.life \notin Lives /\ Kept!Gone.life \notin Lives
    /\ \A r \in Entry : r = [life |-> r.life, emptied |-> r.emptied] /\ r.life \in Lives /\ r.emptied \in BOOLEAN
BY DEF Entry, Lives, Kept!None, Kept!Gone

LEMMA FilesInit == Kept!Init => FilesInv
<1> SUFFICES ASSUME Kept!Init PROVE FilesInv
  OBVIOUS
<1>1. \A s \in Sweeps : SweepInv(s)
  BY DEF Kept!Init, SweepInv, SweepShape, Settled, Going, Kept!Rest, Kept!Over
<1>2. StoreShape /\ StoreInv
  BY DEF Kept!Init, StoreShape, StoreInv, Kept!Free
<1>3. Kept!ContentOfRecords
  BY DEF Kept!Init, Kept!ContentOfRecords, Kept!Available, Kept!There
<1>4. \A h \in Holds : HoldShape(h)
  BY DEF Kept!Init, HoldShape
<1> QED
  BY <1>1, <1>2, <1>3, <1>4 DEF Kept!Init, FilesInv

-----------------------------------------------------------------------------
(* What does not move *)

\* A deletion that stays where it is.
LEMMA SweepStays ==
    ASSUME FilesInv, NEW s \in Sweeps, sweeps'[s] = sweeps[s], holds' = holds, logs' \subseteq logs,
           sweeps[s].at = "logs" => \A a \in Kept!Chosen(s) :
              /\ records'[a] # Kept!None /\ ~Kept!Available(a)'
              /\ files'.at \in {"records", "undo"} => a \notin files'.staged
    PROVE  SweepInv(s)'
<1>1. SweepInv(s)
  BY DEF FilesInv
<1>2. Kept!Chosen(s)' = Kept!Chosen(s)
  BY DEF Kept!Chosen
<1>3. SweepShape(s)'
  BY <1>1 DEF SweepInv, SweepShape
<1>4. sweeps[s].at \in Settled => /\ PreviewShape(sweeps'[s].preview)
                                  /\ \A a \in Kept!Chosen(s) : ~Kept!ArtifactHeld(a, sweeps[s].holds)'
                                  /\ \A r \in sweeps'[s].runs : ~Kept!RunHeld(r, sweeps[s].holds)'
  BY <1>1 DEF SweepInv, Kept!ArtifactHeld, Kept!RunHeld, Kept!On
<1> QED
  BY <1>1, <1>2, <1>3, <1>4 DEF SweepInv

LEMMA Unprimed ==
    ASSUME NEW a, records'[a] = records[a]
    PROVE  Kept!Available(a)' <=> Kept!Available(a)
BY DEF Kept!Available, Kept!There

\* A deletion that is over or not begun.
LEMMA SweepOver ==
    ASSUME NEW s \in Sweeps, sweeps'[s] \in {Kept!Rest, Kept!Over}
    PROVE  SweepInv(s)'
BY DEF SweepInv, SweepShape, Settled, Going, Kept!Rest, Kept!Over

\* The artifact store rests or waits while others move.
LEMMA StoreStays ==
    ASSUME FilesInv, UNCHANGED <<records, blobs, files, torn>>,
           \A s \in Sweeps : sweeps[s].at = "deleting" => sweeps'[s] = sweeps[s]
    PROVE  StoreShape' /\ StoreInv' /\ Kept!ContentOfRecords'
<1>1. StoreShape'
  BY DEF FilesInv, StoreShape
<1>2. \A a : Kept!Available(a)' <=> Kept!Available(a)
  BY DEF Kept!Available, Kept!There
<1>3. Kept!ContentOfRecords'
  BY <1>2 DEF FilesInv, Kept!ContentOfRecords
<1>4. files.at \in {"records", "undo"} =>
        /\ Kept!Chosen(files.by)' = Kept!Chosen(files.by)
        /\ \A a : Kept!Of(a)' = Kept!Of(a)
        /\ \A a : Staged(a)' <=> Staged(a)
  <2>1. files.at \in {"records", "undo"} => sweeps'[files.by] = sweeps[files.by]
    BY DEF FilesInv, StoreShape, Kept!Free
  <2> QED
    BY <2>1 DEF Kept!Chosen, Kept!Of, Staged
<1>5. StoreInv'
  BY <1>2, <1>4 DEF FilesInv, StoreInv
<1> QED
  BY <1>1, <1>3, <1>5

\* One deletion moves, and not on the artifacts.
LEMMA OneSweepMoves ==
    ASSUME FilesInv, NEW s \in Sweeps, NEW w, sweeps' = [sweeps EXCEPT ![s] = w],
           sweeps[s].at # "deleting", UNCHANGED <<records, blobs, files, torn, holds>>, logs' \subseteq logs,
           SweepInv(s)'
    PROVE  FilesInv'
<1>1. \A t \in Sweeps : t # s => sweeps'[t] = sweeps[t]
  BY DEF FilesInv
<1>2. sweeps' = [t \in Sweeps |-> sweeps'[t]]
  BY DEF FilesInv
<1>3. StoreShape' /\ StoreInv' /\ Kept!ContentOfRecords'
  BY <1>1, StoreStays
<1>4. ASSUME NEW t \in Sweeps, t # s PROVE SweepInv(t)'
  <2>1. \A a : Kept!Available(a)' <=> Kept!Available(a)
    BY DEF Kept!Available, Kept!There
  <2>2. SweepInv(t)
    BY DEF FilesInv
  <2>3. sweeps[t].at = "logs" => \A a \in Kept!Chosen(t) :
              /\ records'[a] # Kept!None /\ ~Kept!Available(a)'
              /\ files'.at \in {"records", "undo"} => a \notin files'.staged
    BY <2>1, <2>2 DEF SweepInv
  <2> QED
    BY <1>1, <1>4, <2>3, SweepStays
<1>5. \A h \in Holds : HoldShape(h)'
  BY DEF FilesInv, HoldShape
<1> QED
  BY <1>2, <1>3, <1>4, <1>5 DEF FilesInv

-----------------------------------------------------------------------------
(* The deletions *)

\* What a deletion that goes on is.
LEMMA SweepFields ==
    ASSUME FilesInv, NEW s \in Sweeps
    PROVE  /\ SweepInv(s)
           /\ sweeps[s].at \in Going =>
                sweeps[s] = [at |-> sweeps[s].at, runs |-> sweeps[s].runs, preview |-> sweeps[s].preview,
                             holds |-> sweeps[s].holds, done |-> sweeps[s].done]
BY DEF FilesInv, SweepInv, SweepShape, Going, Kept!Rest, Kept!Over

LEMMA SweepBegins ==
    ASSUME FilesInv, NEW s \in Sweeps, Kept!Ask(s) \/ Kept!Confirms(s)
    PROVE  FilesInv'
<1>1. CASE Kept!Ask(s)
  <2>1. PICK w : /\ w = [at |-> "confirm", runs |-> Selection[s], preview |-> Kept!Preview(Selection[s], Kept!Active)]
                 /\ sweeps' = [sweeps EXCEPT ![s] = w]
    BY <1>1 DEF Kept!Ask
  <2>2. sweeps'[s] = w
    BY <2>1 DEF FilesInv
  <2>3. SweepInv(s)'
    BY <2>1, <2>2 DEF SweepInv, SweepShape, Settled, Going
  <2> QED
    BY <1>1, <2>1, <2>3, OneSweepMoves DEF Kept!Ask, Kept!Is, Kept!artifactVars, Kept!holdVars
<1>2. CASE Kept!Confirms(s)
  <2>1. PICK w : sweeps' = [sweeps EXCEPT ![s] = w] /\
           \/ w = Kept!Over
           \/ w = [at |-> "build", runs |-> sweeps[s].runs, preview |-> sweeps[s].preview,
                   holds |-> Kept!Active, done |-> {}]
    BY <1>2 DEF Kept!Confirms, Kept!Ends
  <2>2. sweeps'[s] = w
    BY <2>1 DEF FilesInv
  <2>3. sweeps[s].at = "confirm" /\ UNCHANGED <<records, blobs, files, torn, holds, logs>>
    BY <1>2 DEF Kept!Confirms, Kept!Is, Kept!artifactVars, Kept!holdVars
  <2>4. CASE w = Kept!Over
    BY <2>1, <2>2, <2>3, <2>4, SweepOver, OneSweepMoves
  <2>5. CASE w = [at |-> "build", runs |-> sweeps[s].runs, preview |-> sweeps[s].preview,
                  holds |-> Kept!Active, done |-> {}]
    <3>0. SweepShape(s)
      BY SweepFields DEF SweepInv
    <3>1. sweeps[s].runs = Selection[s]
      BY <2>3, <3>0 DEF SweepShape, Going, Kept!Rest, Kept!Over
    <3>2. \A h \in Kept!Active : h \in Holds /\ holds[h].state = "active"
      BY DEF Kept!Active
    <3>3. SweepInv(s)'
      BY <2>2, <2>3, <2>5, <3>1, <3>2 DEF SweepInv, SweepShape, Settled, Going
    <3> QED
      BY <2>1, <2>3, <3>3, OneSweepMoves
  <2> QED
    BY <2>1, <2>4, <2>5
<1> QED
  BY <1>1, <1>2

LEMMA SweepExcept ==
    ASSUME NEW q, q = [at |-> q.at, runs |-> q.runs, preview |-> q.preview, holds |-> q.holds, done |-> q.done],
           NEW place, NEW p
    PROVE  /\ [q EXCEPT !.at = place] =
                [at |-> place, runs |-> q.runs, preview |-> q.preview, holds |-> q.holds, done |-> q.done]
           /\ [q EXCEPT !.preview = p, !.at = place] =
                [at |-> place, runs |-> q.runs, preview |-> p, holds |-> q.holds, done |-> q.done]
<1>1. PICK r : r = [q EXCEPT !.at = place]
  OBVIOUS
<1>2. r = [at |-> place, runs |-> q.runs, preview |-> q.preview, holds |-> q.holds, done |-> q.done]
  BY <1>1
<1>3. PICK x : x = [q EXCEPT !.preview = p, !.at = place]
  OBVIOUS
<1>4. x = [at |-> place, runs |-> q.runs, preview |-> p, holds |-> q.holds, done |-> q.done]
  BY <1>3
<1> QED
  BY <1>1, <1>2, <1>3, <1>4

\* What is held stays so while the holds do.
LEMMA HeldStays ==
    ASSUME holds' = holds, NEW hs
    PROVE  /\ \A a : Kept!ArtifactHeld(a, hs)' <=> Kept!ArtifactHeld(a, hs)
           /\ \A r : Kept!RunHeld(r, hs)' <=> Kept!RunHeld(r, hs)
BY DEF Kept!ArtifactHeld, Kept!RunHeld, Kept!On

\* A deletion that goes on to another place, with the same in its hands.
LEMMA GoesTo ==
    ASSUME FilesInv, NEW s \in Sweeps, sweeps[s].at \in Going, NEW place, Kept!Moves(s, place)
    PROVE  /\ sweeps' = [sweeps EXCEPT ![s] = sweeps'[s]]
           /\ sweeps'[s] = [at |-> place, runs |-> sweeps[s].runs, preview |-> sweeps[s].preview,
                            holds |-> sweeps[s].holds, done |-> sweeps[s].done]
<1>1. PICK w : w = [sweeps[s] EXCEPT !.at = place]
  OBVIOUS
<1>2. sweeps' = [sweeps EXCEPT ![s] = w] /\ sweeps'[s] = w
  BY <1>1 DEF Kept!Moves, FilesInv
<1>3. w = [at |-> place, runs |-> sweeps[s].runs, preview |-> sweeps[s].preview,
                            holds |-> sweeps[s].holds, done |-> sweeps[s].done]
  BY <1>1, SweepFields, SweepExcept
<1> QED
  BY <1>2, <1>3

LEMMA SweepEnds ==
    ASSUME FilesInv, NEW s \in Sweeps, Kept!Ends(s), sweeps[s].at # "deleting",
           UNCHANGED <<records, blobs, files, torn, holds>>, logs' \subseteq logs
    PROVE  FilesInv'
<1>1. sweeps' = [sweeps EXCEPT ![s] = Kept!Over] /\ sweeps'[s] = Kept!Over
  BY DEF Kept!Ends, FilesInv
<1> QED
  BY <1>1, SweepOver, OneSweepMoves

LEMMA SweepBuilds ==
    ASSUME FilesInv, NEW s \in Sweeps, Kept!Builds(s)
    PROVE  FilesInv'
<1>1. sweeps[s].at = "build" /\ UNCHANGED <<records, blobs, files, torn, holds, logs>>
  BY DEF Kept!Builds, Kept!Is, Kept!artifactVars, Kept!holdVars
<1>2. CASE Kept!Ends(s)
  BY <1>1, <1>2, SweepEnds
<1>3. CASE Kept!Moves(s, "look")
  <2> DEFINE w == sweeps[s]
             chosen == Kept!ArtifactsOf(w.runs) \ {a \in Kept!ArtifactsOf(w.runs) : Kept!ArtifactHeld(a, w.holds)}
  <2>1. /\ Kept!Preview(w.runs, w.holds) = w.preview
        /\ ~Kept!IsProtected(w.runs, w.preview)
    <3>1. ~Kept!Ends(s)
      <4>1. sweeps[s].at \in Going
        BY <1>1 DEF Going
      <4>2. PICK q : /\ q = sweeps'[s]
                     /\ q = [at |-> "look", runs |-> w.runs, preview |-> w.preview,
                             holds |-> w.holds, done |-> w.done]
        BY <1>3, <4>1, GoesTo, Zenon
      <4> QED
        <5>1. q.at = "look"
          BY <4>2
        <5> QED
          <6>1. ASSUME Kept!Ends(s) PROVE sweeps'[s] = Kept!Over
            BY <6>1 DEF Kept!Ends, FilesInv
          <6> QED
            BY <4>2, <5>1, <6>1 DEF Kept!Over
    <3> QED
      BY <3>1 DEF Kept!Builds
  <2>2. /\ PreviewShape(w.preview)
        /\ DOMAIN w.preview.effect.records = chosen
    BY <2>1 DEF Kept!Preview, Kept!OfArtifacts, PreviewShape
  <2>3. \A r \in w.runs : ~Kept!RunHeld(r, w.holds)
    BY <2>1 DEF Kept!Preview, Kept!IsProtected
  <2>4. /\ sweeps' = [sweeps EXCEPT ![s] = sweeps'[s]]
        /\ sweeps'[s] = [at |-> "look", runs |-> w.runs, preview |-> w.preview,
                         holds |-> w.holds, done |-> w.done]
    BY <1>1, <1>3, GoesTo DEF Going
  <2>5. SweepShape(s)
    BY SweepFields DEF SweepInv
  <2>6. SweepShape(s)'
    BY <1>1, <2>4, <2>5 DEF SweepShape, Going, Kept!Rest, Kept!Over
  <2>7. Kept!Chosen(s)' = chosen /\ chosen \subseteq Artifacts
    BY <2>2, <2>4 DEF Kept!Chosen, Kept!ArtifactsOf
  <2>8. PICK hs : hs = w.holds
    OBVIOUS
  <2>9. SweepInv(s)'
    <3>1. sweeps'[s].at = "look" /\ sweeps'[s].preview = w.preview /\ sweeps'[s].runs = w.runs
          /\ sweeps'[s].holds = hs
      BY <2>4, <2>8
    <3>2. \A a \in Kept!Chosen(s)' : ~Kept!ArtifactHeld(a, hs)'
      BY <1>1, <2>7, <2>8, HeldStays
    <3>3. \A r \in sweeps'[s].runs : ~Kept!RunHeld(r, hs)'
      BY <1>1, <2>3, <2>8, <3>1, HeldStays
    <3>4. PreviewShape(sweeps'[s].preview)
      BY <2>2, <3>1
    <3> QED
      BY <2>6, <2>7, <3>1, <3>2, <3>3, <3>4 DEF SweepInv
  <2> QED
    BY <1>1, <2>4, <2>9, OneSweepMoves
<1> QED
  BY <1>2, <1>3 DEF Kept!Builds

LEMMA SweepLooks ==
    ASSUME FilesInv, NEW s \in Sweeps, Kept!LooksAgain(s)
    PROVE  FilesInv'
<1>1. sweeps[s].at = "look" /\ UNCHANGED <<records, blobs, files, torn, holds, logs>>
  BY DEF Kept!LooksAgain, Kept!Is, Kept!artifactVars, Kept!holdVars
<1>2. CASE Kept!Ends(s)
  BY <1>1, <1>2, SweepEnds
<1>3. CASE ~Kept!Ends(s)
  <2>1. PICK e, p : /\ e = Kept!OfArtifacts(Kept!Chosen(s))
                    /\ p = [sweeps[s].preview EXCEPT !.effect = e]
    OBVIOUS
  <2>2. PICK place \in {"logs", "apply"} :
          /\ sweeps' = [sweeps EXCEPT ![s].preview.effect = e, ![s].at = place]
          /\ place = "logs" => Kept!Chosen(s) = {}
    BY <1>3, <2>1 DEF Kept!LooksAgain
  <2>3. PICK w : w = [sweeps[s] EXCEPT !.preview = p, !.at = place]
    OBVIOUS
  <2>4. SweepInv(s) /\ sweeps[s].at \in Settled /\ PreviewShape(sweeps[s].preview)
    BY <1>1, SweepFields DEF SweepInv, Settled, Going
  <2>5. w = [at |-> place, runs |-> sweeps[s].runs, preview |-> p, holds |-> sweeps[s].holds, done |-> sweeps[s].done]
    <3>1. PICK q : q = sweeps[s]
      OBVIOUS
    <3>2. q = [at |-> q.at, runs |-> q.runs, preview |-> q.preview, holds |-> q.holds, done |-> q.done]
      BY <1>1, <3>1, SweepFields DEF Going
    <3>3. w = [q EXCEPT !.preview = p, !.at = place]
      BY <2>3, <3>1
    <3>4. w = [at |-> place, runs |-> q.runs, preview |-> p, holds |-> q.holds, done |-> q.done]
      BY <3>2, <3>3, SweepExcept
    <3> QED
      BY <3>1, <3>4
  <2>6. sweeps' = [sweeps EXCEPT ![s] = w] /\ sweeps'[s] = w
    BY <2>1, <2>2, <2>3 DEF FilesInv
  <2>7. /\ p = [runs |-> sweeps[s].preview.runs, held |-> sweeps[s].preview.held, effect |-> e]
        /\ e = [records |-> e.records, blobs |-> e.blobs] /\ DOMAIN e.records = Kept!Chosen(s)
    BY <2>1, <2>4 DEF PreviewShape, Kept!OfArtifacts
  <2>8. Kept!Chosen(s)' = Kept!Chosen(s)
    BY <2>5, <2>6, <2>7 DEF Kept!Chosen
  <2>9. PreviewShape(p)
    BY <2>7 DEF PreviewShape
  <2>10. SweepShape(s)'
    BY <1>1, <2>4, <2>5, <2>6 DEF SweepInv, SweepShape, Going, Kept!Rest, Kept!Over
  <2>11. PICK hs : hs = sweeps[s].holds
    OBVIOUS
  <2>12. SweepInv(s)'
    <3>1. sweeps'[s].at = place /\ sweeps'[s].preview = p /\ sweeps'[s].runs = sweeps[s].runs
          /\ sweeps'[s].holds = hs
      BY <2>5, <2>6, <2>11
    <3>2. \A a \in Kept!Chosen(s) : ~Kept!ArtifactHeld(a, hs)'
      BY <1>1, <2>4, <2>11, HeldStays DEF SweepInv
    <3>3. \A r \in sweeps[s].runs : ~Kept!RunHeld(r, hs)'
      BY <1>1, <2>4, <2>11, HeldStays DEF SweepInv
    <3>4. Kept!Chosen(s) \subseteq Artifacts
      BY <2>4 DEF SweepInv
    <3>5. PreviewShape(sweeps'[s].preview)
      BY <2>9, <3>1
    <3>6. place = "logs" => Kept!Chosen(s)' = {}
      BY <2>2, <2>8
    <3> QED
      BY <2>8, <2>10, <3>1, <3>2, <3>3, <3>4, <3>5, <3>6 DEF SweepInv
  <2> QED
    BY <1>1, <2>6, <2>12, OneSweepMoves
<1> QED
  BY <1>2, <1>3

LEMMA LogsDeleted ==
    ASSUME FilesInv, NEW s \in Sweeps, NEW r \in EndedRuns, Kept!DeletesLogs(s, r)
    PROVE  FilesInv'
<1>1. sweeps[s].at = "logs" /\ UNCHANGED <<records, blobs, files, torn, holds>>
  BY DEF Kept!DeletesLogs, Kept!Is, Kept!artifactVars, Kept!holdVars
<1>2. CASE Kept!Ends(s) /\ logs' = logs
  BY <1>1, <1>2, SweepEnds
<1>3. CASE logs' = logs \ {r} /\ sweeps' = [sweeps EXCEPT ![s].done = @ \cup {r}]
  <2>1. PICK w : w = [sweeps[s] EXCEPT !.done = @ \cup {r}]
    OBVIOUS
  <2>2. sweeps[s] = [at |-> "logs", runs |-> sweeps[s].runs, preview |-> sweeps[s].preview,
                     holds |-> sweeps[s].holds, done |-> sweeps[s].done]
    BY <1>1, SweepFields DEF Going
  <2>3. w = [at |-> "logs", runs |-> sweeps[s].runs, preview |-> sweeps[s].preview,
             holds |-> sweeps[s].holds, done |-> sweeps[s].done \cup {r}]
    BY <2>1, <2>2
  <2>4. sweeps' = [sweeps EXCEPT ![s] = w] /\ sweeps'[s] = w
    BY <1>3, <2>1 DEF FilesInv
  <2>5. PICK hs : hs = sweeps[s].holds
    OBVIOUS
  <2>6. /\ sweeps'[s].at = "logs" /\ sweeps'[s].preview = sweeps[s].preview
        /\ sweeps'[s].runs = sweeps[s].runs /\ sweeps'[s].holds = hs
    BY <2>3, <2>4, <2>5
  <2>7. SweepInv(s)
    BY SweepFields
  <2>8. SweepShape(s)'
    <3>1. /\ sweeps[s].runs = Selection[s] /\ sweeps[s].done \cap logs = {}
          /\ \A h \in sweeps[s].holds : h \in Holds /\ holds[h].state \in {"active", "released"}
      BY <1>1, <2>7 DEF SweepInv, SweepShape, Kept!Rest, Kept!Over
    <3>2. (sweeps[s].done \cup {r}) \cap logs' = {}
      BY <1>3, <3>1
    <3> QED
      BY <1>1, <2>3, <2>4, <3>1, <3>2 DEF SweepShape, Going
  <2>9. Kept!Chosen(s)' = Kept!Chosen(s)
    BY <2>6 DEF Kept!Chosen
  <2>10. SweepInv(s)'
    <3>1. /\ \A a \in Kept!Chosen(s) : ~Kept!ArtifactHeld(a, hs)'
          /\ \A q \in sweeps[s].runs : ~Kept!RunHeld(q, hs)'
      BY <1>1, <2>5, <2>7, HeldStays DEF SweepInv, Settled, Going
    <3>2. \A a : Kept!Available(a)' <=> Kept!Available(a)
      BY <1>1 DEF Kept!Available, Kept!There
    <3>3. PreviewShape(sweeps[s].preview) /\ Kept!Chosen(s) \subseteq Artifacts
      BY <1>1, <2>7 DEF SweepInv, Settled, Going
    <3>4. \A a \in Kept!Chosen(s) : /\ records'[a] # Kept!None /\ ~Kept!Available(a)'
                                    /\ files'.at \in {"records", "undo"} => a \notin files'.staged
      BY <1>1, <2>7, <3>2 DEF SweepInv
    <3> QED
      BY <2>6, <2>8, <2>9, <3>1, <3>3, <3>4 DEF SweepInv
  <2> QED
    BY <1>1, <1>3, <2>4, <2>10, OneSweepMoves
<1> QED
  BY <1>2, <1>3 DEF Kept!DeletesLogs

LEMMA RunsDeleted ==
    ASSUME FilesInv, NEW s \in Sweeps, Kept!DeletesRuns(s) \/ Kept!Audits(s)
    PROVE  FilesInv'
<1>1. sweeps[s].at \in {"logs", "audit"} /\ UNCHANGED <<records, blobs, files, torn, holds, logs>>
  BY DEF Kept!DeletesRuns, Kept!Audits, Kept!Is, Kept!artifactVars, Kept!holdVars
<1>2. CASE Kept!Ends(s)
  BY <1>1, <1>2, SweepEnds
<1>3. CASE Kept!Moves(s, "audit")
  <2>1. sweeps[s].at \in Going /\ sweeps[s].at \in Settled /\ sweeps[s].at # "deleting"
    BY <1>1 DEF Going, Settled
  <2>2. PICK w : /\ w = [at |-> "audit", runs |-> sweeps[s].runs, preview |-> sweeps[s].preview,
                         holds |-> sweeps[s].holds, done |-> sweeps[s].done]
                 /\ sweeps' = [sweeps EXCEPT ![s] = w] /\ sweeps'[s] = w
    BY <1>3, <2>1, GoesTo, Zenon
  <2>3. PICK hs : hs = sweeps[s].holds
    OBVIOUS
  <2>4. /\ sweeps'[s].at = "audit" /\ sweeps'[s].preview = sweeps[s].preview
        /\ sweeps'[s].runs = sweeps[s].runs /\ sweeps'[s].holds = hs
    BY <2>2, <2>3
  <2>5. SweepInv(s)
    BY SweepFields
  <2>6. SweepShape(s)'
    BY <1>1, <2>2, <2>5 DEF SweepInv, SweepShape, Going, Kept!Rest, Kept!Over
  <2>7. Kept!Chosen(s)' = Kept!Chosen(s)
    BY <2>4 DEF Kept!Chosen
  <2>8. SweepInv(s)'
    <3>1. /\ \A a \in Kept!Chosen(s) : ~Kept!ArtifactHeld(a, hs)'
          /\ \A q \in sweeps[s].runs : ~Kept!RunHeld(q, hs)'
          /\ PreviewShape(sweeps[s].preview) /\ Kept!Chosen(s) \subseteq Artifacts
      BY <1>1, <2>1, <2>3, <2>5, HeldStays DEF SweepInv
    <3> QED
      BY <2>4, <2>6, <2>7, <3>1 DEF SweepInv
  <2> QED
    BY <1>1, <2>1, <2>2, <2>8, OneSweepMoves
<1> QED
  BY <1>2, <1>3 DEF Kept!DeletesRuns, Kept!Audits

-----------------------------------------------------------------------------
(* The holds *)

\* A hold that has been in force stays what it was on.
LEMMA HoldsMove ==
    ASSUME FilesInv, UNCHANGED <<records, blobs, files, torn, sweeps, logs>>,
           holds' = [h \in Holds |-> holds'[h]], \A h \in Holds : HoldShape(h)',
           \A h \in Holds : holds[h].state # "none" =>
              holds'[h].state \in {"active", "released"} /\ holds'[h].on = holds[h].on
    PROVE  FilesInv'
<1>1. StoreShape' /\ StoreInv' /\ Kept!ContentOfRecords'
  BY StoreStays
<1>2. ASSUME NEW s \in Sweeps PROVE SweepInv(s)'
  <2>1. SweepInv(s)
    BY SweepFields
  <2>2. SweepShape(s)'
    BY <2>1 DEF SweepInv, SweepShape
  <2>3. PICK hs : hs = sweeps[s].holds
    OBVIOUS
  <2>4. Kept!Chosen(s)' = Kept!Chosen(s)
    BY DEF Kept!Chosen
  <2>5. \A a : Kept!Available(a)' <=> Kept!Available(a)
    BY DEF Kept!Available, Kept!There
  <2>6. CASE sweeps[s].at \in Settled
    <3>1. \A h \in hs : h \in Holds /\ holds'[h].on = holds[h].on
      BY <2>1, <2>3, <2>6 DEF SweepInv, SweepShape, Settled, Going, Kept!Rest, Kept!Over
    <3>2. Kept!On(hs)' = Kept!On(hs)
      BY <3>1 DEF Kept!On
    <3>3. /\ \A a : Kept!ArtifactHeld(a, hs)' <=> Kept!ArtifactHeld(a, hs)
          /\ \A r : Kept!RunHeld(r, hs)' <=> Kept!RunHeld(r, hs)
      BY <3>2 DEF Kept!ArtifactHeld, Kept!RunHeld
    <3>4. /\ \A a \in Kept!Chosen(s) : ~Kept!ArtifactHeld(a, hs)'
          /\ \A q \in sweeps[s].runs : ~Kept!RunHeld(q, hs)'
      BY <2>1, <2>3, <2>6, <3>3 DEF SweepInv
    <3> QED
      BY <2>1, <2>2, <2>3, <2>4, <2>5, <2>6, <3>4 DEF SweepInv
  <2>7. CASE sweeps[s].at \notin Settled
    BY <2>1, <2>2, <2>7 DEF SweepInv, Settled, Going
  <2> QED
    BY <2>6, <2>7
<1> QED
  BY <1>1, <1>2 DEF FilesInv

LEMMA HoldSteps ==
    ASSUME FilesInv, NEW h \in Holds,
           Kept!AsksRelease(h) \/ Kept!Releases(h) \/ \E t \in Targets : Kept!CreateHold(h, t)
    PROVE  FilesInv'
<1>1. UNCHANGED <<records, blobs, files, torn, sweeps, logs>>
  BY DEF Kept!AsksRelease, Kept!Releases, Kept!CreateHold, Kept!artifactVars, Kept!holdVars
<1>2. CASE holds' = holds
  BY <1>1, <1>2, HoldsMove DEF FilesInv, HoldShape
<1>3. CASE \E t \in Targets : Kept!CreateHold(h, t)
  <2>1. PICK t, x : /\ x = [state |-> "active", on |-> t] /\ holds' = [holds EXCEPT ![h] = x]
                    /\ holds[h].state = "none"
    BY <1>3 DEF Kept!CreateHold
  <2>2. \A g \in Holds : IF g = h THEN holds'[g] = x ELSE holds'[g] = holds[g]
    BY <2>1 DEF FilesInv
  <2>3. \A g \in Holds : HoldShape(g)'
    BY <2>1, <2>2 DEF FilesInv, HoldShape
  <2>4. holds' = [g \in Holds |-> holds'[g]]
    BY <2>1 DEF FilesInv
  <2>5. \A g \in Holds : holds[g].state # "none" =>
              holds'[g].state \in {"active", "released"} /\ holds'[g].on = holds[g].on
    BY <2>1, <2>2 DEF FilesInv, HoldShape
  <2> QED
    BY <1>1, <2>3, <2>4, <2>5, HoldsMove
<1>4. CASE holds[h].state = "active" /\ holds' = [holds EXCEPT ![h].state = "released"]
  <2>1. PICK x : x = [holds[h] EXCEPT !.state = "released"]
    OBVIOUS
  <2>2. HoldShape(h)
    BY DEF FilesInv
  <2>3. x = [state |-> "released", on |-> holds[h].on]
    BY <1>4, <2>1, <2>2 DEF HoldShape
  <2>4. \A g \in Holds : IF g = h THEN holds'[g] = x ELSE holds'[g] = holds[g]
    BY <1>4, <2>1 DEF FilesInv
  <2>5. \A g \in Holds : HoldShape(g)'
    BY <2>3, <2>4 DEF FilesInv, HoldShape
  <2>6. holds' = [g \in Holds |-> holds'[g]]
    BY <1>4 DEF FilesInv
  <2>7. \A g \in Holds : holds[g].state # "none" =>
              holds'[g].state \in {"active", "released"} /\ holds'[g].on = holds[g].on
    BY <2>3, <2>4 DEF FilesInv, HoldShape
  <2> QED
    BY <1>1, <2>5, <2>6, <2>7, HoldsMove
<1> QED
  BY <1>2, <1>3, <1>4 DEF Kept!AsksRelease, Kept!Releases

-----------------------------------------------------------------------------
(* The artifact store *)

Records == [Artifacts -> Entry \cup {Kept!None, Kept!Gone}]

\* The artifact store moves, and perhaps the deletion it works for.
LEMMA StoreMoves ==
    ASSUME FilesInv, UNCHANGED <<holds, logs>>,
           sweeps' = [s \in Sweeps |-> sweeps'[s]],
           \A s \in Sweeps : sweeps'[s] = sweeps[s] \/ SweepInv(s)',
           records' \in Records, torn' \in BOOLEAN,
           StoreShape', StoreInv', Kept!ContentOfRecords',
           \A s \in Sweeps, a \in Artifacts : sweeps[s].at = "logs" /\ a \in Kept!Chosen(s) =>
              /\ records'[a] # Kept!None /\ ~Kept!Available(a)'
              /\ files'.at \in {"records", "undo"} => a \notin files'.staged
    PROVE  FilesInv'
<1>1. ASSUME NEW s \in Sweeps PROVE SweepInv(s)'
  <2>1. CASE sweeps'[s] = sweeps[s]
    <3>1. SweepInv(s)
      BY SweepFields
    <3>2. sweeps[s].at = "logs" => Kept!Chosen(s) \subseteq Artifacts
      BY <3>1 DEF SweepInv, Settled, Going
    <3>3. sweeps[s].at = "logs" => \A a \in Kept!Chosen(s) :
              /\ records'[a] # Kept!None /\ ~Kept!Available(a)'
              /\ files'.at \in {"records", "undo"} => a \notin files'.staged
      BY <3>2
    <3> QED
      BY <2>1, <3>3, SweepStays
  <2> QED
    BY <2>1
<1>2. \A h \in Holds : HoldShape(h)'
  BY DEF FilesInv, HoldShape
<1> QED
  BY <1>1, <1>2 DEF FilesInv, Records

\* What the store has in its hands when it is not free.
LEMMA StoreFields ==
    ASSUME FilesInv
    PROVE  /\ files.at \in {"free", "create", "adopt", "records", "undo"}
           /\ files.at = "free" => files = Kept!Free
           /\ files.at \in {"create", "adopt"} =>
                files = [at |-> files.at, artifact |-> files.artifact] /\ files.artifact \in Artifacts
           /\ files.at \in {"records", "undo"} =>
                /\ files = [at |-> files.at, by |-> files.by, left |-> files.left, rewrite |-> files.rewrite,
                            staged |-> files.staged, moved |-> files.moved, blobs |-> files.blobs]
                /\ files.by \in Sweeps /\ sweeps[files.by].at = "deleting"
                /\ Kept!Chosen(files.by) \subseteq Artifacts
           /\ StoreInv
<1>1. StoreShape /\ StoreInv
  BY DEF FilesInv
<1>2. files.by \in Sweeps /\ sweeps[files.by].at = "deleting" => Kept!Chosen(files.by) \subseteq Artifacts
  BY SweepFields DEF SweepInv, Settled, Going
<1> QED
  BY <1>1, <1>2 DEF StoreShape, Kept!Free

\* Records that are there are those with an entry.
LEMMA AvailableIs ==
    ASSUME FilesInv, NEW a \in Artifacts
    PROVE  /\ records[a] \in Entry \/ records[a] = Kept!None \/ records[a] = Kept!Gone
           /\ Kept!There(a) <=> records[a] \in Entry
           /\ Kept!Available(a) <=> records[a] \in Entry /\ ~records[a].emptied
BY EntryShape DEF FilesInv, Kept!Available, Kept!There

\* At the logs nothing that was chosen is available, or will be.
LEMMA AtTheLogs ==
    ASSUME FilesInv, NEW s \in Sweeps, sweeps[s].at = "logs", NEW a \in Kept!Chosen(s)
    PROVE  /\ a \in Artifacts /\ records[a] # Kept!None /\ ~Kept!Available(a)
           /\ files.at \in {"records", "undo"} => a \notin files.staged
BY SweepFields DEF SweepInv, Settled, Going

LEMMA StoreBegins ==
    ASSUME FilesInv, NEW a \in Artifacts, Kept!Create(a) \/ Kept!Adopt(a)
    PROVE  FilesInv'
<1>1. /\ UNCHANGED <<records, sweeps, holds, logs, torn>> /\ files = Kept!Free
      /\ blobs \subseteq blobs'
  BY DEF Kept!Create, Kept!Adopt, Kept!holdVars
<1>2. PICK F : /\ files' = F /\ F = [at |-> F.at, artifact |-> a]
               /\ \/ F.at = "create" /\ records[a] = Kept!None /\ Blob[a] \in blobs'
                  \/ F.at = "adopt" /\ records[a].life = "approved"
  <2>1. CASE Kept!Create(a)
    <3>1. PICK F : F = [at |-> "create", artifact |-> a]
      OBVIOUS
    <3> QED
      BY <2>1, <3>1 DEF Kept!Create
  <2>2. CASE Kept!Adopt(a)
    <3>1. PICK F : F = [at |-> "adopt", artifact |-> a]
      OBVIOUS
    <3> QED
      BY <2>2, <3>1 DEF Kept!Adopt
  <2> QED
    BY <2>1, <2>2
<1>3. StoreShape'
  BY <1>2 DEF StoreShape
<1>4. records[a].life = "approved" => records[a] \in Entry
  BY AvailableIs DEF Kept!None, Kept!Gone
<1>5. F.artifact = a /\ F.at \notin {"records", "undo"}
  BY <1>2
<1>6. StoreInv'
  BY <1>1, <1>2, <1>4, <1>5 DEF StoreInv
<1>7. \A x : Kept!Available(x)' <=> Kept!Available(x)
  BY <1>1 DEF Kept!Available, Kept!There
<1>8. Kept!ContentOfRecords'
  BY <1>1, <1>7 DEF FilesInv, Kept!ContentOfRecords, Kept!Free
<1> QED
  BY <1>1, <1>2, <1>3, <1>5, <1>6, <1>7, <1>8, AtTheLogs, StoreMoves DEF FilesInv, Records

\* The store has finished with an artifact, whose record is new or not available as it was.
LEMMA StoreRests ==
    ASSUME FilesInv, UNCHANGED <<sweeps, holds, logs, torn, blobs>>, files' = Kept!Free,
           files.at \in {"free", "create", "adopt"},
           NEW a \in Artifacts, NEW r \in Entry, records' = [records EXCEPT ![a] = r],
           \/ Blob[a] \in blobs /\ records[a] = Kept!None
           \/ records[a] \in Entry /\ r.emptied = records[a].emptied
    PROVE  FilesInv'
<1>1. records' \in Records
  BY DEF Records, FilesInv
<1>2. \A x \in Artifacts : IF x = a THEN records'[x] = r ELSE records'[x] = records[x]
  BY DEF FilesInv
<1>3. Kept!Available(a)' <=> ~r.emptied
  BY <1>2, EntryShape DEF Kept!Available, Kept!There
<1>4. \A x \in Artifacts : x # a => (Kept!Available(x)' <=> Kept!Available(x))
  BY <1>2, Unprimed
<1>5. Kept!Available(a)' => Kept!Available(a) \/ Blob[a] \in blobs
  BY <1>3, AvailableIs
<1>6. Kept!ContentOfRecords'
  BY <1>4, <1>5 DEF FilesInv, Kept!ContentOfRecords, Kept!Free
<1>7. StoreShape' /\ StoreInv'
  BY DEF StoreShape, StoreInv, Kept!Free
<1>8. \A s \in Sweeps, x \in Artifacts : sweeps[s].at = "logs" /\ x \in Kept!Chosen(s) =>
          records'[x] # Kept!None /\ ~Kept!Available(x)'
  BY <1>2, <1>3, <1>4, AtTheLogs, AvailableIs, EntryShape
<1> QED
  BY <1>1, <1>6, <1>7, <1>8, StoreMoves DEF FilesInv, Kept!Free

LEMMA StoreFrees ==
    ASSUME FilesInv, UNCHANGED <<records, sweeps, holds, logs, torn, blobs>>, files' = Kept!Free,
           files.at # "undo"
    PROVE  FilesInv'
<1>1. StoreShape' /\ StoreInv'
  BY DEF StoreShape, StoreInv, Kept!Free
<1>2. \A x : Kept!Available(x)' <=> Kept!Available(x)
  BY DEF Kept!Available, Kept!There
<1>3. Kept!ContentOfRecords'
  BY <1>2 DEF FilesInv, Kept!ContentOfRecords, Kept!Free
<1> QED
  BY <1>1, <1>2, <1>3, AtTheLogs, StoreMoves DEF FilesInv, Records, Kept!Free

LEMMA EntrySteps ==
    ASSUME FilesInv,
           Kept!Created \/ Kept!Adopted \/ \E a \in Artifacts, d \in Verdicts : Kept!Review(a, d)
    PROVE  FilesInv'
<1>1. UNCHANGED <<sweeps, holds, logs, torn, blobs>>
  BY DEF Kept!Created, Kept!Adopted, Kept!Review, Kept!holdVars
<1>2. CASE Kept!Created
  <2>1. files.at = "create" /\ files' = Kept!Free
    BY <1>2 DEF Kept!Created
  <2>2. PICK a \in Artifacts : a = files.artifact /\ records[a] = Kept!None /\ Blob[a] \in blobs
    BY <2>1, StoreFields DEF StoreInv
  <2>3. PICK r : r = [life |-> "proposed", emptied |-> FALSE]
    OBVIOUS
  <2>7. r \in Entry
    BY <2>3 DEF Entry, Lives
  <2>4. CASE records' = [records EXCEPT ![a] = r]
    BY <1>1, <2>1, <2>2, <2>4, <2>7, StoreRests
  <2>5. CASE records' = records
    BY <1>1, <2>1, <2>5, StoreFrees
  <2> QED
    BY <1>2, <2>2, <2>3, <2>4, <2>5 DEF Kept!Created
<1>3. CASE Kept!Adopted
  <2>1. files.at = "adopt" /\ files' = Kept!Free
    BY <1>3 DEF Kept!Adopted
  <2>2. PICK a \in Artifacts : a = files.artifact /\ records[a] \in Entry
    BY <2>1, StoreFields DEF StoreInv
  <2>3. PICK r : r = [records[a] EXCEPT !.life = "used"]
    OBVIOUS
  <2>4. r \in Entry /\ r.emptied = records[a].emptied
    BY <2>2, <2>3 DEF Entry, Lives
  <2>5. CASE records' = [records EXCEPT ![a] = r]
    BY <1>1, <2>1, <2>2, <2>4, <2>5, StoreRests
  <2>6. CASE records' = records
    BY <1>1, <2>1, <2>6, StoreFrees
  <2> QED
    BY <1>3, <2>2, <2>3, <2>5, <2>6 DEF Kept!Adopted
<1>4. ASSUME NEW a \in Artifacts, NEW d \in Verdicts, Kept!Review(a, d) PROVE FilesInv'
  <2>1. files = Kept!Free /\ files' = Kept!Free /\ records[a].life = "proposed"
    BY <1>4 DEF Kept!Review
  <2>2. records[a] \in Entry
    BY <2>1, AvailableIs DEF Kept!None, Kept!Gone
  <2>3. PICK r : r = [records[a] EXCEPT !.life = d]
    OBVIOUS
  <2>4. r \in Entry /\ r.emptied = records[a].emptied
    BY <2>2, <2>3, RecordsAssumption DEF Entry, Lives
  <2>5. records' = [records EXCEPT ![a] = r]
    BY <1>4, <2>3 DEF Kept!Review
  <2>6. files.at = "free"
    BY <2>1 DEF Kept!Free
  <2> QED
    BY <1>1, <2>1, <2>2, <2>4, <2>5, <2>6, StoreRests
<1> QED
  BY <1>2, <1>3, <1>4

-----------------------------------------------------------------------------
(* A deletion of artifacts *)

\* How the store goes on with the deletion it has begun.
LEMMA StoreExcept ==
    ASSUME NEW q, q = [at |-> q.at, by |-> q.by, left |-> q.left, rewrite |-> q.rewrite,
                       staged |-> q.staged, moved |-> q.moved, blobs |-> q.blobs],
           NEW l, NEW x, NEW g, NEW m, NEW b
    PROVE  /\ [q EXCEPT !.left = l, !.staged = g, !.rewrite = x] =
                [at |-> q.at, by |-> q.by, left |-> l, rewrite |-> x,
                 staged |-> g, moved |-> q.moved, blobs |-> q.blobs]
           /\ [q EXCEPT !.rewrite = x] =
                [at |-> q.at, by |-> q.by, left |-> q.left, rewrite |-> x,
                 staged |-> q.staged, moved |-> q.moved, blobs |-> q.blobs]
           /\ [q EXCEPT !.staged = g] =
                [at |-> q.at, by |-> q.by, left |-> q.left, rewrite |-> q.rewrite,
                 staged |-> g, moved |-> q.moved, blobs |-> q.blobs]
           /\ [q EXCEPT !.blobs = b, !.moved = m] =
                [at |-> q.at, by |-> q.by, left |-> q.left, rewrite |-> q.rewrite,
                 staged |-> q.staged, moved |-> m, blobs |-> b]
           /\ [q EXCEPT !.at = "undo"] =
                [at |-> "undo", by |-> q.by, left |-> q.left, rewrite |-> q.rewrite,
                 staged |-> q.staged, moved |-> q.moved, blobs |-> q.blobs]
           /\ [q EXCEPT !.at = "undo", !.staged = g, !.moved = m] =
                [at |-> "undo", by |-> q.by, left |-> q.left, rewrite |-> q.rewrite,
                 staged |-> g, moved |-> m, blobs |-> q.blobs]
<1>1. PICK r : r = [q EXCEPT !.left = l, !.staged = g, !.rewrite = x]
  OBVIOUS
<1>2. r = [at |-> q.at, by |-> q.by, left |-> l, rewrite |-> x,
           staged |-> g, moved |-> q.moved, blobs |-> q.blobs]
  BY <1>1
<1>3. PICK s : s = [q EXCEPT !.rewrite = x]
  OBVIOUS
<1>4. s = [at |-> q.at, by |-> q.by, left |-> q.left, rewrite |-> x,
           staged |-> q.staged, moved |-> q.moved, blobs |-> q.blobs]
  BY <1>3
<1>5. PICK t : t = [q EXCEPT !.staged = g]
  OBVIOUS
<1>6. t = [at |-> q.at, by |-> q.by, left |-> q.left, rewrite |-> q.rewrite,
           staged |-> g, moved |-> q.moved, blobs |-> q.blobs]
  BY <1>5
<1>7. PICK u : u = [q EXCEPT !.blobs = b, !.moved = m]
  OBVIOUS
<1>8. u = [at |-> q.at, by |-> q.by, left |-> q.left, rewrite |-> q.rewrite,
           staged |-> q.staged, moved |-> m, blobs |-> b]
  BY <1>7
<1>9. PICK v : v = [q EXCEPT !.at = "undo"]
  OBVIOUS
<1>10. v = [at |-> "undo", by |-> q.by, left |-> q.left, rewrite |-> q.rewrite,
            staged |-> q.staged, moved |-> q.moved, blobs |-> q.blobs]
  BY <1>9
<1>11. PICK w : w = [q EXCEPT !.at = "undo", !.staged = g, !.moved = m]
  OBVIOUS
<1>12. w = [at |-> "undo", by |-> q.by, left |-> q.left, rewrite |-> q.rewrite,
            staged |-> g, moved |-> m, blobs |-> q.blobs]
  BY <1>11
<1> QED
  BY <1>1, <1>2, <1>3, <1>4, <1>5, <1>6, <1>7, <1>8, <1>9, <1>10, <1>11, <1>12

\* The store works on, for the same deletion.
LEMMA StoreWorks ==
    ASSUME FilesInv, UNCHANGED <<sweeps, holds, logs>>, files.at \in {"records", "undo"},
           NEW F, files' = F, F.by = files.by, F.at \in {"records", "undo"},
           F = [at |-> F.at, by |-> F.by, left |-> F.left, rewrite |-> F.rewrite,
                staged |-> F.staged, moved |-> F.moved, blobs |-> F.blobs],
           records' \in Records, torn' \in BOOLEAN, StoreInv', Kept!ContentOfRecords',
           \A a \in Artifacts : Kept!Available(a)' \/ a \in F.staged => Kept!Available(a) \/ a \in files.staged,
           \A a \in Artifacts : records[a] # Kept!None => records'[a] # Kept!None
    PROVE  FilesInv'
<1>1. StoreShape'
  BY StoreFields DEF StoreShape
<1>2. \A s \in Sweeps, a \in Artifacts : sweeps[s].at = "logs" /\ a \in Kept!Chosen(s) =>
              /\ records'[a] # Kept!None /\ ~Kept!Available(a)'
              /\ files'.at \in {"records", "undo"} => a \notin files'.staged
  BY AtTheLogs
<1> QED
  BY <1>1, <1>2, StoreMoves DEF FilesInv

\* What is put back is looked up in the deletion that the store works for.
LEMMA SameDeletion ==
    ASSUME files'.by = files.by, sweeps' = sweeps
    PROVE  /\ \A a : Kept!Of(a)' = Kept!Of(a)
           /\ Kept!Chosen(files.by)' = Kept!Chosen(files.by)
           /\ \A a : records'[a] = records[a] => (Staged(a)' <=> Staged(a))
BY DEF Kept!Of, Kept!Chosen, Staged

LEMMA BreaksOff ==
    ASSUME FilesInv, files.at = "records", files' = [files EXCEPT !.at = "undo"],
           UNCHANGED <<records, blobs, sweeps, holds, logs, torn>>
    PROVE  FilesInv'
<1>1. PICK F : F = [files EXCEPT !.at = "undo"]
  OBVIOUS
<1>2. /\ files' = F /\ F.at = "undo" /\ F.by = files.by /\ F.staged = files.staged /\ F.moved = files.moved
      /\ F = [at |-> F.at, by |-> F.by, left |-> F.left, rewrite |-> F.rewrite,
                staged |-> F.staged, moved |-> F.moved, blobs |-> F.blobs]
  BY <1>1, StoreFields
<1>3. \A a : Kept!Available(a)' <=> Kept!Available(a)
  BY DEF Kept!Available, Kept!There
<1>4. StoreInv'
  BY <1>2, <1>3, StoreFields, SameDeletion DEF StoreInv
<1>5. Kept!ContentOfRecords'
  BY <1>2 DEF Kept!ContentOfRecords
<1> QED
  BY <1>2, <1>3, <1>4, <1>5, StoreWorks DEF FilesInv, Records

LEMMA RecordMoves ==
    ASSUME FilesInv, NEW a \in Artifacts, Kept!MovesRecord(a)
    PROVE  FilesInv'
<1>1. /\ files.at = "records" /\ files.rewrite = {} /\ a \in files.left
      /\ UNCHANGED <<blobs, sweeps, holds, logs, torn>>
  BY DEF Kept!MovesRecord, Kept!holdVars
<1>2. CASE files' = [files EXCEPT !.at = "undo"] /\ records' = records
  BY <1>1, <1>2, BreaksOff
<1>3. CASE records' = [records EXCEPT ![a] = Kept!Gone]
  <2>1. PICK l, g, x : /\ l = files.left \ {a} /\ g = files.staged \cup {a}
                       /\ x = IF Kept!KeepsMetadata(Kept!Of(a)) THEN {a} ELSE {}
    OBVIOUS
  <2>2. PICK F : F = [at |-> "records", by |-> files.by, left |-> l, rewrite |-> x,
                      staged |-> g, moved |-> files.moved, blobs |-> files.blobs]
    OBVIOUS
  <2>3. files' = F
    <3>1. records' # records
      BY <1>1, <1>3, StoreFields, EntryShape DEF FilesInv, StoreInv
    <3>2. files' = [files EXCEPT !.left = l, !.staged = g, !.rewrite = x]
      BY <2>1, <3>1 DEF Kept!MovesRecord
    <3>3. files = [at |-> files.at, by |-> files.by, left |-> files.left, rewrite |-> files.rewrite,
                   staged |-> files.staged, moved |-> files.moved, blobs |-> files.blobs]
      BY <1>1, StoreFields
    <3>4. files' = [at |-> files.at, by |-> files.by, left |-> l, rewrite |-> x,
                    staged |-> g, moved |-> files.moved, blobs |-> files.blobs]
      BY <3>2, <3>3, StoreExcept, Zenon
    <3> QED
      BY <1>1, <2>2, <3>4
  <2>4. /\ a \in Kept!Chosen(files.by) /\ records[a] \in Entry /\ records[a] = Kept!Of(a)
        /\ ~records[a].emptied
    BY <1>1, StoreFields DEF StoreInv
  <2>5. \A y \in Artifacts : IF y = a THEN records'[y] = Kept!Gone ELSE records'[y] = records[y]
    BY <1>3 DEF FilesInv
  <2>6. ~Kept!Available(a)'
    BY <2>5 DEF Kept!Available, Kept!There
  <2>7. \A y \in Artifacts : y # a => (Kept!Available(y)' <=> Kept!Available(y))
    BY <2>5, Unprimed
  <2>8. Kept!Available(a)
    BY <2>4, AvailableIs
  <2>9. records' \in Records
    BY <1>3 DEF Records, FilesInv
  <2>10. \A y : Kept!Of(y)' = Kept!Of(y)
    BY <1>1, <2>2, <2>3, SameDeletion
  <2>11. Kept!Chosen(files.by)' = Kept!Chosen(files.by) /\ Kept!Chosen(files.by) \subseteq Artifacts
    BY <1>1, <2>2, <2>3, SameDeletion, StoreFields
  <2>12. \A y \in g : Staged(y)'
    <3>1. ASSUME NEW y \in g, y # a PROVE Staged(y)'
      <4>1. Staged(y) /\ y \in Artifacts
        BY <1>1, <2>1, <2>11, <3>1, StoreFields DEF StoreInv, Staged
      <4> QED
        BY <2>2, <2>3, <2>5, <3>1, <4>1, <1>1, SameDeletion
    <3>2. Staged(a)'
      BY <2>2, <2>3, <2>4, <2>5, <2>10, <2>11 DEF Staged
    <3> QED
      BY <3>1, <3>2
  <2>13. StoreInv'
    <3>1. ~torn' => \A y \in Artifacts :
              Kept!Available(y)' \/ y \in g => Blob[y] \in blobs' \cup files.moved
      BY <1>1, <2>1, <2>6, <2>7, <2>8, StoreFields DEF StoreInv
    <3>2. \A y \in l : /\ y \in Kept!Chosen(files.by) /\ records'[y] \in Entry
                       /\ records'[y] = Kept!Of(y) /\ ~records'[y].emptied
      BY <1>1, <2>1, <2>5, <2>11, StoreFields DEF StoreInv
    <3>3. \A y \in x : y \in g /\ records'[y] = Kept!Gone /\ Kept!Of(y).life = "used"
      BY <2>1, <2>5 DEF Kept!KeepsMetadata
    <3>4. \A y \in Kept!Chosen(files.by) \ l : records'[y] # Kept!None /\ ~Kept!Available(y)'
      BY <1>1, <2>1, <2>5, <2>6, <2>7, <2>11, StoreFields, EntryShape DEF StoreInv
    <3>5. \A b \in files.blobs, y \in Artifacts : Kept!Available(y)' /\ Blob[y] = b => y \in l
      BY <1>1, <2>1, <2>6, <2>7, StoreFields DEF StoreInv
    <3> QED
      BY <2>2, <2>3, <2>10, <2>11, <2>12, <3>1, <3>2, <3>3, <3>4, <3>5 DEF StoreInv
  <2>14. Kept!ContentOfRecords'
    BY <1>1, <2>2, <2>3, <2>6, <2>7 DEF FilesInv, Kept!ContentOfRecords
  <2>15. \A y \in Artifacts : Kept!Available(y)' \/ y \in F.staged => Kept!Available(y) \/ y \in files.staged
    BY <2>1, <2>2, <2>6, <2>7, <2>8
  <2>16. \A y \in Artifacts : records[y] # Kept!None => records'[y] # Kept!None
    BY <2>5, EntryShape
  <2> QED
    BY <1>1, <2>2, <2>3, <2>9, <2>13, <2>14, <2>15, <2>16, StoreWorks DEF FilesInv
<1> QED
  BY <1>2, <1>3 DEF Kept!MovesRecord

LEMMA RecordRewritten ==
    ASSUME FilesInv, Kept!RewritesRecord
    PROVE  FilesInv'
<1>1. /\ files.at = "records" /\ files.rewrite # {}
      /\ UNCHANGED <<blobs, sweeps, holds, logs, torn>>
  BY DEF Kept!RewritesRecord, Kept!holdVars
<1>2. CASE files' = [files EXCEPT !.at = "undo"] /\ records' = records
  BY <1>1, <1>2, BreaksOff
<1>3. CASE /\ records' = [a \in Artifacts |->
                IF a \in files.rewrite THEN [Kept!Of(a) EXCEPT !.emptied = TRUE] ELSE records[a]]
           /\ files' = [files EXCEPT !.rewrite = {}]
  <2>1. PICK F : F = [at |-> "records", by |-> files.by, left |-> files.left, rewrite |-> {},
                      staged |-> files.staged, moved |-> files.moved, blobs |-> files.blobs]
    OBVIOUS
  <2>2. files' = F
    <3>1. files = [at |-> files.at, by |-> files.by, left |-> files.left, rewrite |-> files.rewrite,
                   staged |-> files.staged, moved |-> files.moved, blobs |-> files.blobs]
      BY <1>1, StoreFields
    <3>2. files' = [at |-> files.at, by |-> files.by, left |-> files.left, rewrite |-> {},
                    staged |-> files.staged, moved |-> files.moved, blobs |-> files.blobs]
      BY <1>3, <3>1, StoreExcept, Zenon
    <3> QED
      BY <1>1, <2>1, <3>2
  <2>3. ASSUME NEW a \in Artifacts, a \in files.rewrite
        PROVE  /\ records'[a] \in Entry /\ records'[a].emptied
               /\ a \in files.staged /\ records[a] = Kept!Gone
    <3>1. Kept!Of(a) \in Entry /\ a \in files.staged /\ records[a] = Kept!Gone
      BY <1>1, <2>3, StoreFields DEF StoreInv, Staged
    <3>2. PICK e : e = [Kept!Of(a) EXCEPT !.emptied = TRUE]
      OBVIOUS
    <3>3. e \in Entry /\ e.emptied
      BY <3>1, <3>2 DEF Entry
    <3> QED
      BY <1>3, <2>3, <3>1, <3>2, <3>3
  <2>4. \A a \in Artifacts : a \notin files.rewrite => records'[a] = records[a]
    BY <1>3
  <2>5. \A a \in Artifacts : a \in files.rewrite => ~Kept!Available(a)'
    BY <2>3 DEF Kept!Available
  <2>6. \A a \in Artifacts : a \notin files.rewrite => (Kept!Available(a)' <=> Kept!Available(a))
    BY <2>4, Unprimed
  <2>7. records' \in Records
    BY <1>3, <2>3, <2>4 DEF Records, FilesInv
  <2>8. /\ \A a : Kept!Of(a)' = Kept!Of(a)
        /\ Kept!Chosen(files.by)' = Kept!Chosen(files.by) /\ Kept!Chosen(files.by) \subseteq Artifacts
    BY <1>1, <2>1, <2>2, SameDeletion, StoreFields
  <2>9. \A a \in files.staged : Staged(a)'
    <3>1. ASSUME NEW a \in files.staged PROVE Staged(a)'
      <4>1. Staged(a) /\ a \in Artifacts
        BY <1>1, <2>8, StoreFields DEF StoreInv, Staged
      <4>2. CASE a \in files.rewrite
        <5>1. Kept!Of(a).life = "used"
          BY <1>1, <4>2, StoreFields DEF StoreInv
        <5> QED
          BY <2>1, <2>2, <2>3, <2>8, <4>1, <4>2, <5>1 DEF Staged
      <4>3. CASE a \notin files.rewrite
        BY <1>1, <2>1, <2>2, <2>4, <4>1, <4>3, SameDeletion
      <4> QED
        BY <4>2, <4>3
    <3> QED
      BY <3>1
  <2>10. StoreInv'
    <3>1. ~torn' => \A a \in Artifacts :
              Kept!Available(a)' \/ a \in files.staged => Blob[a] \in blobs' \cup files.moved
      BY <1>1, <2>5, <2>6, StoreFields DEF StoreInv
    <3>2. \A a \in files.left : /\ a \in Kept!Chosen(files.by) /\ records'[a] \in Entry
                                 /\ records'[a] = Kept!Of(a) /\ ~records'[a].emptied
      <4>1. ASSUME NEW a \in files.left
            PROVE  /\ a \in Kept!Chosen(files.by) /\ records[a] \in Entry
                   /\ records[a] = Kept!Of(a) /\ ~records[a].emptied /\ a \in Artifacts
        BY <1>1, <2>8, StoreFields DEF StoreInv
      <4>2. \A a \in files.left : a \notin files.rewrite
        BY <1>1, <4>1, StoreFields, EntryShape DEF StoreInv
      <4> QED
        BY <2>4, <4>1, <4>2
    <3>3. \A a \in Kept!Chosen(files.by) \ files.left : records'[a] # Kept!None /\ ~Kept!Available(a)'
      BY <1>1, <2>3, <2>4, <2>5, <2>6, <2>8, StoreFields, EntryShape DEF StoreInv
    <3>4. \A b \in files.blobs, a \in Artifacts : Kept!Available(a)' /\ Blob[a] = b => a \in files.left
      BY <1>1, <2>5, <2>6, StoreFields DEF StoreInv
    <3> QED
      BY <2>1, <2>2, <2>8, <2>9, <3>1, <3>2, <3>3, <3>4 DEF StoreInv
  <2>11. Kept!ContentOfRecords'
    BY <1>1, <2>1, <2>2, <2>5, <2>6 DEF FilesInv, Kept!ContentOfRecords
  <2>12. \A a \in Artifacts : Kept!Available(a)' \/ a \in F.staged => Kept!Available(a) \/ a \in files.staged
    BY <2>1, <2>5, <2>6
  <2>13. \A a \in Artifacts : records[a] # Kept!None => records'[a] # Kept!None
    BY <2>3, <2>4, EntryShape
  <2> QED
    BY <1>1, <2>1, <2>2, <2>7, <2>10, <2>11, <2>12, <2>13, StoreWorks DEF FilesInv
<1> QED
  BY <1>2, <1>3 DEF Kept!RewritesRecord

LEMMA BlobMoves ==
    ASSUME FilesInv, NEW b \in blobs, Kept!MovesBlob(b)
    PROVE  FilesInv'
<1>1. /\ files.at = "records" /\ files.left = {} /\ files.rewrite = {} /\ b \in files.blobs
      /\ UNCHANGED <<records, sweeps, holds, logs, torn>>
  BY DEF Kept!MovesBlob, Kept!holdVars
<1>2. CASE files' = [files EXCEPT !.at = "undo"] /\ blobs' = blobs
  BY <1>1, <1>2, BreaksOff
<1>3. CASE blobs' = blobs \ {b} /\ files' = [files EXCEPT !.blobs = @ \ {b}, !.moved = @ \cup {b}]
  <2>1. PICK bs, m : bs = files.blobs \ {b} /\ m = files.moved \cup {b}
    OBVIOUS
  <2>2. PICK F : F = [at |-> "records", by |-> files.by, left |-> {}, rewrite |-> {},
                      staged |-> files.staged, moved |-> m, blobs |-> bs]
    OBVIOUS
  <2>3. files' = F
    <3>1. files = [at |-> files.at, by |-> files.by, left |-> files.left, rewrite |-> files.rewrite,
                   staged |-> files.staged, moved |-> files.moved, blobs |-> files.blobs]
      BY <1>1, StoreFields
    <3>2. files' = [files EXCEPT !.blobs = bs, !.moved = m]
      BY <1>3, <2>1, <3>1
    <3>3. files' = [at |-> files.at, by |-> files.by, left |-> files.left, rewrite |-> files.rewrite,
                    staged |-> files.staged, moved |-> m, blobs |-> bs]
      BY <3>1, <3>2, StoreExcept, Zenon
    <3> QED
      BY <1>1, <2>2, <3>3
  <2>4. \A a : Kept!Available(a)' <=> Kept!Available(a)
    BY <1>1 DEF Kept!Available, Kept!There
  <2>5. \A a \in Artifacts : Kept!Available(a) => Blob[a] # b
    BY <1>1, StoreFields DEF StoreInv
  <2>6. /\ \A a : Kept!Of(a)' = Kept!Of(a) /\ (Staged(a)' <=> Staged(a))
        /\ Kept!Chosen(files.by)' = Kept!Chosen(files.by)
    BY <1>1, <2>2, <2>3, SameDeletion
  <2>7. StoreInv'
    BY <1>1, <1>3, <2>1, <2>2, <2>3, <2>4, <2>6, StoreFields DEF StoreInv
  <2>8. Kept!ContentOfRecords'
    BY <1>1, <1>3, <2>2, <2>3, <2>4, <2>5 DEF FilesInv, Kept!ContentOfRecords
  <2> QED
    BY <1>1, <2>2, <2>3, <2>4, <2>7, <2>8, StoreWorks DEF FilesInv, Records
<1> QED
  BY <1>2, <1>3 DEF Kept!MovesBlob

\* The store is free again; the deletion goes to its logs, or is over.
LEMMA StoreDone ==
    ASSUME FilesInv, files.at \in {"records", "undo"}, files' = Kept!Free,
           UNCHANGED <<records, holds, logs>>, torn' \in BOOLEAN, Kept!ContentOfRecords',
           \/ Kept!Ends(files.by)
           \/ /\ Kept!Moves(files.by, "logs")
              /\ \A a \in Kept!Chosen(files.by) : records[a] # Kept!None /\ ~Kept!Available(a)
    PROVE  FilesInv'
<1>1. PICK by \in Sweeps : by = files.by /\ sweeps[by].at = "deleting"
  BY StoreFields
<1>2. \A s \in Sweeps : s # by => sweeps'[s] = sweeps[s]
  BY <1>1 DEF Kept!Ends, Kept!Moves, FilesInv
<1>3. sweeps' = [s \in Sweeps |-> sweeps'[s]]
  BY DEF Kept!Ends, Kept!Moves, FilesInv
<1>4. StoreShape' /\ StoreInv'
  BY DEF StoreShape, StoreInv, Kept!Free
<1>5. files'.at = "free"
  BY DEF Kept!Free
<1>6. \A a : Kept!Available(a)' <=> Kept!Available(a)
  BY DEF Kept!Available, Kept!There
<1>7. SweepInv(by)'
  <2>1. CASE Kept!Ends(files.by)
    <3>1. sweeps'[by] = Kept!Over
      BY <1>1, <2>1 DEF Kept!Ends, FilesInv
    <3> QED
      BY <3>1, SweepOver
  <2>2. CASE /\ Kept!Moves(files.by, "logs")
             /\ \A a \in Kept!Chosen(files.by) : records[a] # Kept!None /\ ~Kept!Available(a)
    <3>1. sweeps[by].at \in Going /\ sweeps[by].at \in Settled
      BY <1>1 DEF Going, Settled
    <3>2. PICK w : /\ w = [at |-> "logs", runs |-> sweeps[by].runs, preview |-> sweeps[by].preview,
                           holds |-> sweeps[by].holds, done |-> sweeps[by].done]
                   /\ sweeps'[by] = w
      BY <1>1, <2>2, <3>1, GoesTo, Zenon
    <3>3. PICK hs : hs = sweeps[by].holds
      OBVIOUS
    <3>4. /\ sweeps'[by].at = "logs" /\ sweeps'[by].preview = sweeps[by].preview
          /\ sweeps'[by].runs = sweeps[by].runs /\ sweeps'[by].holds = hs
      BY <3>2, <3>3
    <3>5. SweepInv(by)
      BY SweepFields
    <3>6. SweepShape(by)'
      BY <1>1, <3>2, <3>5 DEF SweepInv, SweepShape, Going, Kept!Rest, Kept!Over
    <3>7. Kept!Chosen(by)' = Kept!Chosen(by)
      BY <3>4 DEF Kept!Chosen
    <3>8. /\ \A a \in Kept!Chosen(by) : ~Kept!ArtifactHeld(a, hs)'
          /\ \A q \in sweeps[by].runs : ~Kept!RunHeld(q, hs)'
          /\ PreviewShape(sweeps[by].preview) /\ Kept!Chosen(by) \subseteq Artifacts
      BY <3>1, <3>3, <3>5, HeldStays DEF SweepInv
    <3>9. \A a \in Kept!Chosen(by) : records'[a] # Kept!None /\ ~Kept!Available(a)'
      BY <1>1, <1>6, <2>2
    <3> QED
      BY <1>5, <3>4, <3>6, <3>7, <3>8, <3>9 DEF SweepInv
  <2> QED
    BY <2>1, <2>2
<1> QED
  BY <1>2, <1>3, <1>4, <1>5, <1>6, <1>7, AtTheLogs, StoreMoves DEF FilesInv, Records

LEMMA StageRemoved ==
    ASSUME FilesInv, Kept!RemovesStage
    PROVE  FilesInv'
<1>1. /\ files.at = "records" /\ files.left = {} /\ files.rewrite = {}
      /\ UNCHANGED <<records, blobs, holds, logs>>
  BY DEF Kept!RemovesStage, Kept!holdVars
<1>2. \A a : Kept!Available(a)' <=> Kept!Available(a)
  BY <1>1 DEF Kept!Available, Kept!There
<1>3. CASE files' = Kept!Free /\ Kept!Moves(files.by, "logs") /\ torn' = torn
  <2>1. Kept!ContentOfRecords'
    BY <1>1, <1>2, <1>3 DEF FilesInv, Kept!ContentOfRecords
  <2>2. \A a \in Kept!Chosen(files.by) : records[a] # Kept!None /\ ~Kept!Available(a)
    BY <1>1, StoreFields DEF StoreInv
  <2> QED
    BY <1>1, <1>3, <2>1, <2>2, StoreDone DEF FilesInv
<1>4. ASSUME NEW g \in SUBSET files.staged, NEW m \in SUBSET files.moved,
             files' = [files EXCEPT !.at = "undo", !.staged = g, !.moved = m],
             torn' = (torn \/ g # files.staged \/ m # files.moved), sweeps' = sweeps
      PROVE  FilesInv'
  <2>1. PICK F : F = [at |-> "undo", by |-> files.by, left |-> files.left, rewrite |-> files.rewrite,
                      staged |-> g, moved |-> m, blobs |-> files.blobs]
    OBVIOUS
  <2>2. files' = F
    <3>1. files = [at |-> files.at, by |-> files.by, left |-> files.left, rewrite |-> files.rewrite,
                   staged |-> files.staged, moved |-> files.moved, blobs |-> files.blobs]
      BY <1>1, StoreFields
    <3>2. files' = [at |-> "undo", by |-> files.by, left |-> files.left, rewrite |-> files.rewrite,
                    staged |-> g, moved |-> m, blobs |-> files.blobs]
      BY <1>4, <3>1, StoreExcept, Zenon
    <3> QED
      BY <2>1, <3>2
  <2>3. \A a : Staged(a)' <=> Staged(a)
    BY <1>1, <1>4, <2>1, <2>2, SameDeletion
  <2>4. torn' \in BOOLEAN /\ (~torn' => ~torn /\ g = files.staged /\ m = files.moved)
    BY <1>4 DEF FilesInv
  <2>5. StoreInv'
    BY <1>1, <1>2, <2>1, <2>2, <2>3, <2>4, StoreFields DEF StoreInv
  <2>6. Kept!ContentOfRecords'
    BY <2>1, <2>2 DEF Kept!ContentOfRecords
  <2> QED
    BY <1>1, <1>2, <1>4, <2>1, <2>2, <2>4, <2>5, <2>6, StoreWorks DEF FilesInv, Records
<1> QED
  BY <1>3, <1>4 DEF Kept!RemovesStage

LEMMA Undoing ==
    ASSUME FilesInv,
           Kept!CannotUndo \/ Kept!Undone \/ \E a \in Artifacts : Kept!UndoesRecord(a)
    PROVE  FilesInv'
<1>1. files.at = "undo" /\ UNCHANGED <<holds, logs>>
  BY DEF Kept!CannotUndo, Kept!Undone, Kept!UndoesRecord, Kept!holdVars
<1>2. CASE Kept!CannotUndo
  <2>1. /\ torn' = TRUE /\ files' = Kept!Free /\ Kept!Ends(files.by) /\ records' = records
    BY <1>2 DEF Kept!CannotUndo
  <2>2. Kept!ContentOfRecords'
    BY <2>1 DEF Kept!ContentOfRecords
  <2> QED
    BY <1>1, <2>1, <2>2, StoreDone
<1>3. CASE Kept!Undone
  <2>1. /\ files.staged = {} /\ blobs' = blobs \cup files.moved /\ files' = Kept!Free
        /\ Kept!Ends(files.by) /\ records' = records /\ torn' = torn
    BY <1>3 DEF Kept!Undone
  <2>2. \A a : Kept!Available(a)' <=> Kept!Available(a)
    BY <2>1 DEF Kept!Available, Kept!There
  <2>3. Kept!ContentOfRecords'
    BY <1>1, <2>1, <2>2, StoreFields DEF StoreInv, Kept!ContentOfRecords
  <2> QED
    BY <1>1, <2>1, <2>3, StoreDone DEF FilesInv
<1>4. ASSUME NEW a \in Artifacts, Kept!UndoesRecord(a) PROVE FilesInv'
  <2>1. /\ a \in files.staged /\ records' = [records EXCEPT ![a] = Kept!Of(a)]
        /\ UNCHANGED <<blobs, sweeps, torn>>
    BY <1>4 DEF Kept!UndoesRecord
  <2>2. PICK g, e : g = files.staged \ {a} /\ e = Kept!Of(a)
    OBVIOUS
  <2>3. PICK F : F = [at |-> "undo", by |-> files.by, left |-> files.left, rewrite |-> files.rewrite,
                      staged |-> g, moved |-> files.moved, blobs |-> files.blobs]
    OBVIOUS
  <2>4. files' = F
    <3>1. files = [at |-> files.at, by |-> files.by, left |-> files.left, rewrite |-> files.rewrite,
                   staged |-> files.staged, moved |-> files.moved, blobs |-> files.blobs]
      BY <1>1, StoreFields
    <3>2. files' = [files EXCEPT !.staged = g]
      BY <1>4, <2>2, <3>1 DEF Kept!UndoesRecord
    <3>3. files' = [at |-> files.at, by |-> files.by, left |-> files.left, rewrite |-> files.rewrite,
                    staged |-> g, moved |-> files.moved, blobs |-> files.blobs]
      BY <3>1, <3>2, StoreExcept, Zenon
    <3> QED
      BY <1>1, <2>3, <3>3
  <2>5. e \in Entry /\ Staged(a)
    BY <1>1, <2>1, <2>2, StoreFields DEF StoreInv, Staged
  <2>6. \A x \in Artifacts : IF x = a THEN records'[x] = e ELSE records'[x] = records[x]
    BY <2>1, <2>2 DEF FilesInv
  <2>7. \A x \in Artifacts : x # a => (Kept!Available(x)' <=> Kept!Available(x))
    BY <2>6, Unprimed
  <2>8. records' \in Records
    BY <2>1, <2>2, <2>5 DEF Records, FilesInv
  <2>9. \A x : Kept!Of(x)' = Kept!Of(x)
    BY <2>1, <2>3, <2>4, SameDeletion
  <2>10. \A x \in g : Staged(x)'
    <3>1. ASSUME NEW x \in g PROVE Staged(x)'
      <4>1. Staged(x) /\ x \in Artifacts /\ x # a
        BY <1>1, <2>2, StoreFields DEF StoreInv, Staged
      <4> QED
        BY <2>1, <2>3, <2>4, <2>6, <4>1, SameDeletion
    <3> QED
      BY <3>1
  <2>11. StoreInv'
    <3>1. ~torn => \A x \in Artifacts :
              Kept!Available(x)' \/ x \in g => Blob[x] \in blobs \cup files.moved
      BY <1>1, <2>1, <2>2, <2>7, StoreFields DEF StoreInv
    <3> QED
      BY <2>1, <2>3, <2>4, <2>10, <3>1 DEF StoreInv
  <2>12. Kept!ContentOfRecords'
    BY <2>3, <2>4 DEF Kept!ContentOfRecords
  <2>13. \A x \in Artifacts : Kept!Available(x)' \/ x \in F.staged => Kept!Available(x) \/ x \in files.staged
    BY <2>1, <2>2, <2>3, <2>7
  <2>14. \A x \in Artifacts : records[x] # Kept!None => records'[x] # Kept!None
    BY <2>5, <2>6, EntryShape
  <2> QED
    BY <1>1, <2>1, <2>3, <2>4, <2>8, <2>11, <2>12, <2>13, <2>14, StoreWorks DEF FilesInv
<1> QED
  BY <1>2, <1>3, <1>4

\* The store begins with the deletion whose effect is still what the deletion has looked at.
LEMMA SweepApplies ==
    ASSUME FilesInv, NEW s \in Sweeps, Kept!Applies(s)
    PROVE  FilesInv'
<1>1. /\ sweeps[s].at = "apply" /\ files = Kept!Free
      /\ UNCHANGED <<records, blobs, torn, holds, logs>>
  BY DEF Kept!Applies, Kept!Is, Kept!holdVars
<1>2. CASE Kept!Ends(s) /\ files' = files
  BY <1>1, <1>2, SweepEnds
<1>3. ASSUME Kept!Exist(Kept!Chosen(s)), Kept!OfArtifacts(Kept!Chosen(s)) = sweeps[s].preview.effect,
             Kept!Moves(s, "deleting"),
             files' = [at |-> "records", by |-> s, left |-> {a \in Kept!Chosen(s) : ~records[a].emptied},
                       rewrite |-> {}, staged |-> {}, moved |-> {},
                       blobs |-> {b \in DOMAIN sweeps[s].preview.effect.blobs :
                                    sweeps[s].preview.effect.blobs[b] = {}}]
      PROVE  FilesInv'
  <2>1. sweeps[s].at \in Going /\ sweeps[s].at \in Settled /\ sweeps[s].at # "deleting"
    BY <1>1 DEF Going, Settled
  <2>2. PICK w : /\ w = [at |-> "deleting", runs |-> sweeps[s].runs, preview |-> sweeps[s].preview,
                         holds |-> sweeps[s].holds, done |-> sweeps[s].done]
                 /\ sweeps' = [sweeps EXCEPT ![s] = w] /\ sweeps'[s] = w
    BY <1>3, <2>1, GoesTo, Zenon
  <2>3. PICK hs : hs = sweeps[s].holds
    OBVIOUS
  <2>4. /\ sweeps'[s].at = "deleting" /\ sweeps'[s].preview = sweeps[s].preview
        /\ sweeps'[s].runs = sweeps[s].runs /\ sweeps'[s].holds = hs
    BY <2>2, <2>3
  <2>5. SweepInv(s)
    BY SweepFields
  <2>6. SweepShape(s)'
    BY <1>1, <2>2, <2>5 DEF SweepInv, SweepShape, Going, Kept!Rest, Kept!Over
  <2>7. Kept!Chosen(s)' = Kept!Chosen(s) /\ Kept!Chosen(s) \subseteq Artifacts
    BY <2>1, <2>4, <2>5 DEF Kept!Chosen, SweepInv
  <2>8. SweepInv(s)'
    <3>1. /\ \A a \in Kept!Chosen(s) : ~Kept!ArtifactHeld(a, hs)'
          /\ \A q \in sweeps[s].runs : ~Kept!RunHeld(q, hs)'
          /\ PreviewShape(sweeps[s].preview)
      BY <1>1, <2>1, <2>3, <2>5, HeldStays DEF SweepInv
    <3> QED
      BY <2>4, <2>6, <2>7, <3>1 DEF SweepInv
  <2>9. \A t \in Sweeps : t # s => sweeps'[t] = sweeps[t]
    BY <2>2 DEF FilesInv
  <2>10. PICK l, b : /\ l = {a \in Kept!Chosen(s) : ~records[a].emptied}
                     /\ b = {x \in DOMAIN sweeps[s].preview.effect.blobs :
                                    sweeps[s].preview.effect.blobs[x] = {}}
    OBVIOUS
  <2>11. files' = [at |-> "records", by |-> s, left |-> l, rewrite |-> {}, staged |-> {}, moved |-> {},
                   blobs |-> b]
    BY <1>3, <2>10
  <2>12. /\ files'.at = "records" /\ files'.by = s /\ files'.left = l /\ files'.rewrite = {}
         /\ files'.staged = {} /\ files'.moved = {} /\ files'.blobs = b
    BY <2>11
  <2>13. StoreShape'
    BY <2>4, <2>11 DEF StoreShape
  <2>14. \A a : Kept!Available(a)' <=> Kept!Available(a)
    BY <1>1 DEF Kept!Available, Kept!There
  <2>15. ASSUME NEW a \in Kept!Chosen(s)
         PROVE  records[a] \in Entry /\ Kept!Of(a)' = records[a]
    <3>1. Kept!There(a)
      BY <1>3 DEF Kept!Exist
    <3>2. PICK e : e = Kept!OfArtifacts(Kept!Chosen(s)) /\ e = sweeps[s].preview.effect
      BY <1>3
    <3>3. e.records[a] = records[a]
      BY <3>2 DEF Kept!OfArtifacts
    <3>4. Kept!Of(a)' = sweeps[s].preview.effect.records[a]
      BY <2>4, <2>12 DEF Kept!Of
    <3> QED
      BY <2>7, <3>1, <3>2, <3>3, <3>4, AvailableIs
  <2>16. ASSUME NEW x \in b, NEW a \in Artifacts, Kept!Available(a), Blob[a] = x PROVE a \in l
    <3>1. PICK e : e = Kept!OfArtifacts(Kept!Chosen(s)) /\ e = sweeps[s].preview.effect
      BY <1>3
    <3>2. Kept!SharedBy(x, Kept!Chosen(s)) = {}
      BY <2>10, <3>1 DEF Kept!OfArtifacts
    <3>3. a \in Kept!Chosen(s)
      BY <2>16, <3>2 DEF Kept!SharedBy
    <3> QED
      BY <2>10, <2>16, <3>3, AvailableIs
  <2>17. StoreInv'
    <3>1. ~torn => \A a \in Artifacts : Kept!Available(a) => Blob[a] \in blobs
      BY <1>1 DEF FilesInv, Kept!ContentOfRecords, Kept!Free
    <3>2. \A a \in l : /\ a \in Kept!Chosen(s) /\ records[a] \in Entry
                       /\ records[a] = Kept!Of(a)' /\ ~records[a].emptied
      BY <2>10, <2>15
    <3>3. \A a \in Kept!Chosen(s) \ l : records[a] # Kept!None /\ ~Kept!Available(a)'
      BY <2>7, <2>10, <2>14, <2>15, AvailableIs, EntryShape
    <3>4. files'.at = "records" => /\ files'.at # "create" /\ files'.at # "adopt"
      OBVIOUS
    <3> QED
      BY <1>1, <2>7, <2>12, <2>14, <2>16, <3>1, <3>2, <3>3, <3>4 DEF StoreInv
  <2>18. Kept!ContentOfRecords'
    BY <1>1, <2>14 DEF FilesInv, Kept!ContentOfRecords, Kept!Free
  <2>19. \A t \in Sweeps, a \in Artifacts : sweeps[t].at = "logs" /\ a \in Kept!Chosen(t) =>
              /\ records'[a] # Kept!None /\ ~Kept!Available(a)'
              /\ files'.at \in {"records", "undo"} => a \notin files'.staged
    BY <1>1, <2>12, <2>14, AtTheLogs
  <2>20. sweeps' = [t \in Sweeps |-> sweeps'[t]]
    BY <2>2 DEF FilesInv
  <2> QED
    BY <1>1, <2>8, <2>9, <2>13, <2>17, <2>18, <2>19, <2>20, StoreMoves DEF FilesInv, Records
<1> QED
  BY <1>2, <1>3 DEF Kept!Applies

LEMMA FilesRestart ==
    ASSUME FilesInv, Kept!Restart
    PROVE  FilesInv'
<1>1. /\ files' = Kept!Free /\ UNCHANGED <<records, blobs, holds, logs>>
      /\ sweeps' = [s \in Sweeps |-> IF Kept!Is(s, "idle") THEN Kept!Rest ELSE Kept!Over]
      /\ torn' = (torn \/ files.at = "undo")
  BY DEF Kept!Restart
<1>2. \A s \in Sweeps : sweeps'[s] \in {Kept!Rest, Kept!Over}
  BY <1>1
<1>3. StoreShape' /\ StoreInv'
  BY <1>1 DEF StoreShape, StoreInv, Kept!Free
<1>4. \A a : Kept!Available(a)' <=> Kept!Available(a)
  BY <1>1 DEF Kept!Available, Kept!There
<1>5. Kept!ContentOfRecords'
  BY <1>1, <1>4 DEF FilesInv, Kept!ContentOfRecords
<1>6. \A h \in Holds : HoldShape(h)'
  BY <1>1 DEF FilesInv, HoldShape
<1>7. \A s \in Sweeps : SweepInv(s)'
  BY <1>2, SweepOver
<1> QED
  BY <1>1, <1>3, <1>5, <1>6, <1>7 DEF FilesInv

LEMMA FilesStep ==
    ASSUME FilesInv, Kept!Next
    PROVE  FilesInv'
<1>1. ASSUME NEW a \in Artifacts,
             \/ Kept!Create(a) \/ \E d \in Verdicts : Kept!Review(a, d)
             \/ Kept!Adopt(a) \/ Kept!MovesRecord(a) \/ Kept!UndoesRecord(a)
      PROVE  FilesInv'
  BY <1>1, StoreBegins, EntrySteps, RecordMoves, Undoing
<1>2. CASE \/ Kept!Created \/ Kept!Adopted \/ Kept!RewritesRecord \/ Kept!RemovesStage
           \/ Kept!CannotUndo \/ Kept!Undone
  BY <1>2, EntrySteps, RecordRewritten, StageRemoved, Undoing
<1>3. CASE \E b \in blobs : Kept!MovesBlob(b)
  BY <1>3, BlobMoves
<1>4. ASSUME NEW h \in Holds,
             \/ \E t \in Targets : Kept!CreateHold(h, t)
             \/ Kept!AsksRelease(h) \/ Kept!Releases(h)
      PROVE  FilesInv'
  BY <1>4, HoldSteps
<1>5. ASSUME NEW s \in Sweeps,
             \/ Kept!Ask(s) \/ Kept!Confirms(s) \/ Kept!Builds(s) \/ Kept!LooksAgain(s) \/ Kept!Applies(s)
             \/ \E r \in EndedRuns : Kept!DeletesLogs(s, r)
             \/ Kept!DeletesRuns(s) \/ Kept!Audits(s)
      PROVE  FilesInv'
  BY <1>5, SweepBegins, SweepBuilds, SweepLooks, SweepApplies, LogsDeleted, RunsDeleted
<1>6. CASE Kept!Restart
  BY <1>6, FilesRestart
<1> QED
  BY <1>1, <1>2, <1>3, <1>4, <1>5, <1>6 DEF Kept!Next

LEMMA FilesRest == FilesInv /\ UNCHANGED fileVars => FilesInv'
<1> SUFFICES ASSUME FilesInv, UNCHANGED fileVars PROVE FilesInv'
  OBVIOUS
<1>1. /\ UNCHANGED <<records, blobs, files, torn, sweeps, logs, holds>>
  BY DEF fileVars
<1> QED
  BY <1>1, HoldsMove DEF FilesInv, HoldShape

-----------------------------------------------------------------------------
(* What a deletion may never do *)

\* Who changes a record, and how.
LEMMA RecordChanges ==
    ASSUME FilesInv, Kept!Next, NEW a \in Artifacts, records'[a] # records[a]
    PROVE  \/ Kept!Created /\ records[a] = Kept!None
           \/ Kept!Adopted /\ records[a] \in Entry /\ records'[a].life = "used"
           \/ files = Kept!Free /\ records[a].life = "proposed"
           \/ Kept!MovesRecord(a) /\ a \in Kept!Chosen(files.by) /\ records[a] = Kept!Of(a)
           \/ Kept!RewritesRecord /\ a \in Kept!Chosen(files.by) /\ records[a] = Kept!Gone
           \/ Kept!UndoesRecord(a) /\ Staged(a)
<1>1. CASE Kept!Created
  <2>1. files.at = "create" /\ records[files.artifact] = Kept!None
    BY <1>1, StoreFields DEF Kept!Created, StoreInv
  <2>2. PICK r : r = [life |-> "proposed", emptied |-> FALSE]
    OBVIOUS
  <2>3. records' = [records EXCEPT ![files.artifact] = r] \/ records' = records
    BY <1>1, <2>2 DEF Kept!Created
  <2> QED
    BY <1>1, <2>1, <2>3 DEF FilesInv
<1>2. CASE Kept!Adopted
  <2>1. files.at = "adopt" /\ records[files.artifact] \in Entry
    BY <1>2, StoreFields DEF Kept!Adopted, StoreInv
  <2>2. PICK r : r = [records[files.artifact] EXCEPT !.life = "used"]
    OBVIOUS
  <2>3. r.life = "used"
    BY <2>1, <2>2 DEF Entry
  <2>4. records' = [records EXCEPT ![files.artifact] = r] \/ records' = records
    BY <1>2, <2>2 DEF Kept!Adopted
  <2>5. a = files.artifact /\ records'[a] = r
    BY <2>4 DEF FilesInv
  <2> QED
    BY <1>2, <2>1, <2>3, <2>5
<1>3. ASSUME NEW x \in Artifacts, NEW d \in Verdicts, Kept!Review(x, d)
      PROVE  files = Kept!Free /\ records[a].life = "proposed"
  BY <1>3 DEF Kept!Review, FilesInv
<1>4. ASSUME NEW x \in Artifacts, Kept!MovesRecord(x)
      PROVE  Kept!MovesRecord(a) /\ a \in Kept!Chosen(files.by) /\ records[a] = Kept!Of(a)
  <2>1. files.at = "records" /\ x \in files.left /\ (records' = records \/ records' = [records EXCEPT ![x] = Kept!Gone])
    BY <1>4 DEF Kept!MovesRecord
  <2>2. x = a
    BY <2>1 DEF FilesInv
  <2> QED
    BY <1>4, <2>1, <2>2, StoreFields DEF StoreInv
<1>5. CASE Kept!RewritesRecord
  <2>1. files.at = "records" /\ a \in files.rewrite
    BY <1>5 DEF Kept!RewritesRecord
  <2>2. a \in files.staged /\ records[a] = Kept!Gone
    BY <2>1, StoreFields DEF StoreInv
  <2>3. Staged(a)
    BY <2>1, <2>2, StoreFields DEF StoreInv
  <2> QED
    BY <1>5, <2>2, <2>3 DEF Staged
<1>6. ASSUME NEW x \in Artifacts, Kept!UndoesRecord(x)
      PROVE  Kept!UndoesRecord(a) /\ Staged(a)
  <2>1. files.at = "undo" /\ x \in files.staged /\ records' = [records EXCEPT ![x] = Kept!Of(x)]
    BY <1>6 DEF Kept!UndoesRecord
  <2>2. x = a
    BY <2>1 DEF FilesInv
  <2> QED
    BY <1>6, <2>1, <2>2, StoreFields DEF StoreInv
<1>7. CASE \/ \E x \in Artifacts : Kept!Create(x) \/ Kept!Adopt(x)
           \/ Kept!RemovesStage \/ Kept!CannotUndo \/ Kept!Undone
           \/ \E b \in blobs : Kept!MovesBlob(b)
  BY <1>7 DEF Kept!Create, Kept!Adopt, Kept!RemovesStage, Kept!CannotUndo, Kept!Undone, Kept!MovesBlob
<1>8. CASE \E h \in Holds : (\E t \in Targets : Kept!CreateHold(h, t)) \/ Kept!AsksRelease(h) \/ Kept!Releases(h)
  BY <1>8 DEF Kept!CreateHold, Kept!AsksRelease, Kept!Releases, Kept!artifactVars
<1>9. CASE \E s \in Sweeps :
         \/ Kept!Ask(s) \/ Kept!Confirms(s) \/ Kept!Builds(s) \/ Kept!LooksAgain(s) \/ Kept!Applies(s)
         \/ \E r \in EndedRuns : Kept!DeletesLogs(s, r)
         \/ Kept!DeletesRuns(s) \/ Kept!Audits(s)
  BY <1>9 DEF Kept!Ask, Kept!Confirms, Kept!Builds, Kept!LooksAgain, Kept!Applies, Kept!DeletesLogs,
     Kept!DeletesRuns, Kept!Audits, Kept!artifactVars
<1>10. CASE Kept!Restart
  BY <1>10 DEF Kept!Restart
<1> QED
  BY <1>1, <1>2, <1>3, <1>4, <1>5, <1>6, <1>7, <1>8, <1>9, <1>10 DEF Kept!Next

\* The record of a used artifact goes only when it is to be written again, without content.
LEMMA UsedGoes ==
    ASSUME FilesInv, Kept!Next, NEW a \in Artifacts, records[a].life = "used"
    PROVE  records'[a].life = "used" \/ (files'.at = "records" /\ a \in files'.rewrite)
<1>1. records[a] \in Entry
  BY AvailableIs DEF Kept!None, Kept!Gone
<1>2. CASE Kept!MovesRecord(a) /\ records[a] = Kept!Of(a) /\ records'[a] # records[a]
  <2>1. files.at = "records" /\ files.at # "undo"
    BY <1>2 DEF Kept!MovesRecord
  <2>2. PICK x : x = {a} /\ Kept!KeepsMetadata(Kept!Of(a))
    BY <1>2 DEF Kept!KeepsMetadata
  <2>3. PICK l, g : l = files.left \ {a} /\ g = files.staged \cup {a}
    OBVIOUS
  <2>4. files' = [files EXCEPT !.left = l, !.staged = g, !.rewrite = x]
    BY <1>2, <2>2, <2>3 DEF Kept!MovesRecord
  <2>5. files = [at |-> files.at, by |-> files.by, left |-> files.left, rewrite |-> files.rewrite,
                 staged |-> files.staged, moved |-> files.moved, blobs |-> files.blobs]
    BY <2>1, StoreFields
  <2>6. files' = [at |-> files.at, by |-> files.by, left |-> l, rewrite |-> x,
                  staged |-> g, moved |-> files.moved, blobs |-> files.blobs]
    BY <2>4, <2>5, StoreExcept, Zenon
  <2> QED
    BY <2>1, <2>2, <2>6
<1>3. CASE Kept!UndoesRecord(a) /\ Staged(a)
  <2>1. records' = [records EXCEPT ![a] = Kept!Of(a)]
    BY <1>3 DEF Kept!UndoesRecord
  <2>2. records'[a] = Kept!Of(a)
    BY <2>1 DEF FilesInv
  <2> QED
    BY <1>1, <1>3, <2>2, EntryShape DEF Staged
<1> QED
  BY <1>1, <1>2, <1>3, RecordChanges, EntryShape DEF Kept!None, Kept!Gone

\* Who moves the store on while it deletes or undoes.
LEMMA StoreChanges ==
    ASSUME Kept!Next, files.at \in {"records", "undo"}, files' # files
    PROVE  \/ Kept!RewritesRecord \/ Kept!CannotUndo \/ Kept!Undone \/ Kept!Restart
           \/ \E x \in Artifacts : Kept!UndoesRecord(x)
           \/ files.at = "records" /\ files.rewrite = {}
<1>1. files # Kept!Free /\ files.at \notin {"create", "adopt"}
  BY DEF Kept!Free
<1>2. ASSUME NEW x \in Artifacts, Kept!Create(x) \/ Kept!Adopt(x) \/ Kept!MovesRecord(x) \/ \E d \in Verdicts : Kept!Review(x, d)
      PROVE  files.at = "records" /\ files.rewrite = {}
  BY <1>1, <1>2 DEF Kept!Create, Kept!Adopt, Kept!Review, Kept!MovesRecord
<1>3. ~Kept!Created /\ ~Kept!Adopted
  BY <1>1 DEF Kept!Created, Kept!Adopted
<1>7. ASSUME Kept!RemovesStage \/ \E b \in blobs : Kept!MovesBlob(b)
      PROVE  files.at = "records" /\ files.rewrite = {}
  BY <1>7, Zenon DEF Kept!RemovesStage, Kept!MovesBlob
<1>4. CASE \E h \in Holds : (\E t \in Targets : Kept!CreateHold(h, t)) \/ Kept!AsksRelease(h) \/ Kept!Releases(h)
  BY <1>4 DEF Kept!CreateHold, Kept!AsksRelease, Kept!Releases, Kept!artifactVars
<1>5. CASE \E s \in Sweeps :
         \/ Kept!Ask(s) \/ Kept!Confirms(s) \/ Kept!Builds(s) \/ Kept!LooksAgain(s)
         \/ \E r \in EndedRuns : Kept!DeletesLogs(s, r)
         \/ Kept!DeletesRuns(s) \/ Kept!Audits(s)
  BY <1>5 DEF Kept!Ask, Kept!Confirms, Kept!Builds, Kept!LooksAgain, Kept!DeletesLogs,
     Kept!DeletesRuns, Kept!Audits, Kept!artifactVars
<1>6. ASSUME NEW s \in Sweeps, Kept!Applies(s) PROVE FALSE
  BY <1>1, <1>6 DEF Kept!Applies
<1> QED
  BY <1>2, <1>3, <1>4, <1>5, <1>6, <1>7 DEF Kept!Next

\* While the store works for a deletion, nothing else moves that deletion on.
LEMMA DeletionWaits ==
    ASSUME FilesInv, Kept!Next, files' = files, files # Kept!Free, NEW s \in Sweeps, sweeps[s].at = "deleting"
    PROVE  sweeps'[s] = sweeps[s]
<1>1. CASE \/ \E x \in Artifacts :
                \/ Kept!Create(x) \/ \E d \in Verdicts : Kept!Review(x, d)
                \/ Kept!Adopt(x) \/ Kept!MovesRecord(x) \/ Kept!UndoesRecord(x)
  BY <1>1 DEF Kept!Create, Kept!Review, Kept!Adopt, Kept!MovesRecord, Kept!UndoesRecord
<1>5. CASE Kept!Created \/ Kept!Adopted \/ Kept!RewritesRecord
  BY <1>5 DEF Kept!Created, Kept!Adopted, Kept!RewritesRecord
<1>6. CASE \E b \in blobs : Kept!MovesBlob(b)
  BY <1>6 DEF Kept!MovesBlob
<1>7. CASE \E h \in Holds : (\E t \in Targets : Kept!CreateHold(h, t)) \/ Kept!AsksRelease(h) \/ Kept!Releases(h)
  BY <1>7 DEF Kept!CreateHold, Kept!AsksRelease, Kept!Releases
<1>2. CASE Kept!CannotUndo \/ Kept!Undone \/ Kept!Restart
  BY <1>2 DEF Kept!CannotUndo, Kept!Undone, Kept!Restart
<1>3. ASSUME Kept!RemovesStage PROVE sweeps'[s] = sweeps[s]
  <2>1. files' = Kept!Free \/ sweeps' = sweeps
    BY <1>3, Zenon DEF Kept!RemovesStage
  <2> QED
    BY <2>1
<1>4. ASSUME NEW t \in Sweeps,
         \/ Kept!Ask(t) \/ Kept!Confirms(t) \/ Kept!Builds(t) \/ Kept!LooksAgain(t) \/ Kept!Applies(t)
         \/ \E r \in EndedRuns : Kept!DeletesLogs(t, r)
         \/ Kept!DeletesRuns(t) \/ Kept!Audits(t)
      PROVE  sweeps'[s] = sweeps[s]
  <2>1. sweeps[t].at # "deleting"
    BY <1>4 DEF Kept!Ask, Kept!Confirms, Kept!Builds, Kept!LooksAgain, Kept!Applies, Kept!DeletesLogs,
       Kept!DeletesRuns, Kept!Audits, Kept!Is
  <2>2. t # s
    BY <2>1
  <2> QED
    BY <1>4, <2>2 DEF Kept!Ask, Kept!Confirms, Kept!Builds, Kept!LooksAgain, Kept!Applies, Kept!DeletesLogs,
       Kept!DeletesRuns, Kept!Audits, Kept!Ends, Kept!Moves, FilesInv
<1> QED
  BY <1>1, <1>2, <1>3, <1>4, <1>5, <1>6, <1>7 DEF Kept!Next

\* What has been moved away is written again, or is among what goes back.
LEMMA RewriteStep ==
    ASSUME FilesInv, Kept!Next, NEW a \in Artifacts, files.at = "records", a \in files.rewrite
    PROVE  Kept!Remembered(a)' \/ files' = Kept!Free
<1>1. a \in files.staged /\ Kept!Of(a).life = "used" /\ Kept!Of(a) \in Entry
  BY StoreFields DEF StoreInv, Staged
<1>2. files # Kept!Free /\ files.at \notin {"create", "adopt", "undo"} /\ files.rewrite # {}
  BY DEF Kept!Free
<1>3. CASE Kept!RewritesRecord
  <2>1. CASE records' = [x \in Artifacts |->
                           IF x \in files.rewrite THEN [Kept!Of(x) EXCEPT !.emptied = TRUE] ELSE records[x]]
    <3>1. records'[a] = [Kept!Of(a) EXCEPT !.emptied = TRUE]
      BY <2>1
    <3>2. PICK e : e = Kept!Of(a)
      OBVIOUS
    <3>3. e \in Entry /\ e.life = "used" /\ records'[a] = [e EXCEPT !.emptied = TRUE]
      BY <1>1, <3>1, <3>2
    <3>4. records'[a].life = "used"
      BY <3>3 DEF Entry
    <3> QED
      BY <3>4 DEF Kept!Remembered
  <2>2. CASE files' = [files EXCEPT !.at = "undo"]
    <3>1. PICK u : u = "undo"
      OBVIOUS
    <3>2. files = [at |-> files.at, by |-> files.by, left |-> files.left, rewrite |-> files.rewrite,
                   staged |-> files.staged, moved |-> files.moved, blobs |-> files.blobs]
      BY StoreFields
    <3>3. files'.at = "undo" /\ files'.staged = files.staged /\ files'.by = files.by
      BY <2>2, <3>2
    <3>4. sweeps' = sweeps
      BY <1>3 DEF Kept!RewritesRecord
    <3>5. Kept!Of(a)' = Kept!Of(a)
      BY <3>3, <3>4 DEF Kept!Of
    <3> QED
      BY <1>1, <3>3, <3>5 DEF Kept!Remembered, Kept!OnItsWay
  <2> QED
    BY <1>3, <2>1, <2>2 DEF Kept!RewritesRecord
<1>4. CASE files' = files
  BY <1>4 DEF Kept!Remembered, Kept!OnItsWay
<1>5. Kept!Restart => files' = Kept!Free
  BY DEF Kept!Restart
<1>6. ~Kept!CannotUndo /\ ~Kept!Undone /\ \A x \in Artifacts : ~Kept!UndoesRecord(x)
  BY DEF Kept!CannotUndo, Kept!Undone, Kept!UndoesRecord
<1> QED
  BY <1>2, <1>3, <1>4, <1>5, <1>6, StoreChanges

\* What goes back is put back, or the deletion has broken off.
LEMMA UndoStep ==
    ASSUME FilesInv, Kept!Next, ~torn', NEW a \in Artifacts,
           files.at = "undo", a \in files.staged, Kept!Of(a).life = "used"
    PROVE  Kept!Remembered(a)'
<1>1. files # Kept!Free
  BY DEF Kept!Free
<1>2. ASSUME NEW x \in Artifacts, Kept!UndoesRecord(x) PROVE Kept!Remembered(a)'
  <2>1. records' = [records EXCEPT ![x] = Kept!Of(x)] /\ sweeps' = sweeps
    BY <1>2 DEF Kept!UndoesRecord
  <2>2. CASE x = a
    <3>1. records'[a] = Kept!Of(a)
      BY <2>1, <2>2 DEF FilesInv
    <3> QED
      BY <3>1 DEF Kept!Remembered
  <2>3. CASE x # a
    <3>1. PICK g : g = files.staged \ {x}
      OBVIOUS
    <3>2. files = [at |-> files.at, by |-> files.by, left |-> files.left, rewrite |-> files.rewrite,
                   staged |-> files.staged, moved |-> files.moved, blobs |-> files.blobs]
      BY StoreFields
    <3>3. files' = [files EXCEPT !.staged = g]
      BY <1>2, <3>1 DEF Kept!UndoesRecord
    <3>4. files'.at = "undo" /\ files'.staged = g /\ files'.by = files.by
      BY <3>2, <3>3
    <3>5. Kept!Of(a)' = Kept!Of(a)
      BY <2>1, <3>4 DEF Kept!Of
    <3> QED
      BY <2>3, <3>1, <3>4, <3>5 DEF Kept!Remembered, Kept!OnItsWay
  <2> QED
    BY <2>2, <2>3
<1>3. CASE files' = files
  <2>1. files.by \in Sweeps /\ sweeps[files.by].at = "deleting"
    BY StoreFields
  <2>2. sweeps'[files.by] = sweeps[files.by]
    BY <1>1, <1>3, <2>1, DeletionWaits
  <2>3. Kept!Of(a)' = Kept!Of(a)
    BY <1>3, <2>2 DEF Kept!Of
  <2> QED
    BY <1>3, <2>3 DEF Kept!Remembered, Kept!OnItsWay
<1>4. ~Kept!CannotUndo /\ ~Kept!Restart /\ ~Kept!Undone /\ ~Kept!RewritesRecord
  BY DEF Kept!CannotUndo, Kept!Restart, Kept!Undone, Kept!RewritesRecord
<1> QED
  BY <1>1, <1>2, <1>3, <1>4, StoreChanges

\* A used artifact stays remembered, but for a stop between the two writes.
LEMMA UsedStep ==
    ASSUME FilesInv, Kept!Next, ~torn', NEW a \in Artifacts, Kept!Remembered(a)
    PROVE  Kept!Remembered(a)' \/ Kept!StopsHalfway(a)
<1>1. CASE records[a].life = "used"
  BY <1>1, UsedGoes DEF Kept!Remembered, Kept!OnItsWay
<1>2. CASE files.at = "records" /\ a \in files.rewrite
  BY <1>2, RewriteStep DEF Kept!StopsHalfway
<1>3. CASE files.at = "undo" /\ a \in files.staged /\ Kept!Of(a).life = "used"
  BY <1>3, UndoStep
<1> QED
  BY <1>1, <1>2, <1>3 DEF Kept!Remembered, Kept!OnItsWay

\* A content goes when it is moved away, and a run or its log when a deletion is at the logs.
LEMMA OtherChanges ==
    ASSUME Kept!Next, FilesInv
    PROVE  /\ blobs \subseteq blobs' \/ \E b \in blobs : Kept!MovesBlob(b)
           /\ \/ ended' = ended /\ logs' = logs
              \/ \E s \in Sweeps : /\ \/ \E r \in EndedRuns : Kept!DeletesLogs(s, r)
                                      \/ Kept!DeletesRuns(s) /\ logs' = logs
                                   /\ sweeps[s].at = "logs"
                                   /\ \A t \in Sweeps : t # s => sweeps'[t] = sweeps[t]
<1>1. CASE \E a \in Artifacts :
              \/ Kept!Create(a) \/ \E d \in Verdicts : Kept!Review(a, d)
              \/ Kept!Adopt(a) \/ Kept!MovesRecord(a) \/ Kept!UndoesRecord(a)
  BY <1>1 DEF Kept!Create, Kept!Review, Kept!Adopt, Kept!MovesRecord, Kept!UndoesRecord
<1>2. CASE \/ Kept!Created \/ Kept!Adopted \/ Kept!RewritesRecord \/ Kept!RemovesStage
           \/ Kept!CannotUndo \/ Kept!Undone
  BY <1>2 DEF Kept!Created, Kept!Adopted, Kept!RewritesRecord, Kept!RemovesStage, Kept!CannotUndo, Kept!Undone
<1>3. CASE \E b \in blobs : Kept!MovesBlob(b)
  BY <1>3 DEF Kept!MovesBlob
<1>4. CASE \E h \in Holds : (\E t \in Targets : Kept!CreateHold(h, t)) \/ Kept!AsksRelease(h) \/ Kept!Releases(h)
  BY <1>4 DEF Kept!CreateHold, Kept!AsksRelease, Kept!Releases, Kept!artifactVars
<1>5. CASE \E s \in Sweeps :
         Kept!Ask(s) \/ Kept!Confirms(s) \/ Kept!Builds(s) \/ Kept!LooksAgain(s) \/ Kept!Applies(s) \/ Kept!Audits(s)
  BY <1>5 DEF Kept!Ask, Kept!Confirms, Kept!Builds, Kept!LooksAgain, Kept!Applies, Kept!Audits, Kept!artifactVars
<1>6. ASSUME NEW s \in Sweeps, (\E r \in EndedRuns : Kept!DeletesLogs(s, r)) \/ Kept!DeletesRuns(s)
      PROVE  /\ blobs' = blobs /\ sweeps[s].at = "logs" /\ (Kept!DeletesRuns(s) => logs' = logs)
             /\ \A t \in Sweeps : t # s => sweeps'[t] = sweeps[t]
  BY <1>6 DEF Kept!DeletesLogs, Kept!DeletesRuns, Kept!Is, Kept!Ends, Kept!Moves, Kept!artifactVars, FilesInv
<1>7. CASE Kept!Restart
  BY <1>7 DEF Kept!Restart
<1> QED
  BY <1>1, <1>2, <1>3, <1>4, <1>5, <1>6, <1>7 DEF Kept!Next

\* Of what was held when a deletion read the holds, and still is, it deletes nothing.
LEMMA HeldStep ==
    ASSUME FilesInv, Kept!Next, NEW s \in Sweeps, "holds" \in DOMAIN sweeps[s]
    PROVE  LET on == Kept!On(sweeps[s].holds \cap Kept!Active) IN
           /\ files.at = "records" /\ files.by = s =>
                \A a \in Artifacts : on \cap {a, Owner[a], CaseOf[Owner[a]]} # {} =>
                  /\ records'[a] = records[a]
                  /\ Kept!Available(a) /\ Blob[a] \in blobs => Blob[a] \in blobs'
           /\ sweeps'[s] # sweeps[s] =>
                \A r \in sweeps[s].runs : on \cap {r, CaseOf[r]} # {} =>
                  (r \in ended => r \in ended') /\ (r \in logs => r \in logs')
<1>1. PICK on : on = Kept!On(sweeps[s].holds \cap Kept!Active)
  OBVIOUS
<1>2. on \subseteq Kept!On(sweeps[s].holds)
  BY <1>1 DEF Kept!On
<1>3. ASSUME files.at = "records", files.by = s, NEW a \in Artifacts, on \cap {a, Owner[a], CaseOf[Owner[a]]} # {}
      PROVE  /\ records'[a] = records[a]
             /\ Kept!Available(a) /\ Blob[a] \in blobs => Blob[a] \in blobs'
  <2>1. SweepInv(s) /\ sweeps[s].at \in Settled
    BY <1>3, StoreFields, SweepFields DEF Settled, Going
  <2>2. Kept!ArtifactHeld(a, sweeps[s].holds)
    BY <1>2, <1>3 DEF Kept!ArtifactHeld, Kept!RunHeld
  <2>3. a \notin Kept!Chosen(s)
    BY <2>1, <2>2 DEF SweepInv
  <2>4. records'[a] = records[a]
    <3>1. ~Kept!Created /\ ~Kept!Adopted /\ ~Kept!UndoesRecord(a) /\ files # Kept!Free
      BY <1>3 DEF Kept!Created, Kept!Adopted, Kept!UndoesRecord, Kept!Free
    <3> QED
      BY <1>3, <2>3, <3>1, RecordChanges
  <2>5. ASSUME Kept!Available(a), Blob[a] \in blobs PROVE Blob[a] \in blobs'
    <3>1. ASSUME NEW b \in blobs, Kept!MovesBlob(b) PROVE Blob[a] \in blobs'
      <4>1. b \in files.blobs /\ files.left = {} /\ (blobs' = blobs \/ blobs' = blobs \ {b})
        BY <3>1 DEF Kept!MovesBlob
      <4>2. Blob[a] # b
        BY <1>3, <2>5, <4>1, StoreFields DEF StoreInv
      <4> QED
        BY <2>5, <4>1, <4>2
    <3> QED
      BY <2>5, <3>1, OtherChanges
  <2> QED
    BY <2>4, <2>5
<1>4. ASSUME sweeps'[s] # sweeps[s], NEW r \in sweeps[s].runs, on \cap {r, CaseOf[r]} # {}
      PROVE  (r \in ended => r \in ended') /\ (r \in logs => r \in logs')
  <2>1. Kept!RunHeld(r, sweeps[s].holds)
    BY <1>2, <1>4 DEF Kept!RunHeld
  <2>2. sweeps[s].at \notin Settled
    BY <1>4, <2>1, SweepFields DEF SweepInv
  <2> QED
    BY <1>4, <2>2, OtherChanges DEF Settled, Going
<1> QED
  BY <1>1, <1>3, <1>4

\* When a deletion removes its runs, their logs and its artifacts have gone.
LEMMA RunStep ==
    ASSUME FilesInv, Kept!Next, NEW s \in Sweeps, Kept!Is(s, "logs"), ended' # ended, sweeps'[s] # sweeps[s]
    PROVE  /\ sweeps[s].runs \cap logs = {}
           /\ \A a \in Kept!Chosen(s) : ~Kept!Available(a)
<1>1. Kept!DeletesRuns(s)
  <2>1. \A t \in Sweeps, r \in EndedRuns : Kept!DeletesLogs(t, r) => ended' = ended
    BY DEF Kept!DeletesLogs
  <2> QED
    BY <2>1, OtherChanges
<1>2. sweeps[s].at = "logs" /\ sweeps[s].done = sweeps[s].runs
  BY <1>1 DEF Kept!DeletesRuns, Kept!LogsGone, Kept!Is
<1>3. sweeps[s].done \cap logs = {}
  <2>1. SweepShape(s)
    BY SweepFields DEF SweepInv
  <2> QED
    BY <1>2, <2>1 DEF SweepShape, Kept!Rest, Kept!Over
<1> QED
  BY <1>2, <1>3, AtTheLogs

\* What the deletions keep to, in the words of the properties.
LEMMA FilesKeep ==
    FilesInv /\ (Kept!Next \/ UNCHANGED fileVars) =>
      /\ \A a \in Artifacts :
           Kept!Remembered(a) /\ ~torn' => Kept!Remembered(a)' \/ Kept!StopsHalfway(a)
      /\ \A s \in Sweeps : "holds" \in DOMAIN sweeps[s] =>
           LET on == Kept!On(sweeps[s].holds \cap Kept!Active) IN
           /\ files.at = "records" /\ files.by = s =>
                \A a \in Artifacts : on \cap {a, Owner[a], CaseOf[Owner[a]]} # {} =>
                  /\ records'[a] = records[a]
                  /\ Kept!Available(a) /\ Blob[a] \in blobs => Blob[a] \in blobs'
           /\ sweeps'[s] # sweeps[s] =>
                \A r \in sweeps[s].runs : on \cap {r, CaseOf[r]} # {} =>
                  (r \in ended => r \in ended') /\ (r \in logs => r \in logs')
      /\ \A s \in Sweeps : Kept!Is(s, "logs") /\ ended' # ended /\ sweeps'[s] # sweeps[s] =>
           /\ sweeps[s].runs \cap logs = {}
           /\ \A a \in Kept!Chosen(s) : ~Kept!Available(a)
<1>1. CASE UNCHANGED fileVars
  BY <1>1 DEF fileVars, Kept!Remembered, Kept!OnItsWay, Kept!Of
<1>2. CASE FilesInv /\ Kept!Next
  BY <1>2, UsedStep, HeldStep, RunStep, Zenon
<1> QED
  BY <1>1, <1>2

-----------------------------------------------------------------------------
(* The structuring of an import by AI runs *)

Statuses == {"queued", "running", "validating", "applying", "cancel_requested", "suggestions_ready",
             "applied", "failed", "cancelled"}
Rec == [status : Statuses, mode : Ai!Modes, binding : Nat, intent : Nat,
        has : SUBSET {"proposal", "result", "failure"}, cleanup : Nat]
Agents == {"none", "active", "asking", "cancelling", "succeeded", "failed", "cancelled", "purged"}
Import == [status : {"open", "adopted", "deleted"}, revision : Nat \ {0}, holds : SUBSET AiRuns]

\* Where a process is, by the status of the record it works with.
Fresh == {"enqueueing", "creating", "discarding"}
Starting == Fresh \cup {"created"}
Looking == {"looking", "quarantining", "completing", "validating", "valid", "invalid", "erasing"}
Versioning == {"awaiting version", "version", "materialized", "versioned", "unversioned"}
Applying == {"awaiting apply", "apply", "merging", "not applied"}
Leaving == {"failed", "cancelled", "running", "applied", "cancel_requested", "retained"}
Dropping == {"discarded", "dropping", "expired"}
Working == Looking \cup Versioning \cup Applying \cup Leaving \cup Dropping
Clearing == {"settling", "clearing"}
Deleting == Clearing \cup {"awaiting deletion", "removing"}

\* What a process at a place has in hand.
Fits(at, r, n) ==
    /\ r \in AiRuns /\ n \in Rec /\ Ai!Sealed(n)
    /\ at \in Starting => n.status = "queued"
    /\ at \in Looking \cup {"cancelled", "cancel_requested", "retained"} => n.status \in Ai!Cancellable
    /\ at \in Versioning => n.status = "suggestions_ready"
    /\ at \in Applying => n.status = "applying"
    /\ at = "failed" => n.status \in Ai!Cancellable \cup {"suggestions_ready"}
    /\ at = "running" => n.status = "queued"
    /\ at = "applied" => n.status \in {"suggestions_ready", "applying"}
    /\ at = "retained" => n.cleanup < MaxAttempts
    /\ at = "expired" => n.status # "applying" /\ ~Ai!ReplaceReady(n)

Carries(p) ==
    call[p].at \in Starting \cup Working => Fits(call[p].at, call[p].run, call[p].rec)

\* No record is left, and none is on its way.
AllGone ==
    /\ \A r \in AiRuns : record[r] = Ai!Absent
    /\ \A p \in Ai!Processes : call[p].at \notin Starting

\* What holds of the import, the records and the agents while a process is at its place.
Stands(p) ==
    /\ call[p].at \in Starting \cup Working \cup Deleting \cup {"idle"}
    /\ call[p].at \in Starting => p \in Users /\ queue = p
    /\ call[p].at \in Fresh => record[call[p].run] = Ai!Absent
    /\ call[p].at = "enqueueing" => agent[call[p].run] = "none"
    /\ call[p].at \in {"applied", "versioned"} => call[p].run \in import.holds \/ import.status = "deleted"
    /\ call[p].at = "versioned" => call[p].run = p
    /\ call[p].at = "cancelled" => agent[call[p].run] = "purged"
    /\ call[p].at \in Deleting => deleting
    /\ call[p].at \in Clearing => /\ queue = p
                                  /\ \A r \in AiRuns : record[r] # Ai!Absent => r \in call[p].run
    /\ call[p].at = "removing" => AllGone

Made(r) == \E c \in Users : call[c].at \in {"creating", "discarding"} /\ call[c].run = r

\* A record can be read and says what is so; the agent run without a record is gone, or
\* known to be left behind, or its record is being made.
RecordOk(r) ==
    /\ record[r] # Ai!Absent => Ai!Sealed(record[r])
    /\ record[r].status = "applied" => r \in import.holds \/ import.status = "deleted"
    /\ record[r].status = "cancelled" => agent[r] = "purged"
    /\ record[r] = Ai!Absent => agent[r] \in Ai!Erased \/ r \in untracked \/ Made(r)

AiInv ==
    /\ import \in Import
    /\ record \in [AiRuns -> Rec \cup {Ai!Absent}]
    /\ agent \in [AiRuns -> Agents]
    /\ call = [p \in Ai!Processes |-> call[p]]
    /\ \A r \in AiRuns : RecordOk(r)
    /\ \A p \in Ai!Processes : Carries(p) /\ Stands(p)
    /\ import.status = "deleted" => AllGone

LEMMA Apart ==
    /\ Ai!Absent \notin Rec /\ Ai!Absent.status \notin Statuses
    /\ Users \subseteq Ai!Processes /\ Removers \subseteq Ai!Processes /\ AiRuns \subseteq Ai!Processes
    /\ Ai!Sweep \in Ai!Processes /\ Ai!Nobody \notin Ai!Processes
    /\ Users \cap AiRuns = {} /\ Ai!Sweep \notin Users
BY RecordsAssumption DEF Ai!Absent, Rec, Statuses, Ai!Processes, Ai!Clients, Ai!Sweep, Ai!Nobody

LEMMA AiInit == Ai!Init => AiInv
<1> SUFFICES ASSUME Ai!Init PROVE AiInv
  OBVIOUS
<1>1. \A p \in Ai!Processes : call[p].at = "idle"
  BY DEF Ai!Init, Ai!Idle
<1>2. \A p \in Ai!Processes : Carries(p) /\ Stands(p)
  BY <1>1 DEF Carries, Stands, Starting, Fresh, Working, Looking, Versioning, Applying, Leaving, Dropping,
     Deleting, Clearing
<1>3. \A r \in AiRuns : RecordOk(r)
  BY DEF Ai!Init, RecordOk, Ai!Absent, Ai!Erased
<1> QED
  BY <1>2, <1>3 DEF Ai!Init, AiInv, Import, Agents

-----------------------------------------------------------------------------
(* A process moves *)

\* What a record is that has been changed.
Says(r) ==
    /\ record[r] # Ai!Absent => Ai!Sealed(record[r])
    /\ record[r].status = "applied" => r \in import.holds \/ import.status = "deleted"
    /\ record[r].status = "cancelled" => agent[r] = "purged"
    /\ record[r] = Ai!Absent => agent[r] \in Ai!Erased \/ r \in untracked

\* One process moves, the others stay where they are.
LEMMA OneMoves ==
    ASSUME AiInv, NEW p \in Ai!Processes,
           import' \in Import, record' \in [AiRuns -> Rec \cup {Ai!Absent}], agent' \in [AiRuns -> Agents],
           call' = [q \in Ai!Processes |-> call'[q]],
           \A q \in Ai!Processes : q # p => call'[q] = call[q],
           \/ Carries(p)' /\ Stands(p)'
           \/ call'[p] = call[p] /\ call[p].at \notin Starting /\ queue' = queue,
           queue' = queue \/ (queue = Ai!Nobody /\ queue' = p) \/ queue = p,
           deleting => deleting', untracked \subseteq untracked',
           \A r \in AiRuns : record[r] = Ai!Absent => record'[r] = Ai!Absent \/ call[p].at \in Starting,
           \A r \in AiRuns : agent[r] = "purged" => agent'[r] = "purged",
           \A r \in AiRuns : agent[r] = "none" => agent'[r] = "none" \/
              (call[p].at = "enqueueing" /\ call'[p].at = "creating" /\ call'[p].run = r),
           import.status = "deleted" => import'.status = "deleted",
           import.holds \subseteq import'.holds \/ import'.status = "deleted",
           import'.status = "deleted" => import.status = "deleted" \/ call[p].at = "removing",
           call'[p].at \in Starting => call[p].at \in Starting \/ (~deleting /\ import.status # "deleted"),
           call[p].at \in {"creating", "discarding"} =>
              \/ call'[p].at \in {"creating", "discarding"} /\ call'[p].run = call[p].run
              \/ record'[call[p].run] # Ai!Absent \/ call[p].run \in untracked'
              \/ agent'[call[p].run] \in Ai!Erased,
           \A r \in AiRuns : record'[r] # record[r] => Says(r)'
    PROVE  AiInv'
<1>1. \A q \in Ai!Processes : call[q].at \in Starting \cup Clearing /\ q # p => queue = q /\ call[p].at \notin Starting
  BY DEF AiInv, Stands
<1>2. ASSUME AllGone, deleting \/ import.status = "deleted" PROVE AllGone'
  BY <1>2 DEF AllGone
<1>3. ASSUME NEW q \in Ai!Processes, call'[q] = call[q], call[q].at \notin Starting \/ q # p,
             queue = q => queue' = q
      PROVE  Carries(q)' /\ Stands(q)'
  <2>1. Carries(q)'
    BY <1>3 DEF AiInv, Carries
  <2>2. Stands(q)
    BY DEF AiInv
  <2>3. call[p].at \in Starting => queue = p
    BY DEF AiInv, Stands
  <2>4. call[q].at \in Starting \cup Clearing => call[p].at \notin Starting
    BY <1>1, <1>3, <2>2, <2>3 DEF Stands, Starting, Fresh, Clearing
  <2>5. call[q].at \in Starting \cup Working => call[q].run \in AiRuns
    BY DEF AiInv, Carries, Fits
  <2>6. call[q].at \in Fresh => record'[call[q].run] = Ai!Absent
    BY <2>2, <2>4, <2>5 DEF Stands, Starting
  <2>7. call[q].at = "enqueueing" => agent'[call[q].run] = "none"
    BY <2>2, <2>4, <2>5 DEF Stands, Starting, Fresh
  <2>8. call[q].at \in {"applied", "versioned"} => call[q].run \in import'.holds \/ import'.status = "deleted"
    BY <2>2 DEF Stands
  <2>9. call[q].at = "cancelled" => agent'[call[q].run] = "purged"
    BY <2>2, <2>5 DEF Stands, Working, Leaving
  <2>10. call[q].at \in Clearing => \A r \in AiRuns : record'[r] # Ai!Absent => r \in call[q].run
    BY <2>2, <2>4 DEF Stands
  <2>11. call[q].at = "removing" => AllGone'
    BY <1>2, <2>2 DEF Stands, Deleting
  <2> QED
    BY <1>3, <2>1, <2>2, <2>6, <2>7, <2>8, <2>9, <2>10, <2>11 DEF Stands
<1>4. ASSUME NEW q \in Ai!Processes PROVE Carries(q)' /\ Stands(q)'
  <2>1. CASE q # p
    <3>1. queue = q => queue' = q
      BY <2>1, Apart
    <3> QED
      BY <1>3, <2>1, <3>1
  <2>2. CASE q = p
    BY <1>3, <2>2
  <2> QED
    BY <2>1, <2>2
<1>5. ASSUME NEW r \in AiRuns PROVE RecordOk(r)'
  <2>1. CASE record'[r] # record[r]
    BY <2>1 DEF Says, RecordOk
  <2>2. CASE record'[r] = record[r]
    <3>1. RecordOk(r)
      BY DEF AiInv
    <3>2. /\ record'[r] # Ai!Absent => Ai!Sealed(record'[r])
          /\ record'[r].status = "applied" => r \in import'.holds \/ import'.status = "deleted"
          /\ record'[r].status = "cancelled" => agent'[r] = "purged"
      BY <2>2, <3>1 DEF RecordOk
    <3>3. ASSUME record'[r] = Ai!Absent PROVE agent'[r] \in Ai!Erased \/ r \in untracked' \/ Made(r)'
      <4>1. CASE agent[r] \in Ai!Erased
        <5>1. CASE call[p].at = "enqueueing" /\ call'[p].at = "creating" /\ call'[p].run = r
          <6>1. p \in Users
            BY <5>1 DEF AiInv, Stands, Starting, Fresh
          <6> QED
            BY <5>1, <6>1 DEF Made
        <5> QED
          BY <4>1, <5>1 DEF Ai!Erased
      <4>2. CASE r \in untracked
        BY <4>2
      <4>3. ASSUME NEW c \in Users, call[c].at \in {"creating", "discarding"}, call[c].run = r
            PROVE  agent'[r] \in Ai!Erased \/ r \in untracked' \/ Made(r)'
        BY <3>3, <4>3, Apart DEF Made
      <4> QED
        BY <2>2, <3>1, <3>3, <4>1, <4>2, <4>3 DEF RecordOk, Made
    <3> QED
      BY <3>2, <3>3 DEF RecordOk
  <2> QED
    BY <2>1, <2>2
<1>6. import'.status = "deleted" => AllGone'
  <2>1. call[p].at = "removing" => AllGone /\ deleting
    BY DEF AiInv, Stands, Deleting
  <2> QED
    BY <1>2, <2>1 DEF AiInv
<1> QED
  BY <1>4, <1>5, <1>6 DEF AiInv

\* Where a process goes, and that the others stay.
LEMMA GoesIs ==
    ASSUME AiInv, NEW p \in Ai!Processes, NEW at, NEW r, NEW n, Ai!Goes(p, at, r, n)
    PROVE  /\ call' = [q \in Ai!Processes |-> call'[q]]
           /\ \A q \in Ai!Processes : q # p => call'[q] = call[q]
           /\ call'[p].at = at /\ call'[p].run = r /\ call'[p].rec = n
<1>1. PICK w : w = [at |-> at, run |-> r, rec |-> n]
  OBVIOUS
<1>2. call' = [call EXCEPT ![p] = w]
  BY <1>1 DEF Ai!Goes
<1> QED
  BY <1>1, <1>2 DEF AiInv

LEMMA EndsIs ==
    ASSUME AiInv, NEW p \in Ai!Processes, Ai!Ends(p)
    PROVE  /\ call' = [q \in Ai!Processes |-> call'[q]]
           /\ \A q \in Ai!Processes : q # p => call'[q] = call[q]
           /\ call'[p].at = "idle"
           /\ queue' = queue \/ queue = p
<1>1. PICK w : w = Ai!Idle
  OBVIOUS
<1>2. call' = [call EXCEPT ![p] = w]
  BY <1>1 DEF Ai!Ends
<1>3. queue' = queue \/ queue = p
  BY DEF Ai!Ends
<1>4. w.at = "idle"
  BY <1>1 DEF Ai!Idle
<1> QED
  BY <1>2, <1>3, <1>4 DEF AiInv

\* A process that is idle again has nothing in hand.
LEMMA IdleFits ==
    ASSUME NEW p, call'[p].at = "idle"
    PROVE  Carries(p)' /\ Stands(p)'
BY DEF Carries, Stands, Starting, Fresh, Working, Looking, Versioning, Applying, Leaving, Dropping,
     Deleting, Clearing

\* No agent run that is gone comes back.
AgentsKeep ==
    /\ agent' \in [AiRuns -> Agents]
    /\ \A r \in AiRuns : agent[r] \in Ai!Erased => agent'[r] = agent[r]

LEMMA AgentSteps ==
    ASSUME AiInv, NEW r \in AiRuns
    PROVE  /\ agent' = agent => AgentsKeep
           /\ \A a \in Ai!CancelOf(r) : agent' = [agent EXCEPT ![r] = a] => AgentsKeep
           /\ Ai!Purges(r) => AgentsKeep /\ agent'[r] = "purged"
           /\ Ai!PurgeFails(r) => AgentsKeep
           /\ Ai!CleansUp(r) => AgentsKeep /\ agent'[r] = "purged"
           /\ Ai!CleanUpFails(r) => AgentsKeep
<1>1. agent' = agent => AgentsKeep
  BY DEF AiInv, AgentsKeep
<1>2. ASSUME NEW a \in Ai!CancelOf(r), agent' = [agent EXCEPT ![r] = a] PROVE AgentsKeep
  BY <1>2 DEF AiInv, AgentsKeep, Ai!CancelOf, Agents, Ai!Erased
<1>3. ASSUME agent[r] \notin Ai!Erased, agent' = [agent EXCEPT ![r] = "purged"] PROVE AgentsKeep /\ agent'[r] = "purged"
  BY <1>3 DEF AiInv, AgentsKeep, Agents, Ai!Erased
<1>4. agent[r] \in Ai!Terminal => agent[r] \notin Ai!Erased
  BY DEF Ai!Terminal, Ai!Erased
<1> QED
  BY <1>1, <1>2, <1>3, <1>4 DEF Ai!Purges, Ai!PurgeFails, Ai!CleansUp, Ai!CleanUpFails

\* A process that is not starting a run goes to another place, or ends, and only agent
\* runs move with it.
LEMMA WorksTo ==
    ASSUME AiInv, NEW p \in Ai!Processes, call[p].at \notin Starting,
           UNCHANGED <<import, record, deleting, untracked>>, AgentsKeep,
           queue' = queue \/ (queue = Ai!Nobody /\ queue' = p),
           NEW at \in Working, NEW r, NEW n, Ai!Goes(p, at, r, n), Fits(at, r, n),
           at \in {"applied", "versioned"} => r \in import.holds \/ import.status = "deleted",
           at = "versioned" => r = p, at = "cancelled" => agent'[r] = "purged"
    PROVE  AiInv'
<1>1. /\ call' = [q \in Ai!Processes |-> call'[q]]
      /\ \A q \in Ai!Processes : q # p => call'[q] = call[q]
      /\ call'[p].at = at /\ call'[p].run = r /\ call'[p].rec = n
  BY GoesIs, Zenon
<1>2. Carries(p)' /\ Stands(p)'
  BY <1>1 DEF Carries, Stands, Starting, Fresh, Working, Looking, Versioning, Applying, Leaving, Dropping,
     Deleting, Clearing
<1>3. at \notin Starting /\ call[p].at \notin {"creating", "discarding"}
  BY DEF Starting, Fresh, Working, Looking, Versioning, Applying, Leaving, Dropping
<1>4. \A q \in AiRuns : (agent[q] = "purged" => agent'[q] = "purged") /\ (agent[q] = "none" => agent'[q] = "none")
  BY DEF AgentsKeep, Ai!Erased
<1> QED
  BY <1>1, <1>2, <1>3, <1>4, OneMoves DEF AiInv, AgentsKeep

LEMMA WorksEnd ==
    ASSUME AiInv, NEW p \in Ai!Processes, call[p].at \notin Starting,
           UNCHANGED <<import, record, deleting, untracked>>, AgentsKeep, Ai!Ends(p)
    PROVE  AiInv'
<1>1. Carries(p)' /\ Stands(p)'
  BY EndsIs, IdleFits
<1>3. "idle" \notin Starting /\ call[p].at \notin {"creating", "discarding"}
  BY DEF Starting, Fresh
<1>4. \A q \in AiRuns : (agent[q] = "purged" => agent'[q] = "purged") /\ (agent[q] = "none" => agent'[q] = "none")
  BY DEF AgentsKeep, Ai!Erased
<1> QED
  BY <1>1, <1>3, <1>4, EndsIs, OneMoves DEF AiInv, AgentsKeep

\* Only agent runs move.
LEMMA AgentsMove ==
    ASSUME AiInv, UNCHANGED <<import, record, call, queue, deleting, untracked>>, AgentsKeep
    PROVE  AiInv'
<1>1. Ai!Sweep \in Ai!Processes /\ call[Ai!Sweep].at \notin Starting
  BY Apart DEF AiInv, Stands
<1>2. call[Ai!Sweep].at \notin {"creating", "discarding", "enqueueing"}
  BY <1>1 DEF Starting, Fresh
<1>3. \A q \in AiRuns : (agent[q] = "purged" => agent'[q] = "purged") /\ (agent[q] = "none" => agent'[q] = "none")
  BY DEF AgentsKeep, Ai!Erased
<1> QED
  BY <1>1, <1>2, <1>3, OneMoves DEF AiInv, AgentsKeep

\* What a process has in hand at a place.
LEMMA InHand ==
    ASSUME AiInv, NEW p \in Ai!Processes
    PROVE  /\ call[p].at \in Starting \cup Working => Fits(call[p].at, call[p].run, call[p].rec)
           /\ Stands(p)
BY DEF AiInv, Carries

\* A stored record that is not absent.
LEMMA Stored ==
    ASSUME AiInv, NEW r \in AiRuns, record[r].status \in Statuses \/ record[r] # Ai!Absent
    PROVE  record[r] \in Rec /\ Ai!Sealed(record[r]) /\ record[r] # Ai!Absent
BY Apart DEF AiInv, RecordOk

-----------------------------------------------------------------------------
(* The rules of a record *)

LEMMA NextNatural == \A c \in Nat : c + 1 \in Nat
OBVIOUS

LEMMA Sealing ==
    ASSUME NEW n, n.status = "applying", n.cleanup \in Nat, Ai!Sealed(n)
    PROVE  n.cleanup = 0 /\ n.has = {"proposal"}
BY DEF Ai!Sealed

LEMMA SealingFailed ==
    ASSUME NEW n, n.status = "failed", n.cleanup = 0, n.intent = 0, "failure" \in n.has
    PROVE  Ai!Sealed(n)
BY DEF Ai!Sealed, Ai!Cancellable, Ai!Active

LEMMA SealingApplied ==
    ASSUME NEW n \in Rec, n.status = "applied", n.has = {"proposal", "result"}, n.cleanup = 0, n.intent = 0
    PROVE  Ai!Sealed(n)
<1>1. n.status \notin Ai!Cancellable \cup {"cancelled", "suggestions_ready", "applying", "failed"}
  BY DEF Ai!Cancellable, Ai!Active
<1>2. "failure" \notin n.has /\ ~(n.cleanup > 0) /\ ~(n.intent > 0)
  OBVIOUS
<1> QED
  BY <1>1, <1>2 DEF Ai!Sealed

LEMMA SealingApply ==
    ASSUME NEW n, NEW old, Ai!Sealed(old), old.status = "suggestions_ready", old.cleanup \in Nat,
           n.status = "applying", n.cleanup = old.cleanup, n.has = old.has,
           n.intent \in Nat \ {0}
    PROVE  Ai!Sealed(n)
BY DEF Ai!Sealed, Ai!Cancellable, Ai!Active

LEMMA NewIs ==
    ASSUME AiInv, NEW mode \in Ai!Modes
    PROVE  /\ Ai!NewRecord(mode) \in Rec /\ Ai!Sealed(Ai!NewRecord(mode))
           /\ Ai!NewRecord(mode).status = "queued"
<1>1. import.revision \in Nat
  BY DEF AiInv, Import
<1>2. PICK n : n = Ai!NewRecord(mode)
  OBVIOUS
<1>3. /\ n.status = "queued" /\ n.mode = mode /\ n.binding = import.revision /\ n.intent = 0 /\ n.has = {}
      /\ n.cleanup = 0
  BY <1>2 DEF Ai!NewRecord
<1>4. n \in Rec
  BY <1>1, <1>2 DEF Ai!NewRecord, Rec, Statuses
<1> QED
  BY <1>2, <1>3, <1>4 DEF Ai!Sealed, Ai!Cancellable, Ai!Active

USE DEF Starting, Fresh, Working, Looking, Versioning, Applying, Leaving, Dropping

-----------------------------------------------------------------------------
(* refresh() *)

LEMMA RefreshLooks ==
    ASSUME AiInv, NEW r \in AiRuns,
           Ai!RefreshReads(r) \/ Ai!Looks(r) \/ Ai!Quarantines(r) \/ Ai!Validates(r) \/ Ai!Invalid(r) \/ Ai!Erases(r)
    PROVE  AiInv'
<1>0. r \in Ai!Processes
  BY Apart
<1>1. CASE Ai!RefreshReads(r)
  <2>1. /\ call[r].at = "idle" /\ Ai!NeedsRecovery(record[r])
        /\ UNCHANGED <<import, record, agent, queue, deleting, untracked>>
    BY <1>1 DEF Ai!RefreshReads, Ai!At
  <2>2. record[r].status \in Statuses
    BY <2>1 DEF Ai!NeedsRecovery, Ai!Active, Ai!ReplaceReady, Statuses
  <2>3. record[r] \in Rec /\ Ai!Sealed(record[r])
    BY <2>2, Stored
  <2>4. PICK at : /\ Ai!Goes(r, at, r, record[r])
                  /\ \/ at = "awaiting apply" /\ record[r].status = "applying"
                     \/ at = "awaiting version" /\ record[r].status = "suggestions_ready"
                     \/ at = "looking" /\ record[r].status \in Ai!Cancellable
    BY <1>1, <2>1 DEF Ai!RefreshReads, Ai!NeedsRecovery, Ai!ReplaceReady, Ai!Cancellable
  <2>5. Fits(at, r, record[r])
    BY <2>3, <2>4 DEF Fits
  <2>6. AgentsKeep
    BY <2>1, AgentSteps
  <2> QED
    BY <1>0, <2>1, <2>4, <2>5, <2>6, WorksTo
<1>2. ASSUME call[r].at \in Looking, UNCHANGED <<import, record, deleting, untracked>>, AgentsKeep,
             \/ Ai!Ends(r)
             \/ /\ queue' = queue
                /\ \E at \in Looking \cup {"failed", "cancelled", "running"} :
                     /\ Ai!Goes(r, at, r, call[r].rec)
                     /\ at = "cancelled" => agent'[r] = "purged"
                     /\ at = "running" => call[r].rec.status = "queued"
      PROVE  AiInv'
  <2>1. CASE Ai!Ends(r)
    BY <1>0, <1>2, <2>1, WorksEnd
  <2>2. ASSUME NEW at \in Looking \cup {"failed", "cancelled", "running"}, queue' = queue,
               Ai!Goes(r, at, r, call[r].rec), at = "cancelled" => agent'[r] = "purged",
               at = "running" => call[r].rec.status = "queued"
        PROVE  AiInv'
    <3>1. Fits(call[r].at, call[r].run, call[r].rec)
      BY <1>0, <1>2, InHand
    <3>2. Fits(at, r, call[r].rec)
      BY <1>2, <2>2, <3>1 DEF Fits, Ai!Cancellable, Ai!Active
    <3> QED
      BY <1>0, <1>2, <2>2, <3>2, WorksTo
  <2> QED
    BY <1>2, <2>1, <2>2
<1>3. CASE Ai!Looks(r)
  <2>1. call[r].at \in Looking /\ UNCHANGED <<import, record, deleting, untracked>>
    BY <1>3 DEF Ai!Looks, Ai!At
  <2>2. \/ \E at \in {"failed", "quarantining", "completing"} : Ai!Proceeds(r, at)
        \/ call[r].rec.status = "queued" /\ Ai!Proceeds(r, "running")
        \/ Ai!PurgeThen(r, "cancelled") \/ Ai!PurgeThen(r, "failed")
        \/ Ai!Ends(r) /\ agent' = agent
    BY <1>3 DEF Ai!Looks
  <2> QED
    BY <1>2, <2>1, <2>2, AgentSteps DEF Ai!Proceeds, Ai!PurgeThen
<1>4. CASE Ai!Quarantines(r)
  <2>1. call[r].at \in Looking /\ UNCHANGED <<import, record, deleting, untracked>>
    BY <1>4 DEF Ai!Quarantines, Ai!At
  <2>2. CASE Ai!PurgeIfThereThen(r, "failed")
    BY <1>2, <2>1, <2>2, AgentSteps DEF Ai!PurgeThen, Ai!PurgeIfThereThen
  <2>3. CASE \E a \in Ai!CancelOf(r) : agent' = [agent EXCEPT ![r] = a]
    <3>1. AgentsKeep
      BY <2>3, AgentSteps
    <3>2. (call' = call /\ queue' = queue) \/ Ai!Ends(r) \/ Ai!PurgeIfThereThen(r, "failed")
      BY <1>4 DEF Ai!Quarantines
    <3> QED
      BY <1>2, <2>1, <2>2, <3>1, <3>2, AgentsMove
  <2> QED
    BY <1>4, <2>2, <2>3 DEF Ai!Quarantines
<1>5. CASE Ai!Validates(r)
  BY <1>2, <1>5, AgentSteps DEF Ai!Validates, Ai!At, Ai!Proceeds
<1>6. CASE Ai!Invalid(r)
  BY <1>2, <1>6, AgentSteps DEF Ai!Invalid, Ai!At, Ai!PurgeThen
<1>7. CASE Ai!Erases(r)
  BY <1>2, <1>7, AgentSteps DEF Ai!Erases, Ai!At
<1> QED
  BY <1>1, <1>3, <1>4, <1>5, <1>6, <1>7

-----------------------------------------------------------------------------
(* On the import's queue *)

LEMMA ImportGrows ==
    ASSUME AiInv, NEW r \in AiRuns, NEW i, i = [import EXCEPT !.revision = @ + 1, !.holds = @ \cup {r}]
    PROVE  i \in Import /\ import.holds \subseteq i.holds /\ r \in i.holds /\ i.status = import.status
<1>1. import.revision + 1 \in Nat \ {0} /\ import.holds \cup {r} \in SUBSET AiRuns
  BY DEF AiInv, Import
<1> QED
  BY <1>1 DEF AiInv, Import

\* The import takes in a run; nobody else moves but the process that has it done.
LEMMA ImportTakes ==
    ASSUME AiInv, NEW p \in Ai!Processes, call[p].at \in Working, NEW revision, NEW at, at = "applied",
           Ai!Takes(call[p].run, revision), Ai!Goes(p, at, call[p].run, call[p].rec),
           Fits(at, call[p].run, call[p].rec),
           UNCHANGED <<record, agent, queue, deleting, untracked>>
    PROVE  AiInv'
<1>1. PICK r \in AiRuns : r = call[p].run
  BY DEF Fits
<1>2. PICK i : i = [import EXCEPT !.revision = @ + 1, !.holds = @ \cup {r}]
  OBVIOUS
<1>3. import' = i /\ import.status = "open"
  BY <1>1, <1>2 DEF Ai!Takes
<1>4. i \in Import /\ import.holds \subseteq i.holds /\ r \in i.holds /\ i.status = "open"
  BY <1>1, <1>2, <1>3, ImportGrows
<1>5. /\ call' = [q \in Ai!Processes |-> call'[q]]
      /\ \A q \in Ai!Processes : q # p => call'[q] = call[q]
      /\ call'[p].at = at /\ call'[p].run = r /\ call'[p].rec = call[p].rec
  BY <1>1, GoesIs, Zenon
<1>6. Carries(p)' /\ Stands(p)'
  BY <1>1, <1>3, <1>4, <1>5 DEF Carries, Stands, Deleting, Clearing
<1>7. at \notin Starting /\ call[p].at \notin Starting
  OBVIOUS
<1> QED
  BY <1>3, <1>4, <1>5, <1>6, <1>7, OneMoves DEF AiInv

LEMMA QueueSteps ==
    ASSUME AiInv, NEW p \in Ai!Processes,
           \/ p \in AiRuns /\ (Ai!EntersQueue(p) \/ Ai!Materializes(p) \/ Ai!AddsVersion(p) \/ Ai!EndsVersion(p))
           \/ Ai!Applies(p) \/ Ai!Stages(p)
    PROVE  AiInv'
<1>1. ASSUME call[p].at \in Versioning \cup Applying,
             UNCHANGED <<import, record, deleting, untracked>>, AgentsKeep,
             queue' = queue \/ (queue = Ai!Nobody /\ queue' = p),
             NEW at \in Versioning \cup Applying \cup {"failed", "applied"}, NEW r \in AiRuns,
             Ai!Goes(p, at, r, call[p].rec),
             at \in Versioning \cup {"failed"} => call[p].at \in Versioning,
             at \in Applying => call[p].at \in Applying,
             at \in {"applied", "versioned"} => r \in import.holds \/ import.status = "deleted",
             at = "versioned" => r = p
      PROVE  AiInv'
  <2>1. Fits(call[p].at, call[p].run, call[p].rec)
    BY <1>1, InHand
  <2>2. Fits(at, r, call[p].rec)
    BY <1>1, <2>1 DEF Fits
  <2> QED
    BY <1>1, <2>2, WorksTo
<1>2. CASE p \in AiRuns /\ Ai!EntersQueue(p)
  <2>1. /\ UNCHANGED <<import, record, agent, deleting, untracked>> /\ queue = Ai!Nobody /\ queue' = p
        /\ \/ call[p].at = "awaiting apply" /\ Ai!Goes(p, "apply", p, call[p].rec)
           \/ call[p].at = "awaiting version" /\ Ai!Goes(p, "version", p, call[p].rec)
    BY <1>2 DEF Ai!EntersQueue, Ai!At, Ai!Enters
  <2> QED
    BY <1>1, <1>2, <2>1, AgentSteps
<1>3. CASE p \in AiRuns /\ Ai!Materializes(p)
  <2>1. /\ UNCHANGED <<import, record, agent, queue, deleting, untracked>> /\ call[p].at = "version"
        /\ \E at \in {"materialized", "unversioned"} : Ai!Goes(p, at, p, call[p].rec)
    BY <1>3 DEF Ai!Materializes, Ai!At
  <2> QED
    BY <1>1, <1>3, <2>1, AgentSteps
<1>4. CASE p \in AiRuns /\ Ai!AddsVersion(p)
  <2>1. call[p].at = "materialized" /\ UNCHANGED <<record, agent, queue, deleting, untracked>>
    BY <1>4 DEF Ai!AddsVersion, Ai!At
  <2>2. CASE /\ import' = import
             /\ \/ p \in import.holds /\ Ai!Goes(p, "versioned", p, call[p].rec)
                \/ Ai!Goes(p, "unversioned", p, call[p].rec)
    BY <1>1, <1>4, <2>1, <2>2, AgentSteps
  <2>3. ASSUME NEW v, Ai!Takes(p, v), Ai!Goes(p, "versioned", p, call[p].rec) PROVE AiInv'
    <3>1. PICK i : i = [import EXCEPT !.revision = @ + 1, !.holds = @ \cup {p}]
      OBVIOUS
    <3>2. import' = i /\ import.status = "open"
      BY <2>3, <3>1 DEF Ai!Takes
    <3>3. i \in Import /\ import.holds \subseteq i.holds /\ p \in i.holds /\ i.status = "open"
      BY <1>4, <3>1, <3>2, ImportGrows
    <3>4. /\ call' = [q \in Ai!Processes |-> call'[q]]
          /\ \A q \in Ai!Processes : q # p => call'[q] = call[q]
          /\ call'[p].at = "versioned" /\ call'[p].run = p /\ call'[p].rec = call[p].rec
      BY <2>3, GoesIs, Zenon
    <3>5. Fits("versioned", p, call[p].rec)
      BY <1>4, <2>1, InHand DEF Fits
    <3>6. Carries(p)' /\ Stands(p)'
      BY <3>2, <3>3, <3>4, <3>5 DEF Carries, Stands, Deleting, Clearing
    <3> QED
      BY <2>1, <3>2, <3>3, <3>4, <3>6, OneMoves DEF AiInv
  <2> QED
    BY <1>4, <2>2, <2>3 DEF Ai!AddsVersion
<1>5. CASE p \in AiRuns /\ Ai!EndsVersion(p)
  <2>1. /\ call[p].at \in {"versioned", "unversioned"}
        /\ UNCHANGED <<import, record, deleting, untracked>>
    BY <1>5 DEF Ai!EndsVersion, Ai!At
  <2>2. call[p].at = "versioned" => call[p].run = p /\ (p \in import.holds \/ import.status = "deleted")
    BY InHand DEF Stands
  <2>3. CASE Ai!Ends(p) /\ AgentsKeep
    BY <2>1, <2>3, WorksEnd
  <2>4. ASSUME AgentsKeep, queue' = queue, NEW at \in {"applied", "failed"},
               at = "applied" => call[p].at = "versioned", Ai!Goes(p, at, p, call[p].rec)
        PROVE  AiInv'
    BY <1>1, <1>5, <2>1, <2>2, <2>4
  <2>5. PICK at \in {"applied", "failed"} : /\ Ai!PurgeIfThereThen(p, at)
                                            /\ at = "applied" => call[p].at = "versioned"
    BY <1>5 DEF Ai!EndsVersion, Ai!At
  <2> QED
    BY <1>5, <2>3, <2>4, <2>5, AgentSteps DEF Ai!PurgeIfThereThen, Ai!PurgeThen
<1>6. CASE Ai!Applies(p)
  <2>1. /\ call[p].at = "apply" /\ UNCHANGED <<import, record, agent, queue, deleting, untracked>>
    BY <1>6 DEF Ai!Applies, Ai!At
  <2>2. call[p].run \in AiRuns
    BY <2>1, InHand DEF Fits
  <2>3. PICK at : /\ Ai!Goes(p, at, call[p].run, call[p].rec)
                  /\ \/ at = "applied" /\ call[p].run \in import.holds
                     \/ at \in {"merging", "not applied"}
    BY <1>6 DEF Ai!Applies
  <2> QED
    BY <1>1, <2>1, <2>2, <2>3, AgentSteps
<1>7. CASE Ai!Stages(p)
  <2>1. /\ call[p].at = "merging" /\ UNCHANGED <<record, agent, queue, deleting, untracked>>
    BY <1>7 DEF Ai!Stages, Ai!At
  <2>2. Fits("merging", call[p].run, call[p].rec)
    BY <2>1, InHand
  <2>3. CASE import' = import /\ Ai!Goes(p, "not applied", call[p].run, call[p].rec)
    <3>1. PICK r \in AiRuns : r = call[p].run
      BY <2>2 DEF Fits
    <3>2. AgentsKeep
      BY <2>1, <3>1, AgentSteps
    <3>3. PICK at : at = "not applied"
      OBVIOUS
    <3>4. /\ Ai!Goes(p, at, r, call[p].rec) /\ Fits(at, r, call[p].rec)
          /\ at \in Working /\ at \notin {"applied", "versioned", "cancelled"}
      BY <2>2, <2>3, <3>1, <3>3 DEF Fits
    <3>5. UNCHANGED <<import, record, queue, deleting, untracked>> /\ call[p].at \notin Starting
      BY <2>1, <2>3
    <3> QED
      BY <3>2, <3>4, <3>5, WorksTo
  <2>4. CASE Ai!Takes(call[p].run, call[p].rec.intent) /\ Ai!Goes(p, "applied", call[p].run, call[p].rec)
    <3>1. Fits("applied", call[p].run, call[p].rec)
      BY <2>2 DEF Fits
    <3> QED
      BY <2>1, <2>4, <3>1, ImportTakes
  <2> QED
    BY <1>7, <2>3, <2>4 DEF Ai!Stages
<1> QED
  BY <1>2, <1>3, <1>4, <1>5, <1>6, <1>7

-----------------------------------------------------------------------------
(* The saves *)

\* What is saved is a record that can be read.
LEMMA SuccessorIs ==
    ASSUME NEW n \in Rec, NEW at \in Leaving \cup {"not applied"}, NEW r, Fits(at, r, n)
    PROVE  /\ Ai!Successor(at, n) \in Rec /\ Ai!Sealed(Ai!Successor(at, n))
           /\ n.status \notin {"applied", "failed", "cancelled"}
           /\ Ai!Successor(at, n).status = "applied" <=> at = "applied"
           /\ Ai!Successor(at, n).status = "cancelled" <=> at = "cancelled"
<1>0. n.cleanup \in Nat /\ n.intent \in Nat /\ n.binding \in Nat /\ n.status \in Statuses
      /\ n.has \in SUBSET {"proposal", "result", "failure"}
  BY DEF Rec
<1>1. CASE at = "failed"
  <2>1. PICK s : s = [n EXCEPT !.status = "failed", !.has = @ \cup {"failure"}, !.cleanup = 0]
    OBVIOUS
  <2>2. Ai!Successor(at, n) = s
    BY <1>1, <2>1 DEF Ai!Successor, Ai!Becomes
  <2>3. /\ s.status = "failed" /\ s.has = n.has \cup {"failure"} /\ s.cleanup = 0 /\ s.intent = n.intent
        /\ s \in Rec
    BY <1>0, <2>1 DEF Rec, Statuses
  <2>4. Ai!Sealed(s) /\ n.status \notin {"applied", "failed", "cancelled"}
    BY <1>0, <1>1, <2>3, RecordsAssumption DEF Fits, Ai!Sealed, Ai!Cancellable, Ai!Active
  <2> QED
    BY <1>1, <2>2, <2>3, <2>4
<1>2. CASE at = "cancelled"
  <2>1. PICK s : s = [n EXCEPT !.status = "cancelled", !.cleanup = 0]
    OBVIOUS
  <2>2. Ai!Successor(at, n) = s
    BY <1>2, <2>1 DEF Ai!Successor, Ai!Becomes
  <2>3. /\ s.status = "cancelled" /\ s.has = n.has /\ s.cleanup = 0 /\ s.intent = n.intent
        /\ s \in Rec
    BY <1>0, <2>1 DEF Rec, Statuses
  <2>4. Ai!Sealed(s) /\ n.status \notin {"applied", "failed", "cancelled"}
    BY <1>0, <1>2, <2>3, RecordsAssumption DEF Fits, Ai!Sealed, Ai!Cancellable, Ai!Active
  <2> QED
    BY <1>2, <2>2, <2>3, <2>4
<1>3. CASE at = "running"
  <2>1. PICK s : s = [n EXCEPT !.status = "running"]
    OBVIOUS
  <2>2. Ai!Successor(at, n) = s
    BY <1>3, <2>1 DEF Ai!Successor, Ai!Becomes
  <2>3. /\ s.status = "running" /\ s.has = n.has /\ s.cleanup = n.cleanup /\ s.intent = n.intent
        /\ s \in Rec
    BY <1>0, <2>1 DEF Rec, Statuses
  <2>4. Ai!Sealed(s) /\ n.status \notin {"applied", "failed", "cancelled"}
    BY <1>0, <1>3, <2>3, RecordsAssumption DEF Fits, Ai!Sealed, Ai!Cancellable, Ai!Active
  <2> QED
    BY <1>3, <2>2, <2>3, <2>4
<1>4. CASE at = "applied"
  <2>1. PICK s : s = [n EXCEPT !.status = "applied", !.has = @ \cup {"result"}, !.intent = 0]
    OBVIOUS
  <2>2. Ai!Successor(at, n) = s
    BY <1>4, <2>1 DEF Ai!Successor, Ai!Becomes
  <2>3. /\ s.status = "applied" /\ s.has = n.has \cup {"result"} /\ s.cleanup = n.cleanup /\ s.intent = 0
        /\ s \in Rec
    BY <1>0, <2>1 DEF Rec, Statuses
  <2>4. Ai!Sealed(s) /\ n.status \notin {"applied", "failed", "cancelled"}
    BY <1>0, <1>4, <2>3, RecordsAssumption DEF Fits, Ai!Sealed, Ai!Cancellable, Ai!Active
  <2> QED
    BY <1>4, <2>2, <2>3, <2>4
<1>5. CASE at = "cancel_requested"
  <2>1. PICK s : s = [n EXCEPT !.status = "cancel_requested"]
    OBVIOUS
  <2>2. Ai!Successor(at, n) = s
    BY <1>5, <2>1 DEF Ai!Successor, Ai!Becomes
  <2>3. /\ s.status = "cancel_requested" /\ s.has = n.has /\ s.cleanup = n.cleanup /\ s.intent = n.intent
        /\ s \in Rec
    BY <1>0, <2>1 DEF Rec, Statuses
  <2>4. Ai!Sealed(s) /\ n.status \notin {"applied", "failed", "cancelled"}
    BY <1>0, <1>5, <2>3, RecordsAssumption DEF Fits, Ai!Sealed, Ai!Cancellable, Ai!Active
  <2> QED
    BY <1>5, <2>2, <2>3, <2>4
<1>6. CASE at = "retained"
  <2>1. PICK s : s = [n EXCEPT !.status = "cancel_requested", !.cleanup = @ + 1]
    OBVIOUS
  <2>2. Ai!Successor(at, n) = s
    BY <1>6, <2>1 DEF Ai!Successor, Ai!Becomes
  <2>3. /\ s.status = "cancel_requested" /\ s.has = n.has /\ s.cleanup = n.cleanup + 1 /\ s.intent = n.intent
        /\ s \in Rec
    <3>0. PICK c \in Nat : c = n.cleanup
      BY <1>0
    <3>1. PICK k : k = c + 1
      OBVIOUS
    <3>4. k \in Nat
      BY <3>1, NextNatural
    <3>2. s = [n EXCEPT !.status = "cancel_requested", !.cleanup = k] /\ k = n.cleanup + 1
      BY <2>1, <3>0, <3>1
    <3> QED
      BY <1>0, <3>0, <3>1, <3>2, <3>4 DEF Rec, Statuses
  <2>4. Ai!Sealed(s) /\ n.status \notin {"applied", "failed", "cancelled"}
    BY <1>0, <1>6, <2>3, RecordsAssumption DEF Fits, Ai!Sealed, Ai!Cancellable, Ai!Active
  <2> QED
    BY <1>6, <2>2, <2>3, <2>4
<1>7. CASE at = "not applied"
  <2>1. PICK s : s = [n EXCEPT !.status = "failed", !.has = @ \cup {"failure"}, !.intent = 0]
    OBVIOUS
  <2>2. Ai!Successor(at, n) = s
    BY <1>7, <2>1 DEF Ai!Successor, Ai!Becomes
  <2>3. /\ s.status = "failed" /\ s.has = n.has \cup {"failure"} /\ s.cleanup = n.cleanup /\ s.intent = 0
        /\ s \in Rec
    BY <1>0, <2>1 DEF Rec, Statuses
  <2>4. Ai!Sealed(s) /\ n.status \notin {"applied", "failed", "cancelled"}
    <3>1. n.status = "applying" /\ Ai!Sealed(n)
      BY <1>7 DEF Fits
    <3>2. n.cleanup = 0
      BY <1>0, <3>1, Sealing
    <3> QED
      BY <2>3, <3>1, <3>2, SealingFailed
  <2> QED
    BY <1>7, <2>2, <2>3, <2>4
<1> QED
  BY <1>1, <1>2, <1>3, <1>4, <1>5, <1>6, <1>7

\* A process changes a stored record and moves on.
LEMMA RecordSaved ==
    ASSUME AiInv, NEW p \in Ai!Processes, call[p].at \notin Starting,
           UNCHANGED <<import, agent, deleting, untracked>>,
           queue' = queue \/ (queue = Ai!Nobody /\ queue' = p) \/ queue = p,
           call' = [q \in Ai!Processes |-> call'[q]],
           \A q \in Ai!Processes : q # p => call'[q] = call[q],
           Carries(p)', Stands(p)', call'[p].at \notin Starting,
           NEW r \in AiRuns, NEW new \in Rec, Ai!Sealed(new), record[r] # Ai!Absent,
           record' = [record EXCEPT ![r] = new],
           new.status = "applied" => r \in import.holds \/ import.status = "deleted",
           new.status = "cancelled" => agent[r] = "purged"
    PROVE  AiInv'
<1>1. record' \in [AiRuns -> Rec \cup {Ai!Absent}]
  BY DEF AiInv
<1>2. \A q \in AiRuns : IF q = r THEN record'[q] = new ELSE record'[q] = record[q]
  BY DEF AiInv
<1>3. Says(r)'
  BY <1>2, Apart DEF Says
<1>4. \A q \in AiRuns : record'[q] # record[q] => Says(q)'
  BY <1>2, <1>3
<1>5. \A q \in AiRuns : record[q] = Ai!Absent => record'[q] = Ai!Absent
  BY <1>2
<1>6. call[p].at \notin {"creating", "discarding"}
  OBVIOUS
<1> QED
  BY <1>1, <1>4, <1>5, <1>6, OneMoves DEF AiInv

LEMMA LastSave ==
    ASSUME AiInv, NEW p \in Ai!Processes, Ai!SavesAndEnds(p)
    PROVE  AiInv'
<1>1. call[p].at \in Leaving \cup {"not applied"} /\ call[p].at \notin Starting
  BY DEF Ai!SavesAndEnds, Ai!LastSaves
<1>2. PICK at \in Leaving \cup {"not applied"}, r \in AiRuns, n \in Rec :
         at = call[p].at /\ r = call[p].run /\ n = call[p].rec /\ Fits(at, r, n)
  <2>1. Fits(call[p].at, call[p].run, call[p].rec)
    BY <1>1, InHand
  <2> QED
    BY <1>1, <2>1 DEF Fits
<1>3. PICK new : new = Ai!Successor(at, n)
  OBVIOUS
<1>4. /\ new \in Rec /\ Ai!Sealed(new)
      /\ new.status = "applied" <=> at = "applied"
      /\ new.status = "cancelled" <=> at = "cancelled"
  BY <1>2, <1>3, SuccessorIs
<1>5. /\ Ai!Ends(p) /\ UNCHANGED <<import, agent, deleting, untracked>>
      /\ record' = IF Ai!Saves(r, n, new) THEN [record EXCEPT ![r] = new] ELSE record
  BY <1>2, <1>3 DEF Ai!SavesAndEnds
<1>6. CASE record' = record
  BY <1>1, <1>2, <1>5, <1>6, AgentSteps, WorksEnd
<1>7. CASE Ai!Saves(r, n, new) /\ record' = [record EXCEPT ![r] = new]
  <2>1. record[r] # Ai!Absent
    BY <1>2, <1>7, Apart DEF Ai!Saves
  <2>2. /\ at = "applied" => r \in import.holds \/ import.status = "deleted"
        /\ at = "cancelled" => agent[r] = "purged"
    BY <1>2, InHand DEF Stands
  <2>3. /\ call' = [q \in Ai!Processes |-> call'[q]]
        /\ \A q \in Ai!Processes : q # p => call'[q] = call[q]
        /\ call'[p].at = "idle" /\ (queue' = queue \/ queue = p)
    BY <1>5, EndsIs
  <2>4. Carries(p)' /\ Stands(p)'
    BY <2>3, IdleFits
  <2> QED
    BY <1>1, <1>4, <1>5, <1>7, <2>1, <2>2, <2>3, <2>4, RecordSaved
<1> QED
  BY <1>5, <1>6, <1>7

LEMMA RefreshSaves ==
    ASSUME AiInv, NEW r \in AiRuns, Ai!Completes(r) \/ Ai!SavesProposal(r)
    PROVE  AiInv'
<1>0. r \in Ai!Processes
  BY Apart
<1>1. CASE Ai!Completes(r)
  <2>1. call[r].at = "completing" /\ UNCHANGED <<import, agent, deleting, untracked>>
    BY <1>1 DEF Ai!Completes, Ai!At
  <2>2. PICK n \in Rec, q \in AiRuns : n = call[r].rec /\ q = call[r].run /\ Fits("completing", q, n)
    BY <1>0, <2>1, InHand DEF Fits
  <2>3. PICK new : new = [n EXCEPT !.status = "validating"]
    OBVIOUS
  <2>4. new \in Rec /\ new.status = "validating"
    BY <2>3 DEF Rec, Statuses
  <2>5. CASE Ai!Ends(r) /\ record' = record
    BY <1>0, <2>1, <2>5, AgentSteps, WorksEnd
  <2>6. ASSUME n = new \/ Ai!Saves(r, n, new), Ai!Goes(r, "validating", r, new), queue' = queue,
               record' = [record EXCEPT ![r] = IF n = new THEN @ ELSE new]
        PROVE  AiInv'
    <3>1. Ai!Sealed(new)
      BY <2>2, <2>6 DEF Ai!Saves, Fits
    <3>2. PICK at : at = "validating"
      OBVIOUS
    <3>3. Fits(at, r, new) /\ Ai!Goes(r, at, r, new)
      BY <2>4, <2>6, <3>1, <3>2 DEF Fits, Ai!Cancellable, Ai!Active
    <3>4. CASE n = new
      <4>1. record' = record
        BY <2>6, <3>4 DEF AiInv
      <4>2. AgentsKeep /\ at \in Working /\ at \notin {"applied", "versioned", "cancelled"}
        BY <2>1, <3>2, AgentSteps
      <4> QED
        BY <1>0, <2>1, <2>6, <3>3, <4>1, <4>2, WorksTo
    <3>5. CASE n # new
      <4>1. record[r] # Ai!Absent /\ record' = [record EXCEPT ![r] = new]
        BY <2>2, <2>6, <3>5, Apart DEF Ai!Saves
      <4>2. /\ call' = [q2 \in Ai!Processes |-> call'[q2]]
            /\ \A q2 \in Ai!Processes : q2 # r => call'[q2] = call[q2]
            /\ call'[r].at = at /\ call'[r].run = r /\ call'[r].rec = new
        BY <1>0, <3>3, GoesIs, Zenon
      <4>3. Carries(r)' /\ Stands(r)'
        BY <3>2, <3>3, <4>2 DEF Carries, Stands, Deleting, Clearing
      <4> QED
        BY <1>0, <2>1, <2>4, <2>6, <3>1, <3>2, <4>1, <4>2, <4>3, RecordSaved
    <3> QED
      BY <3>4, <3>5
  <2> QED
    BY <1>1, <2>2, <2>3, <2>5, <2>6 DEF Ai!Completes, Ai!Becomes
<1>2. CASE Ai!SavesProposal(r)
  <2>1. call[r].at = "valid" /\ UNCHANGED <<import, agent, queue, deleting, untracked>>
    BY <1>2 DEF Ai!SavesProposal, Ai!At
  <2>2. PICK n \in Rec, q \in AiRuns : n = call[r].rec /\ q = call[r].run /\ Fits("valid", q, n)
    BY <1>0, <2>1, InHand DEF Fits
  <2>3. PICK new : new = [n EXCEPT !.status = "suggestions_ready", !.has = @ \cup {"proposal"}]
    OBVIOUS
  <2>4. new \in Rec /\ new.status = "suggestions_ready"
    BY <2>3 DEF Rec, Statuses
  <2>5. Ai!Successor("suggestions_ready", n) = new
    BY <2>3 DEF Ai!Successor
  <2>6. CASE record' = record /\ Ai!Goes(r, "invalid", r, n)
    <3>1. PICK at : at = "invalid"
      OBVIOUS
    <3>2. Fits(at, r, n) /\ Ai!Goes(r, at, r, n) /\ at \in Working /\ at \notin {"applied", "versioned", "cancelled"}
      BY <2>2, <2>6, <3>1 DEF Fits
    <3>3. AgentsKeep
      BY <2>1, AgentSteps
    <3> QED
      BY <1>0, <2>1, <2>6, <3>2, <3>3, WorksTo
  <2>7. ASSUME Ai!Saves(r, n, new), record' = [record EXCEPT ![r] = new],
               NEW at, NEW m, Ai!Goes(r, at, r, m),
               (at = "awaiting version" /\ m = new) \/ (at = "erasing" /\ m = n)
        PROVE  AiInv'
    <3>1. Ai!Sealed(new) /\ record[r] # Ai!Absent
      BY <2>2, <2>7, Apart DEF Ai!Saves
    <3>2. Fits(at, r, m)
      BY <2>2, <2>4, <2>7, <3>1 DEF Fits
    <3>3. /\ call' = [q2 \in Ai!Processes |-> call'[q2]]
          /\ \A q2 \in Ai!Processes : q2 # r => call'[q2] = call[q2]
          /\ call'[r].at = at /\ call'[r].run = r /\ call'[r].rec = m
      BY <1>0, <2>7, GoesIs, Zenon
    <3>4. Carries(r)' /\ Stands(r)' /\ at \notin Starting
      BY <2>7, <3>2, <3>3 DEF Carries, Stands, Deleting, Clearing
    <3> QED
      BY <1>0, <2>1, <2>4, <2>7, <3>1, <3>3, <3>4, RecordSaved
  <2>8. \/ record' = record /\ Ai!Goes(r, "invalid", r, n)
        \/ /\ Ai!Saves(r, n, new) /\ record' = [record EXCEPT ![r] = new]
           /\ Ai!Goes(r, IF Ai!ReplaceReady(new) THEN "awaiting version" ELSE "erasing", r,
                        IF Ai!ReplaceReady(new) THEN new ELSE n)
    BY <1>2, <2>2, <2>5 DEF Ai!SavesProposal
  <2> QED
    BY <2>6, <2>7, <2>8
<1> QED
  BY <1>1, <1>2

-----------------------------------------------------------------------------
(* start() *)

LEMMA StartSteps ==
    ASSUME AiInv, NEW c \in Users, Ai!Start(c)
    PROVE  AiInv'
<1>0. c \in Ai!Processes
  BY Apart
<1>1. PICK r \in AiRuns, mode \in Ai!Modes : Ai!Begins(c, r, mode)
  BY DEF Ai!Start
<1>2. /\ queue = Ai!Nobody /\ queue' = c /\ record[r] = Ai!Absent /\ agent[r] = "none"
      /\ ~deleting /\ import.status = "open" /\ UNCHANGED <<import, record, agent, deleting, untracked>>
      /\ call[c].at = "idle"
  BY <1>1 DEF Ai!Begins, Ai!Enters, Ai!At
<1>3. PICK n \in Rec : n = Ai!NewRecord(mode) /\ Ai!Sealed(n) /\ n.status = "queued"
  BY NewIs
<1>4. PICK at : at = "enqueueing"
  OBVIOUS
<1>5. /\ call' = [q \in Ai!Processes |-> call'[q]]
      /\ \A q \in Ai!Processes : q # c => call'[q] = call[q]
      /\ call'[c].at = at /\ call'[c].run = r /\ call'[c].rec = n
  <2>1. Ai!Goes(c, at, r, n)
    BY <1>1, <1>3, <1>4 DEF Ai!Begins
  <2> QED
    BY <1>0, <2>1, GoesIs, Zenon
<1>6. Carries(c)'
  BY <1>3, <1>4, <1>5 DEF Carries, Fits
<1>7. Stands(c)'
  BY <1>2, <1>4, <1>5 DEF Stands, Deleting, Clearing
<1> QED
  BY <1>0, <1>2, <1>4, <1>5, <1>6, <1>7, OneMoves DEF AiInv

\* What a process that starts a run has in hand.
LEMMA Starts ==
    ASSUME AiInv, NEW c \in Ai!Processes, call[c].at \in Starting
    PROVE  /\ c \in Users /\ queue = c
           /\ call[c].run \in AiRuns /\ call[c].rec \in Rec /\ Ai!Sealed(call[c].rec)
           /\ call[c].rec.status = "queued"
           /\ call[c].at \in Fresh => record[call[c].run] = Ai!Absent
           /\ call[c].at = "enqueueing" => agent[call[c].run] = "none"
BY InHand DEF Fits, Stands

LEMMA StartGoesOn ==
    ASSUME AiInv, NEW c \in Ai!Processes, Ai!Enqueues(c) \/ Ai!Creates(c)
    PROVE  AiInv'
<1>1. /\ call[c].at \in {"enqueueing", "creating"} /\ UNCHANGED <<import, deleting, untracked>>
  BY DEF Ai!Enqueues, Ai!Creates, Ai!At
<1>2. PICK r \in AiRuns, n \in Rec :
         /\ r = call[c].run /\ n = call[c].rec /\ Ai!Sealed(n) /\ n.status = "queued"
         /\ record[r] = Ai!Absent /\ c \in Users /\ queue = c
         /\ call[c].at = "enqueueing" => agent[r] = "none"
  BY <1>1, Starts
<1>3. CASE Ai!Ends(c) /\ agent' = agent /\ record' = record /\ call[c].at = "enqueueing"
  <2>1. Carries(c)' /\ Stands(c)'
    BY <1>3, EndsIs, IdleFits
  <2>2. "idle" \notin Starting
    OBVIOUS
  <2> QED
    BY <1>1, <1>3, <2>1, <2>2, EndsIs, OneMoves DEF AiInv
<1>4. ASSUME NEW at, Ai!Goes(c, at, r, n), queue' = queue,
             \/ /\ call[c].at = "enqueueing" /\ at = "creating"
                /\ record' = record /\ agent' = [agent EXCEPT ![r] = "active"]
             \/ /\ call[c].at = "creating" /\ at = "created"
                /\ record' = [record EXCEPT ![r] = n] /\ agent' = agent
             \/ /\ call[c].at = "creating" /\ at = "discarding" /\ record' = record /\ agent' = agent
      PROVE  AiInv'
  <2>1. /\ call' = [q \in Ai!Processes |-> call'[q]]
        /\ \A q \in Ai!Processes : q # c => call'[q] = call[q]
        /\ call'[c].at = at /\ call'[c].run = r /\ call'[c].rec = n
    BY <1>4, GoesIs, Zenon
  <2>2. Carries(c)'
    BY <1>2, <1>4, <2>1 DEF Carries, Fits
  <2>3. Stands(c)'
    BY <1>2, <1>4, <2>1 DEF Stands, Deleting, Clearing
  <2>4. /\ agent' \in [AiRuns -> Agents] /\ record' \in [AiRuns -> Rec \cup {Ai!Absent}]
    BY <1>4 DEF AiInv, Agents
  <2>5. \A q \in AiRuns : q # r => agent'[q] = agent[q] /\ record'[q] = record[q]
    BY <1>4 DEF AiInv
  <2>6. agent'[r] = agent[r] \/ (call[c].at = "enqueueing" /\ at = "creating" /\ agent[r] # "purged")
    BY <1>2, <1>4
  <2>7. record'[r] # record[r] => record'[r] = n /\ at = "created"
    BY <1>4 DEF AiInv
  <2>8. \A q \in AiRuns : record'[q] # record[q] => Says(q)'
    <3>1. ASSUME NEW q \in AiRuns, record'[q] # record[q] PROVE Says(q)'
      <4>1. q = r /\ record'[r] = n
        BY <2>5, <2>7, <3>1
      <4> QED
        BY <1>2, <4>1, Apart DEF Says
    <3> QED
      BY <3>1
  <2>9. at = "created" => record'[r] # Ai!Absent
    BY <1>2, <1>4, Apart DEF AiInv
  <2>10. \A q \in AiRuns : agent[q] = "purged" => agent'[q] = "purged"
    BY <2>5, <2>6
  <2>11. \A q \in AiRuns : agent[q] = "none" => agent'[q] = "none" \/
              (call[c].at = "enqueueing" /\ call'[c].at = "creating" /\ call'[c].run = q)
    BY <2>1, <2>5, <2>6
  <2>12. call[c].at \in {"creating", "discarding"} =>
              \/ call'[c].at \in {"creating", "discarding"} /\ call'[c].run = call[c].run
              \/ record'[call[c].run] # Ai!Absent
    BY <1>1, <1>2, <1>4, <2>1, <2>9
  <2> QED
    BY <1>1, <1>4, <2>1, <2>2, <2>3, <2>4, <2>8, <2>10, <2>11, <2>12, OneMoves DEF AiInv
<1>5. CASE Ai!Enqueues(c)
  BY <1>2, <1>3, <1>4, <1>5 DEF Ai!Enqueues, Ai!At
<1>6. CASE Ai!Creates(c)
  BY <1>2, <1>4, <1>6 DEF Ai!Creates, Ai!At
<1> QED
  BY <1>5, <1>6

LEMMA StartEnds ==
    ASSUME AiInv, NEW c \in Ai!Processes, Ai!Discards(c) \/ Ai!Created(c)
    PROVE  AiInv'
<1>1. /\ call[c].at \in {"discarding", "created"} /\ UNCHANGED <<import, deleting>> /\ Ai!Ends(c)
  BY DEF Ai!Discards, Ai!Created, Ai!At
<1>2. PICK r \in AiRuns, n \in Rec :
         /\ r = call[c].run /\ n = call[c].rec /\ Ai!Sealed(n) /\ n.status = "queued"
         /\ call[c].at = "discarding" => record[r] = Ai!Absent
  BY <1>1, Starts
<1>3. \/ /\ AgentsKeep /\ agent'[r] \in Ai!Erased
         /\ record' = record \/ record' = [record EXCEPT ![r] = Ai!Absent]
         /\ untracked' = untracked
      \/ /\ AgentsKeep
         /\ \/ record' = [record EXCEPT ![r] = n] /\ untracked' = untracked /\ call[c].at = "discarding"
            \/ untracked' = untracked \cup {r} /\ record' = record
            \/ record' = record /\ call[c].at = "created" /\ untracked' = untracked
  <2>1. CASE Ai!Discards(c)
    BY <1>2, <2>1, AgentSteps DEF Ai!Discards, Ai!At, Ai!Erased
  <2>2. CASE Ai!Created(c)
    BY <1>2, <2>2, AgentSteps DEF Ai!Created, Ai!At, Ai!Erased
  <2> QED
    BY <2>1, <2>2
<1>4. AgentsKeep
  BY <1>3
<1>5. /\ call' = [q \in Ai!Processes |-> call'[q]]
      /\ \A q \in Ai!Processes : q # c => call'[q] = call[q]
      /\ call'[c].at = "idle" /\ (queue' = queue \/ queue = c)
  BY <1>1, EndsIs
<1>6. Carries(c)' /\ Stands(c)' /\ "idle" \notin Starting
  BY <1>5, IdleFits
<1>7. record' \in [AiRuns -> Rec \cup {Ai!Absent}] /\ untracked \subseteq untracked'
  BY <1>3 DEF AiInv
<1>8. \A q \in AiRuns : q # r => record'[q] = record[q]
  BY <1>3 DEF AiInv
<1>9. \/ record'[r] = record[r] \/ record'[r] = n
      \/ record'[r] = Ai!Absent /\ agent'[r] \in Ai!Erased
  BY <1>3 DEF AiInv
<1>10. \A q \in AiRuns : record'[q] # record[q] => Says(q)'
  <2>1. ASSUME NEW q \in AiRuns, record'[q] # record[q] PROVE Says(q)'
    <3>1. q = r /\ (record'[q] = n \/ (record'[q] = Ai!Absent /\ agent'[r] \in Ai!Erased))
      BY <1>8, <1>9, <2>1
    <3> QED
      BY <1>2, <3>1, Apart DEF Says, Ai!Absent
  <2> QED
    BY <2>1
<1>11. call[c].at \in {"creating", "discarding"} =>
          record'[r] # Ai!Absent \/ r \in untracked' \/ agent'[r] \in Ai!Erased
  BY <1>1, <1>2, <1>3, Apart DEF AiInv
<1>12. \A q \in AiRuns : (agent[q] = "purged" => agent'[q] = "purged") /\ (agent[q] = "none" => agent'[q] = "none")
  BY <1>4 DEF AgentsKeep, Ai!Erased
<1> QED
  BY <1>1, <1>2, <1>4, <1>5, <1>6, <1>7, <1>10, <1>11, <1>12, OneMoves DEF AiInv, AgentsKeep

-----------------------------------------------------------------------------
(* apply(), cancel(), deleteRun() and the retention sweep *)

LEMMA ApplySteps ==
    ASSUME AiInv, NEW c \in Users, Ai!Apply(c)
    PROVE  AiInv'
<1>0. c \in Ai!Processes
  BY Apart
<1>1. \E r \in AiRuns : \E new :
         /\ new = [record[r] EXCEPT !.status = "applying", !.intent = import.revision]
         /\ record[r].status = "suggestions_ready"
         /\ record' = [record EXCEPT ![r] = new] /\ Ai!Goes(c, "apply", r, new)
         /\ call[c].at = "idle" /\ queue = Ai!Nobody /\ queue' = c
         /\ UNCHANGED <<import, agent, deleting, untracked>>
  BY DEF Ai!Apply, Ai!At, Ai!Enters
<1> SUFFICES ASSUME NEW r \in AiRuns, NEW new,
         new = [record[r] EXCEPT !.status = "applying", !.intent = import.revision],
         record[r].status = "suggestions_ready",
         record' = [record EXCEPT ![r] = new], Ai!Goes(c, "apply", r, new),
         call[c].at = "idle", queue = Ai!Nobody, queue' = c,
         UNCHANGED <<import, agent, deleting, untracked>>
             PROVE  AiInv'
  BY <1>1
<1>2. record[r] \in Rec /\ Ai!Sealed(record[r]) /\ record[r] # Ai!Absent
  BY Stored DEF Statuses
<1>3. import.revision \in Nat \ {0}
  BY DEF AiInv, Import
<1>4. /\ new \in Rec /\ new.status = "applying" /\ new.cleanup = record[r].cleanup /\ new.has = record[r].has
      /\ new.intent = import.revision /\ record[r].cleanup \in Nat
  BY <1>2, <1>3 DEF Rec, Statuses
<1>5. Ai!Sealed(new)
  BY <1>2, <1>3, <1>4, SealingApply
<1>6. PICK at : at = "apply" /\ Ai!Goes(c, at, r, new)
  OBVIOUS
<1>7. /\ call' = [q \in Ai!Processes |-> call'[q]]
      /\ \A q \in Ai!Processes : q # c => call'[q] = call[q]
      /\ call'[c].at = at /\ call'[c].run = r /\ call'[c].rec = new
  BY <1>0, <1>6, GoesIs
<1>8. Carries(c)' /\ Stands(c)'
  BY <1>4, <1>5, <1>6, <1>7 DEF Carries, Fits, Stands, Deleting, Clearing
<1>9. call[c].at \notin Starting /\ call'[c].at \notin Starting
  BY <1>6, <1>7
<1> QED
  BY <1>0, <1>2, <1>4, <1>5, <1>7, <1>8, <1>9, RecordSaved

LEMMA RemoverSteps ==
    ASSUME AiInv, NEW c \in Ai!Processes, Ai!Cancel(c) \/ Ai!DeleteRun(c) \/ Ai!ErasesDiscarded(c)
    PROVE  AiInv'
<1>1. UNCHANGED <<import, record, queue, deleting, untracked>>
  BY DEF Ai!Cancel, Ai!DeleteRun, Ai!ErasesDiscarded
<1>2. ASSUME NEW r \in AiRuns, call[c].at = "idle" \/ call[c].at = "discarded",
             AgentsKeep, NEW at, NEW n, Ai!Goes(c, at, r, n), Fits(at, r, n),
             at \in {"cancel_requested", "discarded", "dropping"}
      PROVE  AiInv'
  BY <1>1, <1>2, WorksTo
<1>3. CASE Ai!Cancel(c)
  <2>1. PICK r \in AiRuns : /\ call[c].at = "idle" /\ record[r].status \in Ai!Cancellable
                            /\ \E a \in Ai!CancelOf(r) : agent' = [agent EXCEPT ![r] = a]
                            /\ call' = call \/ Ai!Goes(c, "cancel_requested", r, record[r])
    BY <1>3 DEF Ai!Cancel, Ai!At
  <2>2. AgentsKeep
    BY <2>1, AgentSteps
  <2>3. record[r] \in Rec /\ Ai!Sealed(record[r])
    BY <2>1, Stored DEF Ai!Cancellable, Ai!Active, Statuses
  <2>4. CASE call' = call
    BY <1>1, <2>2, <2>4, AgentsMove
  <2>5. CASE Ai!Goes(c, "cancel_requested", r, record[r])
    <3>1. PICK at : at = "cancel_requested"
      OBVIOUS
    <3>2. Fits(at, r, record[r]) /\ Ai!Goes(c, at, r, record[r])
      BY <2>1, <2>3, <2>5, <3>1 DEF Fits
    <3> QED
      BY <1>2, <2>1, <2>2, <3>1, <3>2
  <2> QED
    BY <2>1, <2>4, <2>5
<1>4. CASE Ai!DeleteRun(c)
  <2>1. PICK r \in AiRuns : /\ call[c].at = "idle" /\ record[r] # Ai!Absent
                            /\ agent' = agent \/ \E a \in Ai!CancelOf(r) : agent' = [agent EXCEPT ![r] = a]
                            /\ Ai!Goes(c, "discarded", r, record[r])
    BY <1>4 DEF Ai!DeleteRun, Ai!At
  <2>2. AgentsKeep
    BY <2>1, AgentSteps
  <2>3. record[r] \in Rec /\ Ai!Sealed(record[r])
    BY <2>1, Stored
  <2>4. PICK at : at = "discarded"
    OBVIOUS
  <2>5. Fits(at, r, record[r]) /\ Ai!Goes(c, at, r, record[r])
    BY <2>1, <2>3, <2>4 DEF Fits
  <2> QED
    BY <1>2, <2>1, <2>2, <2>4, <2>5
<1>5. CASE Ai!ErasesDiscarded(c)
  <2>1. call[c].at = "discarded"
    BY <1>5 DEF Ai!ErasesDiscarded, Ai!At
  <2>2. PICK r \in AiRuns, n \in Rec : r = call[c].run /\ n = call[c].rec /\ Fits("discarded", r, n)
    BY <2>1, InHand DEF Fits
  <2>3. AgentsKeep
    BY <1>5, <2>2, AgentSteps DEF Ai!ErasesDiscarded
  <2>4. PICK at : at = "dropping"
    OBVIOUS
  <2>5. Fits(at, r, n) /\ Ai!Goes(c, at, r, n)
    BY <1>5, <2>2, <2>4 DEF Fits, Ai!ErasesDiscarded
  <2> QED
    BY <1>2, <2>1, <2>3, <2>4, <2>5
<1> QED
  BY <1>3, <1>4, <1>5

LEMMA DropSteps ==
    ASSUME AiInv, NEW p \in Ai!Processes, Ai!Drops(p)
    PROVE  AiInv'
<1>1. call[p].at = "dropping" /\ UNCHANGED <<import, agent, deleting>> /\ Ai!Ends(p)
  BY DEF Ai!Drops, Ai!At
<1>2. PICK r \in AiRuns : r = call[p].run
  BY <1>1, InHand DEF Fits
<1>3. CASE record' = record /\ untracked' = untracked
  BY <1>1, <1>2, <1>3, AgentSteps, WorksEnd
<1>4. ASSUME record' = [record EXCEPT ![r] = Ai!Absent],
             untracked' = untracked \cup (IF agent[r] \in Ai!Erased THEN {} ELSE {r})
      PROVE  AiInv'
  <2>1. /\ call' = [q \in Ai!Processes |-> call'[q]]
        /\ \A q \in Ai!Processes : q # p => call'[q] = call[q]
        /\ call'[p].at = "idle" /\ (queue' = queue \/ queue = p)
    BY <1>1, EndsIs
  <2>2. Carries(p)' /\ Stands(p)' /\ "idle" \notin Starting
    BY <2>1, IdleFits
  <2>3. record' \in [AiRuns -> Rec \cup {Ai!Absent}]
    BY <1>4 DEF AiInv
  <2>4. \A q \in AiRuns : IF q = r THEN record'[q] = Ai!Absent ELSE record'[q] = record[q]
    BY <1>4 DEF AiInv
  <2>5. Says(r)'
    BY <1>1, <1>4, <2>4 DEF Says, Ai!Absent
  <2>6. \A q \in AiRuns : record'[q] # record[q] => Says(q)'
    BY <2>4, <2>5
  <2>7. untracked \subseteq untracked' /\ call[p].at \notin Starting
    BY <1>1, <1>4
  <2> QED
    BY <1>1, <2>1, <2>2, <2>3, <2>4, <2>6, <2>7, OneMoves DEF AiInv
<1> QED
  BY <1>2, <1>3, <1>4 DEF Ai!Drops

LEMMA SweepSteps ==
    ASSUME AiInv, Ai!SweepReads \/ Ai!Prunes
    PROVE  AiInv'
<1>0. Ai!Sweep \in Ai!Processes
  BY Apart
<1>1. UNCHANGED <<import, record, deleting, untracked>>
  BY DEF Ai!SweepReads, Ai!Prunes
<1>2. CASE Ai!SweepReads
  <2>1. PICK r \in AiRuns : /\ call[Ai!Sweep].at = "idle" /\ record[r] # Ai!Absent
                            /\ record[r].status # "applying" /\ ~Ai!ReplaceReady(record[r])
                            /\ Ai!Goes(Ai!Sweep, "expired", r, record[r])
                            /\ UNCHANGED <<agent, queue>>
    BY <1>2 DEF Ai!SweepReads, Ai!At
  <2>2. AgentsKeep
    BY <2>1, AgentSteps
  <2>3. record[r] \in Rec /\ Ai!Sealed(record[r])
    BY <2>1, Stored
  <2>4. PICK at : at = "expired"
    OBVIOUS
  <2>5. Fits(at, r, record[r]) /\ Ai!Goes(Ai!Sweep, at, r, record[r])
    BY <2>1, <2>3, <2>4 DEF Fits
  <2> QED
    BY <1>0, <1>1, <2>1, <2>2, <2>4, <2>5, WorksTo
<1>3. CASE Ai!Prunes
  <2>1. call[Ai!Sweep].at = "expired"
    BY <1>3 DEF Ai!Prunes, Ai!At
  <2>2. PICK r \in AiRuns, n \in Rec :
           r = call[Ai!Sweep].run /\ n = call[Ai!Sweep].rec /\ Fits("expired", r, n)
    BY <1>0, <2>1, InHand DEF Fits
  <2>3. AgentsKeep
    BY <1>3, <2>2, AgentSteps DEF Ai!Prunes
  <2>4. CASE Ai!Ends(Ai!Sweep)
    BY <1>0, <1>1, <2>1, <2>3, <2>4, WorksEnd
  <2>5. \/ Ai!Ends(Ai!Sweep)
        \/ Ai!Goes(Ai!Sweep, "dropping", r, n) /\ queue' = queue
        \/ /\ Ai!Goes(Ai!Sweep, "retained", r, n) /\ queue' = queue
           /\ Ai!NeedsRecovery(n) /\ n.cleanup < MaxAttempts
    BY <1>3, <2>2 DEF Ai!Prunes
  <2>6. ASSUME NEW at \in {"dropping", "retained"}, Ai!Goes(Ai!Sweep, at, r, n), queue' = queue,
               at = "retained" => Ai!NeedsRecovery(n) /\ n.cleanup < MaxAttempts
        PROVE  AiInv'
    <3>1. at = "retained" => n.status \in Ai!Cancellable
      BY <2>2, <2>6 DEF Fits, Ai!NeedsRecovery, Ai!Cancellable
    <3>2. Fits(at, r, n)
      BY <2>2, <2>6, <3>1 DEF Fits
    <3> QED
      BY <1>0, <1>1, <2>1, <2>3, <2>6, <3>2, WorksTo
  <2> QED
    BY <2>4, <2>5, <2>6
<1> QED
  BY <1>2, <1>3

HIDE DEF Starting, Fresh, Working, Looking, Versioning, Applying, Leaving, Dropping

-----------------------------------------------------------------------------
(* The deletion of the import *)

\* A record that was applying is settled: applied when the import has its facts, else failed.
LEMMA SettledIs ==
    ASSUME NEW n \in Rec, Ai!Sealed(n), n.status = "applying", NEW at \in {"applied", "not applied"}
    PROVE  /\ Ai!Successor(at, n) \in Rec /\ Ai!Sealed(Ai!Successor(at, n))
           /\ Ai!Successor(at, n).status \in {"applied", "failed"}
           /\ Ai!Successor(at, n).status = "applied" => at = "applied"
<1>1. n.status \in Statuses /\ n.cleanup \in Nat
  BY DEF Rec
<1>2. \A r \in AiRuns : Fits(at, r, n)
  BY DEF Fits, Starting, Fresh, Looking, Versioning, Applying
<1>3. n.cleanup = 0 /\ n.has = {"proposal"}
  BY <1>1, Sealing
<1>4. CASE at = "applied"
  <2>1. PICK s : s = [n EXCEPT !.status = "applied", !.has = @ \cup {"result"}, !.intent = 0]
    OBVIOUS
  <2>2. Ai!Successor(at, n) = s
    BY <1>4, <2>1 DEF Ai!Successor
  <2>3. /\ s.status = "applied" /\ s.has = {"proposal", "result"} /\ s.cleanup = 0 /\ s.intent = 0
        /\ s \in Rec
    BY <1>3, <2>1 DEF Rec, Statuses
  <2>4. Ai!Sealed(s)
    BY <2>3, SealingApplied
  <2> QED
    BY <1>4, <2>2, <2>3, <2>4
<1>5. CASE at = "not applied"
  <2>1. PICK s : s = [n EXCEPT !.status = "failed", !.has = @ \cup {"failure"}, !.intent = 0]
    OBVIOUS
  <2>2. Ai!Successor(at, n) = s
    BY <1>5, <2>1 DEF Ai!Successor
  <2>3. /\ s.status = "failed" /\ s.has = {"proposal", "failure"} /\ s.cleanup = 0 /\ s.intent = 0
        /\ s \in Rec
    BY <1>3, <2>1 DEF Rec, Statuses
  <2>4. Ai!Sealed(s)
    BY <2>3, SealingFailed
  <2> QED
    BY <1>5, <2>2, <2>3, <2>4
<1> QED
  BY <1>4, <1>5

\* While a deletion settles or clears, or nobody is on the queue, no run is starting.
LEMMA NobodyStarts ==
    ASSUME AiInv, NEW c \in Ai!Processes, queue = Ai!Nobody \/ (queue = c /\ call[c].at \notin Starting)
    PROVE  \A p \in Ai!Processes : call[p].at \notin Starting
BY Apart DEF AiInv, Stands

LEMMA DeleteBegins ==
    ASSUME AiInv, NEW c \in Ai!Processes, Ai!Delete(c) \/ Ai!DeletesNext(c)
    PROVE  AiInv'
<1>1. /\ UNCHANGED <<import, record, agent, untracked>> /\ call[c].at \in {"idle", "awaiting deletion"}
      /\ call[c].at = "awaiting deletion" => Ai!DeletesNext(c)
  BY DEF Ai!Delete, Ai!DeletesNext, Ai!At
<1>2. PICK at, r, n :
         /\ Ai!Goes(c, at, r, n)
         /\ \/ at = "awaiting deletion" /\ queue' = queue /\ deleting' = TRUE
            \/ /\ at = "settling" /\ queue = Ai!Nobody /\ queue' = c /\ deleting' = deleting
               /\ call[c].at = "awaiting deletion"
               /\ r = {q \in AiRuns : record[q] # Ai!Absent}
  <2>1. CASE Ai!Delete(c)
    BY <2>1 DEF Ai!Delete
  <2>2. CASE Ai!DeletesNext(c)
    BY <2>2 DEF Ai!DeletesNext, Ai!At, Ai!Enters
  <2> QED
    BY <2>1, <2>2
<1>3. /\ call' = [q \in Ai!Processes |-> call'[q]]
      /\ \A q \in Ai!Processes : q # c => call'[q] = call[q]
      /\ call'[c].at = at /\ call'[c].run = r
  <2>1. Ai!Goes(c, at, r, n)
    BY <1>2
  <2> QED
    BY <2>1, GoesIs
<1>4. call[c].at \in Deleting => deleting
  BY DEF AiInv, Stands
<1>5. deleting' /\ (deleting => deleting')
  <2>1. CASE deleting' = TRUE
    BY <2>1
  <2>2. CASE call[c].at = "awaiting deletion" /\ deleting' = deleting
    BY <1>4, <2>2 DEF Deleting
  <2> QED
    BY <1>2, <2>1, <2>2
<1>6. Carries(c)'
  BY <1>2, <1>3 DEF Carries, Starting, Fresh, Working, Looking, Versioning, Applying, Leaving, Dropping
<1>7. \A q \in AiRuns : (record'[q] # Ai!Absent /\ at = "settling") => q \in r
  BY <1>1, <1>2
<1>8. Stands(c)'
  BY <1>2, <1>3, <1>5, <1>7
     DEF Stands, Starting, Fresh, Working, Looking, Versioning, Applying, Leaving, Dropping, Deleting, Clearing
<1>9. call[c].at \notin Starting /\ call'[c].at \notin Starting /\ call[c].at \notin {"creating", "discarding"}
  BY <1>1, <1>2, <1>3 DEF Starting, Fresh
<1> QED
  BY <1>1, <1>2, <1>3, <1>5, <1>6, <1>8, <1>9, OneMoves DEF AiInv

\* What holds of a deletion that has the queue.
LEMMA Clears ==
    ASSUME AiInv, NEW c \in Ai!Processes, call[c].at \in Clearing
    PROVE  /\ queue = c /\ deleting
           /\ call[c].at \notin Starting
           /\ \A r \in AiRuns : record[r] # Ai!Absent => r \in call[c].run
           /\ \A p \in Ai!Processes : call[p].at \notin Starting
<1>1. queue = c /\ deleting /\ (\A r \in AiRuns : record[r] # Ai!Absent => r \in call[c].run)
  BY DEF AiInv, Stands, Deleting
<1>2. call[c].at \notin Starting
  BY DEF Clearing, Starting, Fresh
<1> QED
  BY <1>1, <1>2, NobodyStarts

LEMMA DeleteSettles ==
    ASSUME AiInv, NEW c \in Ai!Processes, Ai!Settles(c)
    PROVE  AiInv'
<1>1. /\ call[c].at = "settling" /\ call[c].at \in Clearing
      /\ UNCHANGED <<import, agent, queue, deleting, untracked>>
  BY DEF Ai!Settles, Ai!At, Clearing
<1>2. Ai!Goes(c, "clearing", call[c].run, call[c].rec)
  BY DEF Ai!Settles
<1>3. /\ call' = [q \in Ai!Processes |-> call'[q]]
      /\ \A q \in Ai!Processes : q # c => call'[q] = call[q]
      /\ call'[c].at = "clearing" /\ call'[c].run = call[c].run
  BY <1>2, GoesIs
<1>4. ASSUME NEW r \in AiRuns
      PROVE  \/ record'[r] = record[r]
             \/ /\ record[r] \in Rec /\ record'[r] \in Rec /\ Ai!Sealed(record'[r])
                /\ record'[r].status \in {"applied", "failed"} /\ (record'[r].status = "applied" => r \in import.holds)
  <2>1. CASE record[r].status = "applying"
    <3>1. record[r] \in Rec /\ Ai!Sealed(record[r])
      BY <2>1, Stored DEF Statuses
    <3>2. PICK n \in Rec : n = record[r] /\ Ai!Sealed(n) /\ n.status = "applying"
      BY <2>1, <3>1
    <3>3. PICK at \in {"applied", "not applied"} : at = IF r \in import.holds THEN "applied" ELSE "not applied"
      OBVIOUS
    <3>4. record'[r] = record[r] \/ record'[r] = Ai!Successor(at, n)
      BY <3>2, <3>3 DEF Ai!Settles
    <3> QED
      BY <3>1, <3>2, <3>3, <3>4, SettledIs
  <2>2. CASE record[r].status # "applying"
    BY <2>2 DEF Ai!Settles
  <2> QED
    BY <2>1, <2>2
<1>5. record' = [r \in AiRuns |-> record'[r]]
  BY DEF Ai!Settles
<1>6. record' \in [AiRuns -> Rec \cup {Ai!Absent}]
  BY <1>4, <1>5 DEF AiInv
<1>7. \A r \in AiRuns : record'[r] # record[r] => Says(r)'
  BY <1>1, <1>4, Apart DEF Says
<1>8. \A r \in AiRuns : (record[r] = Ai!Absent => record'[r] = Ai!Absent) /\ (record'[r] # Ai!Absent => record[r] # Ai!Absent)
  BY <1>4, Apart
<1>9. Carries(c)'
  BY <1>3 DEF Carries, Starting, Fresh, Working, Looking, Versioning, Applying, Leaving, Dropping
<1>10. Stands(c)'
  BY <1>1, <1>3, <1>8, Clears
     DEF Stands, Starting, Fresh, Working, Looking, Versioning, Applying, Leaving, Dropping, Deleting, Clearing
<1>11. call[c].at \notin Starting /\ call'[c].at \notin Starting /\ call[c].at \notin {"creating", "discarding"}
  BY <1>1, <1>3 DEF Starting, Fresh
<1> QED
  BY <1>1, <1>3, <1>6, <1>7, <1>8, <1>9, <1>10, <1>11, OneMoves DEF AiInv

LEMMA DeleteClears ==
    ASSUME AiInv, NEW c \in Ai!Processes, Ai!Clears(c)
    PROVE  AiInv'
<1>1. /\ call[c].at = "clearing" /\ UNCHANGED <<import, record, deleting, untracked>>
  BY DEF Ai!Clears, Ai!At
<1>2. PICK r : r \in call[c].run /\ agent[r] \notin Ai!Erased /\ Ai!ClearsRun(c, r)
  BY DEF Ai!Clears
<1>3. \/ agent' = agent
      \/ \E a \in Agents : agent' = [agent EXCEPT ![r] = a] /\ (a = agent[r] \/ agent[r] \notin Ai!Erased)
  <2>1. CASE Ai!Purges(r)
    BY <2>1, <1>2 DEF Ai!Purges, Agents
  <2>2. CASE Ai!PurgeFails(r)
    BY <2>2 DEF Ai!PurgeFails
  <2>3. CASE agent[r] \notin Ai!Terminal \cup Ai!Erased /\ \E a \in Ai!CancelOf(r) : agent' = [agent EXCEPT ![r] = a]
    <3>1. PICK a \in Ai!CancelOf(r) : agent' = [agent EXCEPT ![r] = a]
      BY <2>3
    <3>2. a \in Agents \/ a = agent[r]
      BY <3>1 DEF Ai!CancelOf, Agents
    <3>3. a \notin Agents => agent' = agent
      BY <3>1, <3>2 DEF AiInv
    <3> QED
      BY <1>2, <3>1, <3>3
  <2> QED
    BY <1>2, <2>1, <2>2, <2>3 DEF Ai!ClearsRun
<1>4. AgentsKeep
  BY <1>3 DEF AiInv, AgentsKeep
<1>5. (call' = call /\ queue' = queue) \/ Ai!Ends(c)
  BY <1>2 DEF Ai!ClearsRun
<1>6. call[c].at \notin Starting
  BY <1>1 DEF Starting, Fresh
<1> QED
  BY <1>1, <1>4, <1>5, <1>6, AgentsMove, WorksEnd

LEMMA DeleteDrops ==
    ASSUME AiInv, NEW c \in Ai!Processes, Ai!DropsAll(c)
    PROVE  AiInv'
<1>1. /\ call[c].at = "clearing" /\ call[c].at \in Clearing /\ UNCHANGED <<import, agent, deleting, untracked>>
      /\ \A r \in call[c].run : agent[r] \in Ai!Erased
  BY DEF Ai!DropsAll, Ai!At, Clearing
<1>2. PICK w : w = [at |-> "removing", run |-> Ai!Nobody, rec |-> call[c].rec]
  OBVIOUS
<1>3. call' = [call EXCEPT ![c] = w] /\ w.at = "removing"
  BY <1>2 DEF Ai!DropsAll
<1>4. /\ call' = [q \in Ai!Processes |-> call'[q]]
      /\ \A q \in Ai!Processes : q # c => call'[q] = call[q]
      /\ call'[c].at = "removing"
  BY <1>3 DEF AiInv
<1>5. \A r \in AiRuns : record'[r] = Ai!Absent
  BY <1>1, Clears DEF Ai!DropsAll
<1>6. record' = [r \in AiRuns |-> record'[r]]
  BY DEF Ai!DropsAll
<1>7. record' \in [AiRuns -> Rec \cup {Ai!Absent}]
  BY <1>5, <1>6
<1>8. \A r \in AiRuns : record'[r] # record[r] => Says(r)'
  <2>1. \A r \in AiRuns : record'[r] # record[r] => agent[r] \in Ai!Erased
    BY <1>1, <1>5, Clears
  <2> QED
    BY <1>1, <1>5, <2>1 DEF Says, Ai!Absent
<1>9. \A p \in Ai!Processes : call'[p].at \notin Starting
  BY <1>1, <1>4, Clears DEF Starting, Fresh
<1>10. Carries(c)' /\ AllGone'
  BY <1>4, <1>5, <1>9
     DEF AllGone, Carries, Starting, Fresh, Working, Looking, Versioning, Applying, Leaving, Dropping
<1>11. Stands(c)'
  BY <1>1, <1>4, <1>10, Clears
     DEF Stands, Starting, Fresh, Working, Looking, Versioning, Applying, Leaving, Dropping, Deleting, Clearing
<1>12. call[c].at \notin {"creating", "discarding"} /\ queue = c
  BY <1>1, Clears
<1> QED
  BY <1>1, <1>4, <1>5, <1>7, <1>8, <1>9, <1>10, <1>11, <1>12, OneMoves DEF AiInv

LEMMA DeleteRemoves ==
    ASSUME AiInv, NEW c \in Ai!Processes, Ai!Removes(c)
    PROVE  AiInv'
<1>1. call[c].at = "removing" /\ UNCHANGED <<record, agent, deleting, untracked>> /\ Ai!Ends(c)
  BY DEF Ai!Removes, Ai!At
<1>2. PICK i : /\ import' = i /\ i \in Import /\ (import.status = "deleted" => i.status = "deleted")
               /\ i = import \/ i.status = "deleted"
  <2>1. CASE import' = import
    BY <2>1 DEF AiInv
  <2>2. CASE import' = [import EXCEPT !.status = "deleted", !.holds = {}]
    <3>1. PICK i : i = [import EXCEPT !.status = "deleted", !.holds = {}]
      OBVIOUS
    <3>2. i \in Import /\ i.status = "deleted"
      BY <3>1 DEF AiInv, Import
    <3> QED
      BY <2>2, <3>1, <3>2
  <2> QED
    BY <2>1, <2>2 DEF Ai!Removes
<1>3. /\ call' = [q \in Ai!Processes |-> call'[q]]
      /\ \A q \in Ai!Processes : q # c => call'[q] = call[q]
      /\ call'[c].at = "idle" /\ (queue' = queue \/ queue = c)
  BY <1>1, EndsIs
<1>4. Carries(c)' /\ Stands(c)'
  BY <1>3, IdleFits
<1>5. "idle" \notin Starting /\ call[c].at \notin Starting /\ call[c].at \notin {"creating", "discarding"}
  BY <1>1 DEF Starting, Fresh
<1> QED
  BY <1>1, <1>2, <1>3, <1>4, <1>5, OneMoves DEF AiInv

-----------------------------------------------------------------------------
(* What is around the service *)

LEMMA ImportMoves ==
    ASSUME AiInv, Ai!ImportChanges
    PROVE  AiInv'
<1>1. UNCHANGED <<record, agent, call, queue, deleting, untracked>> /\ import.status = "open"
  BY DEF Ai!ImportChanges
<1>2. PICK s \in {"open", "adopted"} : import' = [import EXCEPT !.revision = @ + 1, !.status = s]
  BY DEF Ai!ImportChanges
<1>3. PICK k : k = import.revision + 1
  OBVIOUS
<1>4. k \in Nat \ {0}
  BY <1>3 DEF AiInv, Import
<1>5. import' = [import EXCEPT !.revision = k, !.status = s]
  BY <1>2, <1>3
<1>6. import' \in Import /\ import'.holds = import.holds /\ import'.status = s
  BY <1>4, <1>5 DEF AiInv, Import
<1>7. Ai!Sweep \in Ai!Processes /\ call[Ai!Sweep].at \notin Starting
  BY Apart DEF AiInv, Stands
<1>8. call[Ai!Sweep].at \notin {"creating", "discarding"}
  BY <1>7 DEF Starting, Fresh
<1> QED
  BY <1>1, <1>6, <1>7, <1>8, OneMoves DEF AiInv

LEMMA AiRestart ==
    ASSUME AiInv, Ai!Restart
    PROVE  AiInv'
<1>1. /\ call' = [p \in Ai!Processes |-> Ai!Idle] /\ UNCHANGED <<import, record, agent>>
      /\ untracked' = untracked \cup
            {call[c].run : c \in {x \in Ai!Clients : call[x].at \in {"creating", "discarding"}}}
  BY DEF Ai!Restart
<1>2. \A p \in Ai!Processes : call'[p].at = "idle"
  BY <1>1 DEF Ai!Idle
<1>3. \A p \in Ai!Processes : Carries(p)' /\ Stands(p)'
  BY <1>2, IdleFits
<1>4. \A r \in AiRuns : Made(r) => r \in untracked'
  BY <1>1 DEF Made, Ai!Clients
<1>5. \A r \in AiRuns : RecordOk(r)'
  BY <1>1, <1>4 DEF AiInv, RecordOk
<1>6. AllGone => AllGone'
  BY <1>1, <1>2 DEF AllGone, Starting, Fresh
<1> QED
  BY <1>1, <1>3, <1>5, <1>6 DEF AiInv

LEMMA AiStep ==
    ASSUME AiInv, Ai!Next
    PROVE  AiInv'
<1>1. ASSUME NEW c \in Users, Ai!Start(c) \/ Ai!Apply(c) PROVE AiInv'
  BY <1>1, StartSteps, ApplySteps
<1>2. ASSUME NEW c \in Removers, Ai!Cancel(c) \/ Ai!DeleteRun(c) \/ Ai!Delete(c) \/ Ai!DeletesNext(c) PROVE AiInv'
  BY <1>2, Apart, RemoverSteps, DeleteBegins
<1>3. ASSUME NEW c \in Ai!Clients, Ai!Handles(c) PROVE AiInv'
  <2>1. c \in Ai!Processes
    BY DEF Ai!Processes
  <2> QED
    BY <1>3, <2>1, StartGoesOn, StartEnds, QueueSteps, LastSave, RemoverSteps, DropSteps, DeleteSettles,
       DeleteClears, DeleteDrops, DeleteRemoves DEF Ai!Handles
<1>4. ASSUME NEW r \in AiRuns, Ai!Refresh(r) PROVE AiInv'
  <2>1. r \in Ai!Processes
    BY Apart
  <2> QED
    BY <1>4, <2>1, RefreshLooks, RefreshSaves, QueueSteps, LastSave DEF Ai!Refresh
<1>5. ASSUME NEW r \in AiRuns, Ai!EntersQueue(r) PROVE AiInv'
  BY <1>5, Apart, QueueSteps
<1>6. ASSUME NEW r \in AiRuns, Ai!AgentMoves(r) PROVE AiInv'
  <2>1. UNCHANGED <<import, record, call, queue, deleting, untracked>>
    BY <1>6 DEF Ai!AgentMoves
  <2>2. PICK a \in Agents : agent' = [agent EXCEPT ![r] = a] /\ agent[r] \in {"active", "cancelling"}
    BY <1>6 DEF Ai!AgentMoves, Agents
  <2>3. AgentsKeep
    BY <2>2 DEF AiInv, AgentsKeep, Ai!Erased
  <2> QED
    BY <2>1, <2>3, AgentsMove
<1>7. CASE Ai!SweepReads \/ Ai!Prunes
  BY <1>7, SweepSteps
<1>8. CASE Ai!Drops(Ai!Sweep) \/ Ai!SavesAndEnds(Ai!Sweep)
  BY <1>8, Apart, DropSteps, LastSave
<1>9. CASE Ai!ImportChanges \/ Ai!Restart
  BY <1>9, ImportMoves, AiRestart
<1> QED
  BY <1>1, <1>2, <1>3, <1>4, <1>5, <1>6, <1>7, <1>8, <1>9 DEF Ai!Next

LEMMA AiRest == AiInv /\ UNCHANGED aiVars => AiInv'
<1> SUFFICES ASSUME AiInv, UNCHANGED aiVars PROVE AiInv'
  OBVIOUS
<1>1. UNCHANGED <<import, record, agent, call, queue, deleting, untracked>>
  BY DEF aiVars
<1>2. AgentsKeep
  BY <1>1 DEF AiInv, AgentsKeep
<1> QED
  BY <1>1, <1>2, AgentsMove

-----------------------------------------------------------------------------
(* What the records of the runs say, and that an end stays *)

LEMMA AiSays == AiInv => Ai!AppliedMeansHeld /\ Ai!NothingLeft /\ Ai!EndsCanBeSaved
<1> SUFFICES ASSUME AiInv PROVE Ai!AppliedMeansHeld /\ Ai!NothingLeft /\ Ai!EndsCanBeSaved
  OBVIOUS
<1>1. \A r \in AiRuns : RecordOk(r)
  BY DEF AiInv
<1>2. Ai!AppliedMeansHeld
  BY <1>1 DEF RecordOk, Ai!AppliedMeansHeld, Ai!Erased
<1>3. ASSUME import.status = "deleted", NEW r \in AiRuns
      PROVE  record[r] = Ai!Absent /\ (agent[r] \in Ai!Erased \/ r \in untracked)
  <2>1. AllGone
    BY <1>3 DEF AiInv
  <2>2. ~Made(r)
    BY <2>1, Apart DEF AllGone, Made, Starting, Fresh
  <2> QED
    BY <1>1, <2>1, <2>2 DEF AllGone, RecordOk
<1>4. ASSUME NEW p \in Ai!Processes, call[p].at \in Ai!LastSaves
      PROVE  Ai!Sealed(Ai!Successor(call[p].at, call[p].rec))
  <2>1. call[p].at \in Leaving \cup {"not applied"}
    BY <1>4 DEF Ai!LastSaves, Leaving
  <2>2. Fits(call[p].at, call[p].run, call[p].rec)
    BY <2>1, InHand DEF Working, Applying
  <2> QED
    BY <2>1, <2>2, SuccessorIs DEF Fits
<1> QED
  BY <1>2, <1>3, <1>4 DEF Ai!NothingLeft, Ai!EndsCanBeSaved

Over == {"applied", "failed", "cancelled"}
StaysOver == \A r \in AiRuns : record[r].status \in Over => record'[r] \in {record[r], Ai!Absent}

\* The record of one run becomes another one only from what is not over.
LEMMA OneRecord ==
    ASSUME AiInv, NEW r, NEW n, record' = [record EXCEPT ![r] = n],
           record[r].status \notin Over \/ n = Ai!Absent
    PROVE  StaysOver
BY DEF AiInv, StaysOver

LEMMA LastSaveStays ==
    ASSUME AiInv, NEW p \in Ai!Processes, Ai!SavesAndEnds(p)
    PROVE  StaysOver
<1>1. call[p].at \in Leaving \cup {"not applied"}
  BY DEF Ai!SavesAndEnds, Ai!LastSaves, Leaving
<1>2. Fits(call[p].at, call[p].run, call[p].rec)
  BY <1>1, InHand DEF Working, Applying
<1>3. call[p].rec.status \notin Over
  BY <1>1, <1>2, SuccessorIs DEF Fits, Over
<1>4. PICK new : new = Ai!Successor(call[p].at, call[p].rec)
  OBVIOUS
<1>5. \/ record' = record
      \/ record[call[p].run] = call[p].rec /\ record' = [record EXCEPT ![call[p].run] = new]
  BY <1>4 DEF Ai!SavesAndEnds, Ai!Saves
<1>6. CASE record' = record
  BY <1>6 DEF StaysOver
<1> QED
  BY <1>3, <1>5, <1>6, OneRecord

LEMMA OwnSavesStay ==
    ASSUME AiInv, NEW r \in AiRuns, Ai!Completes(r) \/ Ai!SavesProposal(r)
    PROVE  StaysOver
<1>1. call[r].at \in {"completing", "valid"} /\ r \in Ai!Processes
  BY Apart DEF Ai!Completes, Ai!SavesProposal, Ai!At
<1>2. Fits(call[r].at, call[r].run, call[r].rec)
  BY <1>1, InHand DEF Working, Looking
<1>3. call[r].rec.status \in Ai!Cancellable
  BY <1>1, <1>2 DEF Fits, Looking
<1>4. call[r].rec.status \notin Over
  BY <1>3 DEF Over, Ai!Cancellable, Ai!Active
<1>5. \/ record' = record
      \/ \E n : record[r] = call[r].rec /\ record' = [record EXCEPT ![r] = n]
  <2>1. CASE Ai!SavesProposal(r)
    BY <2>1 DEF Ai!SavesProposal, Ai!Saves
  <2>2. CASE Ai!Completes(r)
    <3>1. PICK new : new = Ai!Becomes(call[r].rec, "validating")
      OBVIOUS
    <3>2. \/ record' = record
          \/ /\ call[r].rec = new \/ Ai!Saves(r, call[r].rec, new)
             /\ record' = [record EXCEPT ![r] = IF call[r].rec = new THEN @ ELSE new]
      BY <2>2, <3>1 DEF Ai!Completes
    <3>3. CASE call[r].rec = new /\ record' = [record EXCEPT ![r] = IF call[r].rec = new THEN @ ELSE new]
      BY <3>3 DEF AiInv
    <3>4. CASE call[r].rec # new /\ Ai!Saves(r, call[r].rec, new)
               /\ record' = [record EXCEPT ![r] = IF call[r].rec = new THEN @ ELSE new]
      BY <3>4 DEF Ai!Saves
    <3> QED
      BY <3>2, <3>3, <3>4
  <2> QED
    BY <2>1, <2>2
<1>6. CASE record' = record
  BY <1>6 DEF StaysOver
<1> QED
  BY <1>4, <1>5, <1>6, OneRecord

LEMMA NewRecordsStay ==
    ASSUME AiInv, NEW c \in Ai!Processes, Ai!Creates(c) \/ Ai!Discards(c) \/ Ai!Created(c)
    PROVE  StaysOver
<1>1. CASE Ai!Creates(c) \/ Ai!Discards(c)
  <2>1. call[c].at \in Fresh
    BY <1>1 DEF Ai!Creates, Ai!Discards, Ai!At, Fresh
  <2>2. record[call[c].run] = Ai!Absent
    BY <2>1 DEF AiInv, Stands
  <2>3. record[call[c].run].status \notin Over
    BY <2>2 DEF Over, Ai!Absent
  <2>4. record' = record \/ record' = [record EXCEPT ![call[c].run] = call[c].rec]
    BY <1>1 DEF Ai!Creates, Ai!Discards
  <2>5. CASE record' = record
    BY <2>5 DEF StaysOver
  <2> QED
    BY <2>3, <2>4, <2>5, OneRecord
<1>2. CASE Ai!Created(c)
  <2>1. record' = record \/ record' = [record EXCEPT ![call[c].run] = Ai!Absent]
    BY <1>2 DEF Ai!Created
  <2>2. CASE record' = record
    BY <2>2 DEF StaysOver
  <2> QED
    BY <2>1, <2>2, OneRecord
<1> QED
  BY <1>1, <1>2

LEMMA GoneStays ==
    ASSUME AiInv, NEW c \in Ai!Processes, Ai!Drops(c) \/ Ai!DropsAll(c) \/ Ai!Settles(c)
    PROVE  StaysOver
<1>1. CASE Ai!Drops(c)
  <2>1. record' = record \/ record' = [record EXCEPT ![call[c].run] = Ai!Absent]
    BY <1>1 DEF Ai!Drops
  <2>2. CASE record' = record
    BY <2>2 DEF StaysOver
  <2> QED
    BY <2>1, <2>2, OneRecord
<1>2. CASE Ai!DropsAll(c)
  BY <1>2 DEF Ai!DropsAll, StaysOver
<1>3. CASE Ai!Settles(c)
  BY <1>3 DEF Ai!Settles, StaysOver, Over
<1> QED
  BY <1>1, <1>2, <1>3

LEMMA ApplyStays ==
    ASSUME AiInv, NEW c \in Users, Ai!Apply(c)
    PROVE  StaysOver
<1>1. PICK r \in AiRuns : /\ record[r].status = "suggestions_ready"
                          /\ \E n : record' = [record EXCEPT ![r] = n]
  BY DEF Ai!Apply
<1> QED
  BY <1>1, OneRecord DEF Over

LEMMA AiKeeps == AiInv /\ (Ai!Next \/ UNCHANGED aiVars) => StaysOver
<1> SUFFICES ASSUME AiInv, Ai!Next \/ UNCHANGED aiVars PROVE StaysOver
  OBVIOUS
<1>1. ASSUME record' = record PROVE StaysOver
  BY <1>1 DEF StaysOver
<1>2. ASSUME NEW c \in Users, Ai!Start(c) \/ Ai!Apply(c) PROVE StaysOver
  BY <1>1, <1>2, ApplyStays DEF Ai!Start, Ai!Begins
<1>3. ASSUME NEW c \in Removers, Ai!Cancel(c) \/ Ai!DeleteRun(c) \/ Ai!Delete(c) \/ Ai!DeletesNext(c) PROVE StaysOver
  BY <1>1, <1>3 DEF Ai!Cancel, Ai!DeleteRun, Ai!Delete, Ai!DeletesNext
<1>4. ASSUME NEW c \in Ai!Clients, Ai!Handles(c) PROVE StaysOver
  <2>1. c \in Ai!Processes
    BY DEF Ai!Processes
  <2>2. CASE Ai!Enqueues(c) \/ Ai!Applies(c) \/ Ai!Stages(c) \/ Ai!ErasesDiscarded(c) \/ Ai!Clears(c) \/ Ai!Removes(c)
    BY <1>1, <2>2 DEF Ai!Enqueues, Ai!Applies, Ai!Stages, Ai!ErasesDiscarded, Ai!Clears, Ai!Removes
  <2> QED
    BY <1>4, <2>1, <2>2, NewRecordsStay, LastSaveStays, GoneStays DEF Ai!Handles
<1>5. ASSUME NEW r \in AiRuns, Ai!Refresh(r) \/ Ai!EntersQueue(r) \/ Ai!AgentMoves(r) PROVE StaysOver
  <2>1. r \in Ai!Processes
    BY Apart
  <2>2. CASE \/ Ai!RefreshReads(r) \/ Ai!Looks(r) \/ Ai!Quarantines(r) \/ Ai!Validates(r) \/ Ai!Invalid(r)
             \/ Ai!Erases(r) \/ Ai!Materializes(r) \/ Ai!AddsVersion(r) \/ Ai!EndsVersion(r)
             \/ Ai!Applies(r) \/ Ai!Stages(r)
    BY <1>1, <2>2 DEF Ai!RefreshReads, Ai!Looks, Ai!Quarantines, Ai!Validates, Ai!Invalid, Ai!Erases,
       Ai!Materializes, Ai!AddsVersion, Ai!EndsVersion, Ai!Applies, Ai!Stages
  <2>3. CASE Ai!EntersQueue(r) \/ Ai!AgentMoves(r)
    BY <1>1, <2>3 DEF Ai!EntersQueue, Ai!AgentMoves
  <2> QED
    BY <1>5, <2>1, <2>2, <2>3, OwnSavesStay, LastSaveStays DEF Ai!Refresh
<1>6. CASE Ai!SweepReads \/ Ai!Prunes \/ Ai!ImportChanges \/ Ai!Restart
  BY <1>1, <1>6 DEF Ai!SweepReads, Ai!Prunes, Ai!ImportChanges, Ai!Restart
<1>7. CASE Ai!Drops(Ai!Sweep) \/ Ai!SavesAndEnds(Ai!Sweep)
  BY <1>7, Apart, GoneStays, LastSaveStays
<1>8. CASE UNCHANGED aiVars
  BY <1>1, <1>8 DEF aiVars
<1> QED
  BY <1>2, <1>3, <1>4, <1>5, <1>6, <1>7, <1>8 DEF Ai!Next

-----------------------------------------------------------------------------
(* The CV imports *)

\* The facts of a version and what was decided on them.
FactMaps == UNION {[D -> Cv!Decisions] : D \in SUBSET Cv!Facts}
Projections == [source : {SourceOf[i] : i \in Imports}, facts : SUBSET Cv!Facts]
Recognitions == [kind : {"deterministic", "ai"}, binding : SUBSET AiRuns, facts : FactMaps,
                 conflicts : BOOLEAN, artifact : Projections]
ImportRecords(adoption, proposal) ==
    [status : {"facts_pending", "facts_reviewed", "adopted", "proposal_ready"}, revision : Nat \ {0},
     versions : Seq(Recognitions), active : Nat, facts : FactMaps, conflicts : BOOLEAN,
     artifact : Projections, adoption : {adoption}, proposal : {proposal}]
Typed(r) == r \in ImportRecords(r.adoption, r.proposal)

Reviewable == {"facts_pending", "facts_reviewed"}

\* Every imported fact of a version is in its artifact.
Filled(v) == DOMAIN v.facts # {} /\ DOMAIN v.facts \ {OwnFact} = v.artifact.facts

\* A version at its place, with every imported fact in its artifact.
Complete(v, n) ==
    /\ (v.kind = "deterministic") = (n = 1)
    /\ (v.binding = {}) = (v.kind = "deterministic")
    /\ Filled(v)

Solid(vs) ==
    /\ vs \in Seq(Recognitions) /\ Len(vs) \in 1 .. MaxRecognitions
    /\ \A n \in 1 .. Len(vs) : Complete(vs[n], n)
    /\ \A m, n \in 2 .. Len(vs) : m # n => vs[m].binding # vs[n].binding

\* The adoption and the proposal of a record stand for what it shows.
AdoptionTrue(r) ==
    /\ (r.adoption # {}) = (r.status \in {"adopted", "proposal_ready"})
    /\ (r.status = "facts_pending") = Cv!Pending(r.facts)
    /\ \A a \in r.adoption :
        /\ a.active = r.active /\ a.version = r.versions[r.active]
        /\ ~r.conflicts /\ Cv!Confirmed(r.facts) # {}
    /\ \A p \in r.proposal : \E a \in r.adoption :
        r.status = "proposal_ready" /\ p.profile = a.profile /\ p.version = a.version

Whole(r) ==
    /\ Typed(r) /\ Solid(r.versions) /\ r.active \in 1 .. Len(r.versions)
    /\ Cv!Projects(r, r.versions[r.active]) /\ AdoptionTrue(r)

\* What the versions of a record become keeps the decisions on their facts.
Keeping(vs, ws) ==
    /\ Len(ws) >= Len(vs)
    /\ \A n \in 1 .. Len(vs) :
        /\ ws[n].binding = vs[n].binding /\ ws[n].artifact = vs[n].artifact
        /\ DOMAIN vs[n].facts \subseteq DOMAIN ws[n].facts
        /\ \A f \in DOMAIN vs[n].facts : ws[n].facts[f] = "pending" => vs[n].facts[f] = "pending"

\* A version is that of a run.
Serves(v, run) == v.binding = {run}
Unserved(vs, run) == \A n \in 2 .. Len(vs) : ~Serves(vs[n], run)

Grows(vs, w, ws, k) == ws = Append(vs, w) /\ k = Len(vs) + 1

LEMMA MapIs ==
    \A g : g \in FactMaps <=> g \in [DOMAIN g -> Cv!Decisions] /\ DOMAIN g \in SUBSET Cv!Facts
BY DEF FactMaps

LEMMA WholeLoads == \A r : Whole(r) => Cv!Loads(r)
<1> SUFFICES ASSUME NEW r, Whole(r) PROVE Cv!Loads(r)
  OBVIOUS
<1>1. ASSUME NEW n \in 1 .. Len(r.versions) PROVE Cv!VersionLoads(r.versions[n], n)
  <2>1. r.versions[n] \in Recognitions /\ Complete(r.versions[n], n)
    BY ElementOfSeq DEF Whole, Solid
  <2>2. r.versions[n].facts \in [DOMAIN r.versions[n].facts -> Cv!Decisions]
    BY <2>1, MapIs DEF Recognitions
  <2> QED
    BY <2>1, <2>2 DEF Complete, Filled, Cv!VersionLoads
<1> QED
  BY <1>1 DEF Whole, Solid, Cv!Loads, Cv!Active

\* The facts, conflicts and artifact of one version are replaced.
LEMMA Replaced ==
    ASSUME NEW vs, Solid(vs), NEW k \in 1 .. Len(vs), NEW w \in Recognitions,
           w.kind = vs[k].kind, w.binding = vs[k].binding, w.artifact = vs[k].artifact,
           Filled(w),
           DOMAIN vs[k].facts \subseteq DOMAIN w.facts,
           \A f \in DOMAIN vs[k].facts : w.facts[f] = "pending" => vs[k].facts[f] = "pending",
           NEW ws, ws = [vs EXCEPT ![k] = w]
    PROVE  Solid(ws) /\ Keeping(vs, ws) /\ Len(ws) = Len(vs) /\ ws[k] = w
<1>1. /\ ws \in Seq(Recognitions) /\ Len(ws) = Len(vs)
      /\ \A j \in 1 .. Len(vs) : ws[j] = IF j = k THEN w ELSE vs[j]
  BY ExceptSeq DEF Solid
<1>2. Len(vs) \in Nat
  BY LenProperties DEF Solid
<1>3. \A n \in 1 .. Len(ws) : Complete(ws[n], n)
  BY <1>1 DEF Solid, Complete
<1>4. \A j \in 1 .. Len(vs) : ws[j].binding = vs[j].binding
  BY <1>1
<1>5. \A m, n \in 2 .. Len(ws) : m # n => ws[m].binding # ws[n].binding
  BY <1>1, <1>2, <1>4 DEF Solid
<1> QED
  BY <1>1, <1>2, <1>3, <1>5 DEF Solid, Keeping

\* A version of a run that has none yet is added.
LEMMA Added ==
    ASSUME NEW vs, Solid(vs), Len(vs) < MaxRecognitions, NEW w \in Recognitions, NEW run \in AiRuns,
           w.kind = "ai", Serves(w, run), Unserved(vs, run),
           Filled(w),
           NEW ws, NEW k, Grows(vs, w, ws, k)
    PROVE  Solid(ws) /\ Keeping(vs, ws) /\ Len(ws) = k /\ ws[k] = w
<1>1. ws = Append(vs, w)
  BY DEF Grows
<1>2. k = Len(vs) + 1
  BY DEF Grows
<1>3. /\ ws \in Seq(Recognitions) /\ Len(ws) = k
      /\ \A j \in 1 .. Len(vs) : ws[j] = vs[j]
      /\ ws[k] = w
  BY <1>1, <1>2, AppendProperties DEF Solid
<1>4. Len(vs) \in Nat \ {0} /\ Len(ws) \in 1 .. MaxRecognitions
  BY <1>2, <1>3, RecordsAssumption DEF Solid
<1>5. \A n \in 1 .. Len(ws) : Complete(ws[n], n)
  <2>1. \A n \in 1 .. Len(ws) : n \in 1 .. Len(vs) \/ n = k
    BY <1>2, <1>3, <1>4
  <2>2. Complete(w, k)
    BY <1>2, <1>4 DEF Complete, Serves
  <2> QED
    BY <1>3, <2>1, <2>2 DEF Solid
<1>6. \A m, n \in 2 .. Len(ws) : m # n => ws[m].binding # ws[n].binding
  <2>1. \A n \in 2 .. Len(ws) : (n \in 2 .. Len(vs) /\ ws[n] = vs[n]) \/ (n = k /\ ws[n] = w)
    BY <1>2, <1>3, <1>4
  <2> QED
    BY <2>1 DEF Solid, Serves, Unserved
<1>7. Keeping(vs, ws)
  BY <1>2, <1>3, <1>4 DEF Keeping
<1> QED
  BY <1>1, <1>2, <1>3, <1>4, <1>5, <1>6, <1>7 DEF Solid

LEMMA KeepsItself == \A vs : Solid(vs) => Keeping(vs, vs)
<1> SUFFICES ASSUME NEW vs, Solid(vs) PROVE Keeping(vs, vs)
  OBVIOUS
<1>1. Len(vs) \in Nat
  BY LenProperties DEF Solid
<1> QED
  BY <1>1 DEF Keeping

LEMMA UnadoptedIs ==
    ASSUME NEW r, Typed(r), NEW s, s = Cv!Unadopted(r)
    PROVE  /\ Typed(s) /\ s.adoption = {} /\ s.proposal = {}
           /\ s.status = r.status /\ s.revision = r.revision /\ s.versions = r.versions /\ s.active = r.active
           /\ s.facts = r.facts /\ s.conflicts = r.conflicts /\ s.artifact = r.artifact
BY DEF Typed, ImportRecords, Cv!Unadopted

LEMMA StatusIs ==
    ASSUME NEW r, Typed(r), NEW at \in {"facts_pending", "facts_reviewed", "adopted", "proposal_ready"},
           NEW s, s = [r EXCEPT !.status = at]
    PROVE  /\ Typed(s) /\ s.adoption = r.adoption /\ s.proposal = r.proposal
           /\ s.status = at /\ s.revision = r.revision /\ s.versions = r.versions /\ s.active = r.active
           /\ s.facts = r.facts /\ s.conflicts = r.conflicts /\ s.artifact = r.artifact
BY DEF Typed, ImportRecords

Decided(r, g, at) == [r EXCEPT !.facts = g, !.status = at]

LEMMA FactsAre ==
    ASSUME NEW r, Typed(r), NEW at \in Reviewable, NEW g \in FactMaps,
           NEW s, s = Decided(r, g, at)
    PROVE  /\ Typed(s) /\ s.adoption = r.adoption /\ s.proposal = r.proposal
           /\ s.status = at /\ s.revision = r.revision /\ s.versions = r.versions /\ s.active = r.active
           /\ s.facts = g /\ s.conflicts = r.conflicts /\ s.artifact = r.artifact
BY DEF Typed, ImportRecords, Reviewable, Decided

LEMMA ProjectIs ==
    ASSUME NEW r, Typed(r), NEW n \in Nat, r.versions[n] \in Recognitions, NEW s, s = Cv!Project(r, n)
    PROVE  /\ Typed(s) /\ s.adoption = r.adoption /\ s.proposal = r.proposal
           /\ s.status = r.status /\ s.revision = r.revision /\ s.versions = r.versions /\ s.active = n
           /\ Cv!Projects(s, r.versions[n])
BY DEF Typed, ImportRecords, Cv!Project, Cv!Projects, Recognitions

LEMMA VersionsAre ==
    ASSUME NEW r, Typed(r), NEW vs \in Seq(Recognitions), NEW s, s = [r EXCEPT !.versions = vs]
    PROVE  /\ Typed(s) /\ s.adoption = r.adoption /\ s.proposal = r.proposal
           /\ s.status = r.status /\ s.revision = r.revision /\ s.versions = vs /\ s.active = r.active
           /\ s.facts = r.facts /\ s.conflicts = r.conflicts /\ s.artifact = r.artifact
BY DEF Typed, ImportRecords

\* What is shown is put away in its version.
LEMMA SyncedIs ==
    ASSUME NEW r, Typed(r), Solid(r.versions), r.active \in 1 .. Len(r.versions),
           r.artifact = r.versions[r.active].artifact,
           Filled(r),
           DOMAIN r.versions[r.active].facts \subseteq DOMAIN r.facts,
           \A f \in DOMAIN r.versions[r.active].facts :
              r.facts[f] = "pending" => r.versions[r.active].facts[f] = "pending",
           NEW s, s = Cv!Synced(r)
    PROVE  /\ Typed(s) /\ Solid(s.versions) /\ Keeping(r.versions, s.versions)
           /\ Len(s.versions) = Len(r.versions) /\ Cv!Projects(s, s.versions[s.active])
           /\ s.adoption = r.adoption /\ s.proposal = r.proposal
           /\ s.status = r.status /\ s.revision = r.revision /\ s.active = r.active
           /\ s.facts = r.facts /\ s.conflicts = r.conflicts /\ s.artifact = r.artifact
<1>1. PICK k \in 1 .. Len(r.versions) : k = r.active
  OBVIOUS
<1>2. PICK v : v = r.versions[k]
  OBVIOUS
<1>3. v \in Recognitions
  BY <1>2, ElementOfSeq DEF Solid
<1>4. PICK w : w = [v EXCEPT !.facts = r.facts, !.conflicts = r.conflicts, !.artifact = r.artifact]
  OBVIOUS
<1>5. /\ w \in Recognitions /\ w.kind = v.kind /\ w.binding = v.binding /\ w.facts = r.facts
      /\ w.conflicts = r.conflicts /\ w.artifact = r.artifact
  BY <1>3, <1>4 DEF Typed, ImportRecords, Recognitions
<1>6. PICK ws : ws = [r.versions EXCEPT ![k] = w]
  OBVIOUS
<1>10. Filled(w)
  BY <1>5 DEF Filled
<1>7. Solid(ws) /\ Keeping(r.versions, ws) /\ Len(ws) = Len(r.versions) /\ ws[k] = w
  BY <1>1, <1>2, <1>5, <1>6, <1>10, Replaced
<1>8. ws \in Seq(Recognitions)
  BY <1>7 DEF Solid
<1>9. s = [r EXCEPT !.versions = ws]
  <2>1. r.versions[k] = v
    BY <1>2
  <2> QED
    BY <1>1, <1>2, <1>4, <1>6 DEF Cv!Synced, Typed, ImportRecords
<1> QED
  BY <1>1, <1>5, <1>7, <1>8, <1>9, VersionsAre DEF Cv!Projects

-----------------------------------------------------------------------------
(* The operations on an import *)

\* What an operation makes of a record that can be read.
Succeeds(r, s) == Whole(s) /\ Keeping(r.versions, s.versions)

LEMMA Shown ==
    ASSUME NEW r, Whole(r)
    PROVE  /\ r.versions[r.active] \in Recognitions /\ r.facts \in FactMaps
           /\ r.facts = r.versions[r.active].facts /\ r.conflicts = r.versions[r.active].conflicts
           /\ r.artifact = r.versions[r.active].artifact
           /\ Filled(r)
           /\ Len(r.versions) \in Nat
<1>1. r.versions[r.active] \in Recognitions /\ Complete(r.versions[r.active], r.active)
  BY ElementOfSeq DEF Whole, Solid
<1>2. Len(r.versions) \in Nat
  BY LenProperties DEF Whole, Solid
<1> QED
  BY <1>1, <1>2 DEF Whole, Cv!Projects, Complete, Filled, Recognitions

\* The facts on show are decided on.
LEMMA Decides ==
    ASSUME NEW r, Whole(r), NEW g \in FactMaps, NEW at \in Reviewable,
           DOMAIN r.facts \subseteq DOMAIN g, DOMAIN g \ {OwnFact} = DOMAIN r.facts \ {OwnFact},
           \A f \in DOMAIN r.facts : g[f] = "pending" => r.facts[f] = "pending",
           (at = "facts_pending") = Cv!Pending(g),
           NEW s, s = Cv!Synced(Cv!Unadopted([r EXCEPT !.facts = g, !.status = at]))
    PROVE  Succeeds(r, s)
<1>1. PICK x : x = Decided(r, g, at)
  OBVIOUS
<1>2. /\ Typed(x) /\ x.status = at /\ x.versions = r.versions /\ x.active = r.active
      /\ x.facts = g /\ x.artifact = r.artifact
  <2>1. Typed(r)
    BY DEF Whole
  <2> QED
    BY <1>1, <2>1, FactsAre
<1>3. PICK y : y = Cv!Unadopted(x)
  OBVIOUS
<1>4. /\ Typed(y) /\ y.status = at /\ y.versions = r.versions /\ y.active = r.active
      /\ y.facts = g /\ y.artifact = r.artifact /\ y.adoption = {} /\ y.proposal = {}
  BY <1>2, <1>3, UnadoptedIs
<1>5. s = Cv!Synced(y)
  BY <1>1, <1>3 DEF Decided
<1>6. /\ Solid(y.versions) /\ y.active \in 1 .. Len(y.versions)
      /\ y.artifact = y.versions[y.active].artifact
      /\ Filled(y)
      /\ DOMAIN y.versions[y.active].facts \subseteq DOMAIN y.facts
      /\ \A f \in DOMAIN y.versions[y.active].facts :
           y.facts[f] = "pending" => y.versions[y.active].facts[f] = "pending"
  BY <1>4, Shown DEF Whole, Filled
<1>7. /\ Typed(s) /\ Solid(s.versions) /\ Keeping(y.versions, s.versions)
      /\ Len(s.versions) = Len(y.versions) /\ Cv!Projects(s, s.versions[s.active])
      /\ s.adoption = y.adoption /\ s.proposal = y.proposal
      /\ s.status = y.status /\ s.active = y.active /\ s.facts = y.facts
  BY <1>4, <1>5, <1>6, SyncedIs
<1>8. AdoptionTrue(s)
  BY <1>4, <1>7 DEF AdoptionTrue, Reviewable
<1> QED
  BY <1>4, <1>6, <1>7, <1>8 DEF Succeeds, Whole

\* The facts of a run become a version, which is shown.
LEMMA Versioned ==
    ASSUME NEW r, Whole(r), Len(r.versions) < MaxRecognitions, NEW w \in Recognitions, NEW run \in AiRuns,
           w.kind = "ai", Serves(w, run), ~Cv!Bound(r, run), Cv!Pending(w.facts),
           Filled(w),
           NEW s, s = Cv!Unadopted([Cv!WithVersion(r, w) EXCEPT !.status = "facts_pending"])
    PROVE  Succeeds(r, s)
<1>1. PICK vs : vs = Append(r.versions, w)
  OBVIOUS
<1>2. PICK n : n = Len(r.versions) + 1
  OBVIOUS
<1>3. Solid(vs) /\ Keeping(r.versions, vs) /\ Len(vs) = n /\ vs[n] = w
  <2>3. Solid(r.versions) /\ Len(r.versions) < MaxRecognitions /\ w \in Recognitions /\ run \in AiRuns /\ w.kind = "ai"
        /\ Serves(w, run) /\ Filled(w)
    BY DEF Whole
  <2>1. Solid(r.versions)
    BY DEF Whole
  <2>4. Grows(r.versions, w, vs, n)
    BY <1>1, <1>2 DEF Grows
  <2>2. Unserved(r.versions, run)
    BY DEF Cv!Bound, Serves, Unserved
  <2> QED
    BY <2>2, <2>3, <2>4, Added
<1>4. n \in Nat /\ n \in 1 .. Len(vs)
  BY <1>2, <1>3, Shown
<1>5. PICK x : x = [r EXCEPT !.versions = vs]
  OBVIOUS
<1>6. Typed(x) /\ x.versions = vs
  BY <1>3, <1>5, VersionsAre DEF Whole, Solid
<1>7. PICK y : y = Cv!Project(x, n)
  OBVIOUS
<1>8. Typed(y) /\ y.versions = vs /\ y.active = n /\ Cv!Projects(y, w)
  BY <1>3, <1>4, <1>6, <1>7, ProjectIs
<1>9. PICK z : z = [y EXCEPT !.status = "facts_pending"]
  OBVIOUS
<1>10. Typed(z) /\ z.versions = vs /\ z.active = n /\ Cv!Projects(z, w) /\ z.status = "facts_pending"
  BY <1>8, <1>9, StatusIs DEF Cv!Projects
<1>11. s = Cv!Unadopted(z)
  <2>1. Cv!WithVersion(r, w) = y
    BY <1>1, <1>2, <1>5, <1>7 DEF Cv!WithVersion
  <2> QED
    BY <1>9, <2>1
<1>12. /\ Typed(s) /\ s.versions = vs /\ s.active = n /\ Cv!Projects(s, w)
       /\ s.status = "facts_pending" /\ s.adoption = {} /\ s.proposal = {}
  <2>1. /\ Typed(s) /\ s.versions = z.versions /\ s.active = z.active /\ s.status = z.status
        /\ s.adoption = {} /\ s.proposal = {}
        /\ s.facts = z.facts /\ s.conflicts = z.conflicts /\ s.artifact = z.artifact
    BY <1>10, <1>11, UnadoptedIs, Zenon
  <2> QED
    BY <1>10, <2>1 DEF Cv!Projects
<1>13. AdoptionTrue(s)
  <2>1. Cv!Pending(s.facts)
    BY <1>12 DEF Cv!Projects
  <2>2. (s.adoption # {}) = (s.status \in {"adopted", "proposal_ready"})
    BY <1>12
  <2>3. (s.status = "facts_pending") = Cv!Pending(s.facts)
    BY <1>12, <2>1 DEF Cv!Pending
  <2> QED
    BY <1>12, <2>2, <2>3 DEF AdoptionTrue
<1> QED
  BY <1>3, <1>4, <1>12, <1>13 DEF Succeeds, Whole

LEMMA Activates == \A r : Whole(r) => \A s \in Cv!Activations(r) : Succeeds(r, s)
<1> SUFFICES ASSUME NEW r, Whole(r), NEW s \in Cv!Activations(r) PROVE Succeeds(r, s)
  OBVIOUS
<1>1. PICK x : x = Cv!Synced(r)
  OBVIOUS
<1>2. /\ Typed(x) /\ Solid(x.versions) /\ Keeping(r.versions, x.versions)
      /\ Len(x.versions) = Len(r.versions)
  BY <1>1, Shown, SyncedIs DEF Whole
<1>3. PICK n \in 1 .. Len(r.versions) :
         s = Cv!Unadopted([Cv!Project(x, n) EXCEPT !.status = Cv!StatusFor(Cv!Project(x, n).facts)])
  BY <1>1 DEF Cv!Activations, Cv!When
<1>4. PICK v : v = x.versions[n]
  OBVIOUS
<1>5. v \in Recognitions /\ n \in Nat /\ n \in 1 .. Len(x.versions)
  BY <1>2, <1>4, ElementOfSeq, Shown DEF Solid
<1>6. PICK y : y = Cv!Project(x, n)
  OBVIOUS
<1>7. Typed(y) /\ y.versions = x.versions /\ y.active = n /\ Cv!Projects(y, v)
  BY <1>2, <1>4, <1>5, <1>6, ProjectIs
<1>8. PICK at \in Reviewable :
         at = Cv!StatusFor(y.facts) /\ (at = "facts_pending") = Cv!Pending(y.facts)
  BY DEF Cv!StatusFor, Cv!Pending, Reviewable
<1>9. PICK z : z = [y EXCEPT !.status = at]
  OBVIOUS
<1>10. Typed(z) /\ z.versions = x.versions /\ z.active = n /\ Cv!Projects(z, v) /\ z.status = at /\ z.facts = y.facts
  BY <1>7, <1>9, StatusIs DEF Cv!Projects, Reviewable
<1>11. s = Cv!Unadopted(z)
  BY <1>3, <1>6, <1>8, <1>9
<1>12. /\ Typed(s) /\ s.versions = x.versions /\ s.active = n /\ Cv!Projects(s, v)
       /\ s.status = at /\ s.facts = y.facts /\ s.adoption = {} /\ s.proposal = {}
  BY <1>10, <1>11, UnadoptedIs DEF Cv!Projects
<1>13. AdoptionTrue(s)
  BY <1>8, <1>12 DEF AdoptionTrue, Reviewable
<1> QED
  BY <1>2, <1>4, <1>5, <1>12, <1>13 DEF Succeeds, Whole

LEMMA Confirms == \A r : Whole(r) => \A s \in Cv!Confirmations(r) : Succeeds(r, s)
<1> SUFFICES ASSUME NEW r, Whole(r), NEW s \in Cv!Confirmations(r) PROVE Succeeds(r, s)
  OBVIOUS
<1>1. PICK g : g = [f \in DOMAIN r.facts |-> IF r.facts[f] = "pending" THEN "confirmed" ELSE r.facts[f]]
  OBVIOUS
<1>2. s = Cv!Synced(Cv!Unadopted([r EXCEPT !.facts = g, !.status = "facts_reviewed"]))
  BY <1>1 DEF Cv!Confirmations, Cv!When, Whole, Typed, ImportRecords
<1>3. r.facts \in [DOMAIN r.facts -> Cv!Decisions] /\ DOMAIN r.facts \in SUBSET Cv!Facts
  BY Shown, MapIs
<1>4. g \in FactMaps /\ DOMAIN g = DOMAIN r.facts /\ ~Cv!Pending(g)
  <2>1. g \in [DOMAIN r.facts -> Cv!Decisions] /\ DOMAIN g = DOMAIN r.facts
    BY <1>1, <1>3 DEF Cv!Decisions
  <2> QED
    BY <1>1, <1>3, <2>1, MapIs DEF Cv!Pending
<1>5. \A f \in DOMAIN r.facts : g[f] = "pending" => r.facts[f] = "pending"
  BY <1>1
<1>6. PICK at \in Reviewable : at = "facts_reviewed"
  BY DEF Reviewable
<1>7. s = Cv!Synced(Cv!Unadopted([r EXCEPT !.facts = g, !.status = at]))
  BY <1>2, <1>6
<1>8. (at = "facts_pending") = Cv!Pending(g)
  BY <1>4, <1>6 DEF Cv!Pending
<1> QED
  BY <1>4, <1>5, <1>7, <1>8, Decides

LEMMA IsReviewed == \A r : Whole(r) => \A s \in Cv!Reviews(r) : Succeeds(r, s)
<1> SUFFICES ASSUME NEW r, Whole(r), NEW s \in Cv!Reviews(r) PROVE Succeeds(r, s)
  OBVIOUS
<1>1. PICK g \in Cv!Decided(r.facts) :
         s = Cv!Synced(Cv!Unadopted([r EXCEPT !.facts = g, !.status = Cv!StatusFor(g)]))
  BY DEF Cv!Reviews, Cv!When
<1>2. r.facts \in [DOMAIN r.facts -> Cv!Decisions] /\ DOMAIN r.facts \in SUBSET Cv!Facts
  BY Shown, MapIs
<1>3. PICK D \in {DOMAIN r.facts, DOMAIN r.facts \cup {OwnFact}} : g \in [D -> Cv!Decisions]
  BY DEF Cv!Decided
<1>4. \A f \in DOMAIN g : g[f] = "pending" => f \notin DOMAIN r.facts \/ r.facts[f] = "pending"
  BY DEF Cv!Decided
<1>5. DOMAIN g = D /\ D \in SUBSET Cv!Facts
  BY <1>2, <1>3 DEF Cv!Facts
<1>6. g \in FactMaps
  BY <1>3, <1>5, MapIs
<1>7. PICK at \in Reviewable :
         at = Cv!StatusFor(g) /\ (at = "facts_pending") = Cv!Pending(g)
  BY DEF Cv!StatusFor, Cv!Pending, Reviewable
<1>8. s = Cv!Synced(Cv!Unadopted([r EXCEPT !.facts = g, !.status = at]))
  BY <1>1, <1>7
<1>9. /\ DOMAIN r.facts \subseteq DOMAIN g /\ DOMAIN g \ {OwnFact} = DOMAIN r.facts \ {OwnFact}
      /\ \A f \in DOMAIN r.facts : g[f] = "pending" => r.facts[f] = "pending"
  BY <1>3, <1>4, <1>5
<1> QED
  BY <1>6, <1>7, <1>8, <1>9, Decides

\* The version of a run, of facts that its artifact has.
LEMMA Offered ==
    ASSUME NEW r, Whole(r), Len(r.versions) < MaxRecognitions, NEW run \in AiRuns, ~Cv!Bound(r, run),
           NEW facts \in FactMaps, run \in DOMAIN facts, facts[run] = "pending",
           NEW conflicts \in BOOLEAN, NEW a \in Projections, a.facts = DOMAIN facts \ {OwnFact},
           NEW w, w = Cv!Version("ai", {run}, facts, conflicts, a),
           NEW s, s = Cv!Unadopted([Cv!WithVersion(r, w) EXCEPT !.status = "facts_pending"])
    PROVE  Succeeds(r, s)
<1>1. w \in Recognitions /\ w.kind = "ai" /\ w.facts = facts /\ w.artifact = a /\ w.binding = {run}
  BY DEF Cv!Version, Recognitions
<1>2. Serves(w, run) /\ Filled(w)
  BY <1>1 DEF Serves, Filled
<1>3. Cv!Pending(w.facts)
  BY <1>1 DEF Cv!Pending
<1> QED
  BY <1>1, <1>2, <1>3, Versioned

LEMMA ReturnedIs ==
    \A i \in Imports : \A a \in Cv!Returned(i) : a \in Projections
BY DEF Cv!Returned, Cv!Artifact, Projections

LEMMA Replaces ==
    \A r : Whole(r) => \A run \in AiRuns, i \in Imports :
        \A s \in Cv!AiVersions(r, run, Cv!Returned(i)) : Succeeds(r, s)
<1> SUFFICES ASSUME NEW r, Whole(r), NEW run \in AiRuns, NEW i \in Imports,
                    NEW s \in Cv!AiVersions(r, run, Cv!Returned(i))
             PROVE  Succeeds(r, s)
  OBVIOUS
<1>1. PICK F \in {{run}, {run, FileFact}} : s \in Cv!Offers(r, run, Cv!Returned(i), [f \in F |-> "pending"])
  BY DEF Cv!AiVersions, Cv!When
<1>2. PICK facts : facts = [f \in F |-> "pending"]
  OBVIOUS
<1>3. PICK conflicts \in BOOLEAN, a \in Cv!Returned(i) :
         /\ Cv!ReplacementAccepted(r.versions[1].artifact, a, F)
         /\ s = Cv!Unadopted([Cv!WithVersion(r, Cv!Version("ai", {run}, facts, conflicts, a))
                                EXCEPT !.status = "facts_pending"])
  <2>1. s \in Cv!Offers(r, run, Cv!Returned(i), facts) /\ DOMAIN facts = F
    BY <1>1, <1>2
  <2> QED
    BY <2>1 DEF Cv!Offers
<1>4. ~Cv!Bound(r, run) /\ Len(r.versions) < MaxRecognitions
  BY DEF Cv!AiVersions, Cv!When
<1>5. facts \in FactMaps /\ DOMAIN facts = F /\ run \in F /\ facts[run] = "pending"
  BY <1>2, MapIs DEF Cv!Decisions, Cv!Facts
<1>6. a \in Projections /\ a.facts = DOMAIN facts \ {OwnFact}
  <2>1. a.facts = F /\ OwnFact \notin F
    BY <1>3, <1>1, RecordsAssumption DEF Cv!ReplacementAccepted
  <2> QED
    BY <1>5, <2>1, ReturnedIs
<1>7. PICK w : w = Cv!Version("ai", {run}, facts, conflicts, a)
  OBVIOUS
<1>8. s = Cv!Unadopted([Cv!WithVersion(r, w) EXCEPT !.status = "facts_pending"])
  BY <1>3, <1>7
<1>9. run \in DOMAIN facts
  BY <1>5
<1> QED
  BY <1>5, <1>6, <1>7, <1>8, <1>9, <1>4, Offered

LEMMA Stages ==
    \A r : Whole(r) => \A run \in AiRuns, i \in Imports :
        \A s \in Cv!Stagings(r, run, Cv!Returned(i)) : Succeeds(r, s)
<1> SUFFICES ASSUME NEW r, Whole(r), NEW run \in AiRuns, NEW i \in Imports,
                    NEW s \in Cv!Stagings(r, run, Cv!Returned(i))
             PROVE  Succeeds(r, s)
  OBVIOUS
<1>1. PICK facts : facts = [f \in DOMAIN r.facts \cup {run} |-> IF f = run THEN "pending" ELSE r.facts[f]]
  OBVIOUS
<1>2. facts \in FactMaps /\ DOMAIN facts = DOMAIN r.facts \cup {run} /\ facts[run] = "pending"
  <2>1. r.facts \in [DOMAIN r.facts -> Cv!Decisions] /\ DOMAIN r.facts \in SUBSET Cv!Facts
    BY Shown, MapIs
  <2>2. facts \in [DOMAIN facts -> Cv!Decisions] /\ DOMAIN facts = DOMAIN r.facts \cup {run}
    BY <1>1, <2>1 DEF Cv!Decisions
  <2> QED
    BY <1>1, <2>1, <2>2, MapIs DEF Cv!Facts
<1>3. PICK a \in Cv!Returned(i) :
         /\ Cv!MergeAccepted(r.artifact, a, {run})
         /\ s = Cv!Unadopted([Cv!WithVersion(r, Cv!Version("ai", {run}, facts, r.conflicts, a))
                                EXCEPT !.status = "facts_pending"])
         /\ ~Cv!Bound(r, run) /\ Len(r.versions) < MaxRecognitions
  BY <1>1 DEF Cv!Stagings, Cv!When
<1>4. a \in Projections /\ a.facts = DOMAIN facts \ {OwnFact}
  <2>1. a.facts = r.artifact.facts \cup {run} /\ run # OwnFact
    BY <1>3, RecordsAssumption DEF Cv!MergeAccepted
  <2> QED
    BY <1>2, <2>1, Shown, ReturnedIs DEF Filled
<1>5. PICK conflicts \in BOOLEAN : conflicts = r.conflicts
  BY DEF Whole, Typed, ImportRecords
<1>6. PICK w : w = Cv!Version("ai", {run}, facts, conflicts, a)
  OBVIOUS
<1>7. s = Cv!Unadopted([Cv!WithVersion(r, w) EXCEPT !.status = "facts_pending"])
  BY <1>3, <1>5, <1>6
<1>8. run \in DOMAIN facts
  BY <1>2
<1> QED
  BY <1>2, <1>3, <1>4, <1>6, <1>7, <1>8, Offered

\* The versions stay as they are.
LEMMA SameVersions ==
    ASSUME NEW r, Whole(r), NEW s, Typed(s), AdoptionTrue(s), s.versions = r.versions, s.active = r.active,
           s.facts = r.facts, s.conflicts = r.conflicts, s.artifact = r.artifact
    PROVE  Succeeds(r, s)
BY KeepsItself DEF Succeeds, Whole, Cv!Projects

LEMMA Themes == \A r : Whole(r) => \A s \in Cv!Themings(r) : Succeeds(r, s)
<1> SUFFICES ASSUME NEW r, Whole(r), NEW s \in Cv!Themings(r) PROVE Succeeds(r, s)
  OBVIOUS
<1>1. s = [r EXCEPT !.proposal = {}]
  BY DEF Cv!Themings
<1>2. /\ Typed(s) /\ s.versions = r.versions /\ s.active = r.active /\ s.status = r.status
      /\ s.facts = r.facts /\ s.conflicts = r.conflicts /\ s.artifact = r.artifact
      /\ s.adoption = r.adoption /\ s.proposal = {}
  BY <1>1 DEF Whole, Typed, ImportRecords
<1>3. AdoptionTrue(s)
  BY <1>2 DEF Whole, AdoptionTrue
<1> QED
  BY <1>2, <1>3, SameVersions

LEMMA Adopts ==
    ASSUME NEW r, Whole(r), Cv!Adoptable(r), NEW claims, NEW t, NEW s, s = Cv!Adopted(r, claims, t)
    PROVE  Succeeds(r, s)
<1>1. PICK a : a = [active |-> r.active, version |-> Cv!Active(r), profile |-> claims, transaction |-> t]
  OBVIOUS
<1>2. s = [r EXCEPT !.status = "adopted", !.proposal = {}, !.adoption = {a}]
  BY <1>1 DEF Cv!Adopted
<1>3. /\ Typed(s) /\ s.versions = r.versions /\ s.active = r.active /\ s.status = "adopted"
      /\ s.facts = r.facts /\ s.conflicts = r.conflicts /\ s.artifact = r.artifact
      /\ s.adoption = {a} /\ s.proposal = {}
  BY <1>2 DEF Whole, Typed, ImportRecords
<1>4. a.active = r.active /\ a.version = r.versions[r.active]
  BY <1>1 DEF Cv!Active
<1>5. AdoptionTrue(s)
  <2>1. (s.adoption # {}) = (s.status \in {"adopted", "proposal_ready"})
    BY <1>3
  <2>2. (s.status = "facts_pending") = Cv!Pending(s.facts)
    BY <1>3 DEF Cv!Adoptable, Cv!Pending
  <2>3. \A x \in s.adoption : /\ x.active = s.active /\ x.version = s.versions[s.active]
                              /\ ~s.conflicts /\ Cv!Confirmed(s.facts) # {}
    BY <1>3, <1>4 DEF Cv!Adoptable
  <2> QED
    BY <1>3, <2>1, <2>2, <2>3 DEF AdoptionTrue
<1> QED
  BY <1>3, <1>5, SameVersions

LEMMA Withdraws ==
    ASSUME NEW r, Whole(r), NEW s, s = Cv!Withdrawn(r)
    PROVE  Succeeds(r, s)
<1>1. PICK at \in Reviewable : at = IF r.status = "facts_pending" THEN "facts_pending" ELSE "facts_reviewed"
  BY DEF Reviewable
<1>2. PICK x : x = [r EXCEPT !.status = at]
  OBVIOUS
<1>3. s = Cv!Unadopted(x)
  BY <1>1, <1>2 DEF Cv!Withdrawn, Whole, Typed, ImportRecords
<1>4. /\ Typed(x) /\ x.versions = r.versions /\ x.active = r.active /\ x.status = at
      /\ x.facts = r.facts /\ x.conflicts = r.conflicts /\ x.artifact = r.artifact
  BY <1>2, StatusIs DEF Whole, Reviewable
<1>5. /\ Typed(s) /\ s.versions = r.versions /\ s.active = r.active /\ s.status = at
      /\ s.facts = r.facts /\ s.conflicts = r.conflicts /\ s.artifact = r.artifact
      /\ s.adoption = {} /\ s.proposal = {}
  BY <1>3, <1>4, UnadoptedIs
<1>6. (at = "facts_pending") = Cv!Pending(r.facts)
  BY <1>1 DEF Whole, AdoptionTrue
<1>7. AdoptionTrue(s)
  BY <1>5, <1>6 DEF AdoptionTrue, Reviewable
<1> QED
  BY <1>5, <1>7, SameVersions

LEMMA Renders == \A r : Whole(r) => \A s \in Cv!Renderings(r) : Succeeds(r, s)
<1> SUFFICES ASSUME NEW r, Whole(r), NEW s \in Cv!Renderings(r) PROVE Succeeds(r, s)
  OBVIOUS
<1>1. PICK a \in r.adoption :
         /\ r.status \in {"adopted", "proposal_ready"} /\ a.version = Cv!Active(r)
         /\ s = [r EXCEPT !.status = "proposal_ready",
                          !.proposal = {[profile |-> a.profile, version |-> Cv!Active(r)]}]
  BY DEF Cv!Renderings
<1>2. PICK p : p = [profile |-> a.profile, version |-> Cv!Active(r)]
  OBVIOUS
<1>3. s = [r EXCEPT !.status = "proposal_ready", !.proposal = {p}]
  BY <1>1, <1>2
<1>4. /\ Typed(s) /\ s.versions = r.versions /\ s.active = r.active /\ s.status = "proposal_ready"
      /\ s.facts = r.facts /\ s.conflicts = r.conflicts /\ s.artifact = r.artifact
      /\ s.adoption = r.adoption /\ s.proposal = {p}
  BY <1>3 DEF Whole, Typed, ImportRecords
<1>5. p.profile = a.profile /\ p.version = a.version
  BY <1>1, <1>2
<1>6. AdoptionTrue(r)
  BY DEF Whole
<1>7. AdoptionTrue(s)
  BY <1>1, <1>4, <1>5, <1>6 DEF AdoptionTrue
<1> QED
  BY <1>4, <1>7, SameVersions

\* A file that was recognised for the first time.
LEMMA ImportedIs ==
    \A i \in Imports, conflicts \in BOOLEAN :
        Whole(Cv!Imported(i, conflicts)) /\ Cv!ClaimsOf(i, Cv!Imported(i, conflicts).facts) = {}
<1> SUFFICES ASSUME NEW i \in Imports, NEW conflicts \in BOOLEAN
             PROVE  Whole(Cv!Imported(i, conflicts)) /\ Cv!ClaimsOf(i, Cv!Imported(i, conflicts).facts) = {}
  OBVIOUS
<1>1. PICK facts : facts = [f \in {FileFact} |-> "pending"]
  OBVIOUS
<1>2. /\ facts = [f \in {FileFact} |-> "pending"]
      /\ facts \in FactMaps /\ DOMAIN facts = {FileFact} /\ facts[FileFact] = "pending"
  <2>1. facts = [f \in {FileFact} |-> "pending"]
    BY <1>1
  <2> QED
    BY <2>1, MapIs DEF Cv!Decisions, Cv!Facts
<1>3. PICK a : a = Cv!Artifact(i, {FileFact})
  OBVIOUS
<1>4. a \in Projections /\ a.facts = {FileFact}
  BY <1>3 DEF Cv!Artifact, Projections, Cv!Facts
<1>5. PICK v : v = Cv!Version("deterministic", {}, facts, conflicts, a)
  OBVIOUS
<1>6. /\ v \in Recognitions /\ v.kind = "deterministic" /\ v.binding = {} /\ v.facts = facts
      /\ v.conflicts = conflicts /\ v.artifact = a
  BY <1>2, <1>4, <1>5 DEF Cv!Version, Recognitions
<1>7. PICK r : r = Cv!Imported(i, conflicts)
  OBVIOUS
<1>8. r = [status |-> "facts_pending", revision |-> 1, versions |-> <<v>>, active |-> 1,
           facts |-> facts, conflicts |-> conflicts, artifact |-> a, adoption |-> {}, proposal |-> {}]
  BY <1>1, <1>3, <1>5, <1>6, <1>7 DEF Cv!Imported
<1>9. PICK vs : vs = <<v>>
  OBVIOUS
<1>10. vs \in Seq(Recognitions) /\ Len(vs) = 1 /\ vs[1] = v
  BY <1>6, <1>9
<1>11. /\ r.status = "facts_pending" /\ r.revision = 1 /\ r.versions = vs /\ r.active = 1 /\ r.facts = facts
       /\ r.conflicts = conflicts /\ r.artifact = a /\ r.adoption = {} /\ r.proposal = {} /\ Typed(r)
  BY <1>2, <1>4, <1>6, <1>8, <1>9, <1>10 DEF Typed, ImportRecords
<1>12. Filled(v)
  BY <1>2, <1>4, <1>6, RecordsAssumption DEF Filled
<1>13. Solid(vs)
  BY <1>6, <1>10, <1>12, RecordsAssumption DEF Solid, Complete
<1>14. Cv!Pending(facts) /\ Cv!Confirmed(facts) = {}
  BY <1>2 DEF Cv!Pending, Cv!Confirmed
<1>15. AdoptionTrue(r)
  <2>1. (r.adoption # {}) = (r.status \in {"adopted", "proposal_ready"})
    BY <1>11
  <2>2. (r.status = "facts_pending") = Cv!Pending(r.facts)
    BY <1>11, <1>14 DEF Cv!Pending
  <2> QED
    BY <1>11, <2>1, <2>2 DEF AdoptionTrue
<1>16. Whole(r)
  <2>1. r.active \in 1 .. Len(r.versions) /\ r.versions[r.active] = v
    <3>1. r.active = 1 /\ r.versions = vs
      BY <1>11
    <3>2. Len(vs) = 1 /\ vs[1] = v /\ 1 \in 1 .. 1
      BY <1>10
    <3> QED
      BY <3>1, <3>2
  <2>2. Cv!Projects(r, r.versions[r.active])
    BY <1>6, <1>11, <2>1 DEF Cv!Projects
  <2> QED
    BY <1>11, <1>13, <1>15, <2>1, <2>2 DEF Whole
<1> QED
  BY <1>7, <1>11, <1>14, <1>16 DEF Cv!ClaimsOf

-----------------------------------------------------------------------------
(* The calls that overlap on an import *)

\* What the handler of a client has in its hands.
InHands(h) ==
    \/ h.phase = "idle"
    \/ /\ h.phase = "save" /\ h.import \in Imports /\ Whole(h.old)
       /\ h.new = Cv!Deleted \/ Succeeds(h.old, h.new)
    \/ /\ h.phase = "adopt" /\ h.import \in Imports /\ Whole(h.old) /\ Cv!Adoptable(h.old)
       /\ Cv!ClaimsOf(h.import, h.old.facts) \subseteq confirmed
    \/ h.phase = "revoke" /\ h.import \in Imports /\ Whole(h.old)
    \/ h.phase = "restore" /\ h.import \in Imports /\ Whole(h.old) /\ h.given \subseteq confirmed

StoredOk(i) ==
    \/ store[i] = Cv!Absent \/ store[i] = Cv!Deleted
    \/ Whole(store[i]) /\ Cv!ClaimsOf(i, store[i].facts) \subseteq confirmed

CvInv ==
    /\ store = [i \in Imports |-> store[i]] /\ handler = [c \in Sessions |-> handler[c]]
    /\ \A i \in Imports : StoredOk(i)
    /\ \A c \in Sessions : InHands(handler[c])
    /\ profile \subseteq confirmed /\ \A s \in snapshots : s \subseteq confirmed

LEMMA WholeIs ==
    \A r : Whole(r) => r.revision \in Nat /\ r.revision > 0 /\ r # Cv!Absent /\ r # Cv!Deleted
BY DEF Whole, Typed, ImportRecords, Cv!Absent, Cv!Deleted

LEMMA CvInit == Cv!Init => CvInv
BY DEF Cv!Init, CvInv, StoredOk, InHands, Cv!Idle

\* What is there can be read.
LEMMA PresentIs ==
    ASSUME CvInv, NEW i \in Imports, Cv!Present(i)
    PROVE  Whole(store[i]) /\ Cv!ClaimsOf(i, store[i].facts) \subseteq confirmed
BY DEF CvInv, StoredOk, Cv!Present, Cv!Absent, Cv!Deleted

LEMMA OneClient ==
    ASSUME CvInv, UNCHANGED <<store, confirmed>>, profile' \subseteq confirmed,
           \A s \in snapshots' : s \subseteq confirmed,
           NEW c \in Sessions, NEW h, InHands(h), handler' = [handler EXCEPT ![c] = h]
    PROVE  CvInv'
<1>1. handler' = [q \in Sessions |-> handler'[q]] /\ \A q \in Sessions : handler'[q] = IF q = c THEN h ELSE handler[q]
  BY DEF CvInv
<1>2. \A q \in Sessions : InHands(handler'[q])
  BY <1>1 DEF CvInv
<1>3. \A q \in Sessions : InHands(handler[q])'
  BY <1>2 DEF InHands
<1>4. \A i \in Imports : StoredOk(i)'
  BY DEF CvInv, StoredOk
<1> QED
  BY <1>1, <1>3, <1>4 DEF CvInv

LEMMA Prepared ==
    ASSUME CvInv, NEW c \in Sessions, NEW i \in Imports, Cv!Present(i), NEW S, Cv!Prepares(c, i, S),
           \A s \in S : s = Cv!Deleted \/ Succeeds(store[i], s)
    PROVE  CvInv'
<1>1. PICK new \in S : handler' = [handler EXCEPT ![c] = Cv!ToSave(i, store[i], new)]
  BY DEF Cv!Prepares
<1>2. PICK h : h = Cv!ToSave(i, store[i], new)
  OBVIOUS
<1>3. InHands(h)
  BY <1>2, PresentIs DEF InHands, Cv!ToSave
<1>4. handler' = [handler EXCEPT ![c] = h]
  BY <1>1, <1>2
<1>5. UNCHANGED <<store, confirmed, profile, snapshots>>
  BY DEF Cv!Prepares, Cv!profileVars
<1> QED
  BY <1>3, <1>4, <1>5, OneClient DEF CvInv

LEMMA RecordSteps ==
    ASSUME CvInv, NEW c \in Sessions, NEW i \in Imports, Cv!RecordStep(c, i)
    PROVE  CvInv'
<1>1. Cv!Present(i)
  BY DEF Cv!RecordStep, Cv!ActivateRecognitionVersion, Cv!ConfirmActiveRecognitionVersion, Cv!Review,
     Cv!SetTheme, Cv!Delete, Cv!RenderApproved, Cv!CreateAiRecognitionVersion, Cv!StageAiStructure, Cv!Reads
<1>2. Whole(store[i])
  BY <1>1, PresentIs
<1>3. PICK S : /\ Cv!Prepares(c, i, S)
               /\ \/ S = Cv!Activations(store[i]) \/ S = Cv!Confirmations(store[i]) \/ S = Cv!Reviews(store[i])
                  \/ S = Cv!Themings(store[i]) \/ S = Cv!Renderings(store[i]) \/ S = {Cv!Deleted}
                  \/ \E run \in AiRuns : \/ S = Cv!AiVersions(store[i], run, Cv!Returned(i))
                                         \/ S = Cv!Stagings(store[i], run, Cv!Returned(i))
  BY DEF Cv!RecordStep, Cv!ActivateRecognitionVersion, Cv!ConfirmActiveRecognitionVersion, Cv!Review,
     Cv!SetTheme, Cv!Delete, Cv!RenderApproved, Cv!CreateAiRecognitionVersion, Cv!StageAiStructure
<1>4. \A s \in S : s = Cv!Deleted \/ Succeeds(store[i], s)
  BY <1>2, <1>3, Activates, Confirms, IsReviewed, Themes, Renders, Replaces, Stages
<1> QED
  BY <1>1, <1>3, <1>4, Prepared

LEMMA Waits ==
    ASSUME CvInv, NEW c \in Sessions, NEW i \in Imports,
           Cv!Adopt(c, i) \/ Cv!RevokeAdoption(c, i) \/ Cv!RestoreProfileSnapshot(c, i)
    PROVE  CvInv'
<1>1. PICK at, given :
         /\ Cv!Awaits(c, i, at, given) /\ Cv!Present(i)
         /\ \/ at = "adopt" /\ Cv!Adoptable(store[i])
            \/ at = "revoke"
            \/ at = "restore" /\ given \in snapshots
  BY DEF Cv!Adopt, Cv!RevokeAdoption, Cv!RestoreProfileSnapshot, Cv!Reads
<1>2. PICK h : h = [phase |-> at, import |-> i, old |-> store[i], given |-> given]
  OBVIOUS
<1>3. h.phase = at /\ h.import = i /\ h.old = store[i] /\ h.given = given
  BY <1>2
<1>4. InHands(h)
  BY <1>1, <1>3, PresentIs DEF InHands, CvInv
<1>5. handler' = [handler EXCEPT ![c] = h] /\ UNCHANGED <<store, confirmed, profile, snapshots>>
  BY <1>1, <1>2 DEF Cv!Awaits, Cv!profileVars
<1> QED
  BY <1>4, <1>5, OneClient DEF CvInv

\* The profile is written, and the handler may hear of it.
LEMMA Written ==
    ASSUME CvInv, NEW c \in Sessions, NEW old, old = handler[c].old, Whole(old), handler[c].import \in Imports,
           NEW claims, claims \subseteq confirmed, profile' = claims,
           snapshots' = snapshots \/ snapshots' = snapshots \cup {profile},
           NEW new, Succeeds(old, new), Cv!Answers(c, new)
    PROVE  CvInv'
<1>1. PICK i \in Imports : i = handler[c].import
  OBVIOUS
<1>2. PICK h : /\ handler' = [handler EXCEPT ![c] = h]
               /\ h = Cv!ToSave(i, old, new) \/ h = Cv!Idle
  BY <1>1 DEF Cv!Answers, CvInv
<1>3. InHands(h)
  BY <1>2 DEF InHands, Cv!ToSave, Cv!Idle
<1>4. UNCHANGED <<store, confirmed>> /\ \A s \in snapshots' : s \subseteq confirmed
  BY DEF Cv!Answers, CvInv
<1> QED
  BY <1>2, <1>3, <1>4, OneClient

LEMMA Adapts ==
    ASSUME CvInv, NEW c \in Sessions,
           Cv!AdoptOnce(c) \/ Cv!RevokeAdoptionOnce(c) \/ Cv!RestoreProfileSnapshotOnce(c)
    PROVE  CvInv'
<1>1. PICK old : old = handler[c].old
  OBVIOUS
<1>2. CASE Cv!AdoptOnce(c)
  <2>1. /\ handler[c].phase = "adopt" /\ InHands(handler[c])
    BY <1>2 DEF Cv!AdoptOnce, CvInv
  <2>2. /\ Whole(old) /\ Cv!Adoptable(old) /\ handler[c].import \in Imports
        /\ Cv!ClaimsOf(handler[c].import, old.facts) \subseteq confirmed
    BY <1>1, <2>1 DEF InHands
  <2>3. PICK claims, t :
           /\ claims \subseteq confirmed /\ profile' = claims
           /\ snapshots' = snapshots \/ snapshots' = snapshots \cup {profile}
           /\ Cv!Answers(c, Cv!Adopted(old, claims, t))
    <3>1. PICK claims : claims = Cv!ClaimsOf(handler[c].import, old.facts)
      OBVIOUS
    <3>2. \/ /\ Cv!Writes(profile \cup claims)
             /\ \E t : Cv!Answers(c, Cv!Adopted(old, profile \cup claims, t))
          \/ UNCHANGED <<profile, snapshots>> /\ Cv!Answers(c, Cv!Adopted(old, profile, {}))
      BY <1>1, <1>2, <3>1 DEF Cv!AdoptOnce, Cv!profileVars
    <3> QED
      BY <2>2, <3>1, <3>2 DEF Cv!Writes, CvInv
  <2>4. PICK new : new = Cv!Adopted(old, claims, t)
    OBVIOUS
  <2>5. Succeeds(old, new)
    BY <2>2, <2>4, Adopts
  <2> QED
    BY <1>1, <2>2, <2>3, <2>4, <2>5, Written
<1>3. CASE Cv!RevokeAdoptionOnce(c) \/ Cv!RestoreProfileSnapshotOnce(c)
  <2>1. /\ handler[c].phase \in {"revoke", "restore"} /\ InHands(handler[c])
        /\ Cv!Answers(c, Cv!Withdrawn(old))
        /\ \/ Cv!Writes(profile \ handler[c].given.claims)
           \/ handler[c].phase = "restore" /\ Cv!Writes(handler[c].given)
    BY <1>1, <1>3 DEF Cv!RevokeAdoptionOnce, Cv!RestoreProfileSnapshotOnce, CvInv
  <2>2. /\ Whole(old) /\ handler[c].import \in Imports
        /\ handler[c].phase = "restore" => handler[c].given \subseteq confirmed
    BY <1>1, <2>1 DEF InHands
  <2>3. PICK claims :
           /\ claims \subseteq confirmed /\ profile' = claims
           /\ snapshots' = snapshots \/ snapshots' = snapshots \cup {profile}
    BY <2>1, <2>2 DEF Cv!Writes, CvInv
  <2>4. PICK new : new = Cv!Withdrawn(old)
    OBVIOUS
  <2>5. Succeeds(old, new)
    BY <2>2, <2>4, Withdraws
  <2> QED
    BY <1>1, <2>1, <2>2, <2>3, <2>4, <2>5, Written
<1> QED
  BY <1>2, <1>3

LEMMA Recorded ==
    ASSUME CvInv, NEW i \in Imports, NEW r, store' = [store EXCEPT ![i] = r],
           confirmed \subseteq confirmed', UNCHANGED <<profile, snapshots>>,
           r = Cv!Deleted \/ (Whole(r) /\ Cv!ClaimsOf(i, r.facts) \subseteq confirmed'),
           handler' = [c \in Sessions |-> handler'[c]],
           \A c \in Sessions : handler'[c] = handler[c] \/ handler'[c] = Cv!Idle
    PROVE  CvInv'
<1>1. store' = [q \in Imports |-> store'[q]] /\ \A q \in Imports : store'[q] = IF q = i THEN r ELSE store[q]
  BY DEF CvInv
<1>2. \A q \in Imports : StoredOk(q)'
  BY <1>1 DEF CvInv, StoredOk
<1>3. \A c \in Sessions : InHands(handler[c])'
  BY DEF CvInv, InHands, Cv!Idle
<1>4. profile' \subseteq confirmed' /\ \A s \in snapshots' : s \subseteq confirmed'
  BY DEF CvInv
<1> QED
  BY <1>1, <1>2, <1>3, <1>4 DEF CvInv

LEMMA ImportsFile ==
    ASSUME CvInv, NEW i \in Imports, Cv!Import(i)
    PROVE  CvInv'
<1>1. PICK conflicts \in BOOLEAN : store' = [store EXCEPT ![i] = Cv!Imported(i, conflicts)]
  BY DEF Cv!Import
<1>2. PICK r : r = Cv!Imported(i, conflicts)
  OBVIOUS
<1>3. Whole(r) /\ Cv!ClaimsOf(i, r.facts) \subseteq confirmed
  BY <1>2, ImportedIs
<1>4. UNCHANGED <<profile, snapshots, handler, confirmed>> /\ store' = [store EXCEPT ![i] = r]
  BY <1>1, <1>2 DEF Cv!Import, Cv!profileVars
<1>5. handler' = [c \in Sessions |-> handler'[c]]
  BY <1>4 DEF CvInv
<1> QED
  BY <1>3, <1>4, <1>5, Recorded

\* What is saved is the successor with the next revision.
LEMMA Revised ==
    ASSUME NEW n, Whole(n), NEW k \in Nat, k > 0, NEW r, r = [n EXCEPT !.revision = k]
    PROVE  Whole(r) /\ r.versions = n.versions /\ r.facts = n.facts
<1>1. k \in Nat \ {0} /\ Typed(n)
  BY DEF Whole
<1>2. /\ Typed(r) /\ r.adoption = n.adoption /\ r.proposal = n.proposal
      /\ r.status = n.status /\ r.versions = n.versions /\ r.active = n.active
      /\ r.facts = n.facts /\ r.conflicts = n.conflicts /\ r.artifact = n.artifact
  BY <1>1 DEF Typed, ImportRecords
<1>3. AdoptionTrue(r)
  BY <1>2 DEF AdoptionTrue, Whole
<1> QED
  BY <1>2, <1>3 DEF Whole, Cv!Projects

LEMMA SavedIs ==
    ASSUME CvInv, NEW c \in Sessions, Cv!Save(c)
    PROVE  \E i \in Imports : \E r :
              /\ i = handler[c].import /\ store' = [store EXCEPT ![i] = r]
              /\ \/ r = Cv!Deleted
                 \/ /\ Whole(store[i]) /\ Succeeds(store[i], r)
                    /\ Cv!ClaimsOf(i, r.facts) \subseteq confirmed'
<1>1. InHands(handler[c]) /\ handler[c].phase = "save" /\ store[handler[c].import] = handler[c].old
  BY DEF Cv!Save, Cv!Unchanged, CvInv
<1>2. PICK i \in Imports : i = handler[c].import
  BY <1>1 DEF InHands
<1>3. PICK old, new : old = handler[c].old /\ new = handler[c].new
  OBVIOUS
<1>4. Whole(old) /\ store[i] = old /\ (new = Cv!Deleted \/ Succeeds(old, new))
  BY <1>1, <1>2, <1>3 DEF InHands
<1>5. PICK r : r = Cv!Successor(old, new)
  OBVIOUS
<1>6. store' = [store EXCEPT ![i] = r]
  BY <1>2, <1>3, <1>5 DEF Cv!Save
<1>7. CASE new = Cv!Deleted
  BY <1>2, <1>5, <1>6, <1>7 DEF Cv!Successor
<1>8. CASE new # Cv!Deleted
  <2>1. PICK k : k = old.revision + 1
    OBVIOUS
  <2>2. k \in Nat /\ k > 0
    BY <1>4, <2>1, WholeIs
  <2>3. r = [new EXCEPT !.revision = k]
    BY <1>5, <1>8, <2>1 DEF Cv!Successor
  <2>4. Whole(new) /\ Keeping(old.versions, new.versions)
    BY <1>4, <1>8 DEF Succeeds
  <2>5. Whole(r) /\ r.versions = new.versions /\ r.facts = new.facts
    BY <2>2, <2>3, <2>4, Revised
  <2>6. confirmed' = confirmed \cup {Cv!Claim(i, f) : f \in Cv!Confirmed(new.facts)}
    BY <1>2, <1>3, <1>8 DEF Cv!Save
  <2>7. Cv!ClaimsOf(i, r.facts) \subseteq confirmed'
    BY <2>5, <2>6 DEF Cv!ClaimsOf
  <2>8. Succeeds(store[i], r)
    BY <1>4, <2>4, <2>5 DEF Succeeds
  <2> QED
    BY <1>2, <1>4, <1>6, <2>7, <2>8
<1> QED
  BY <1>7, <1>8

LEMMA Saves ==
    ASSUME CvInv, NEW c \in Sessions, Cv!Save(c)
    PROVE  CvInv'
<1>1. PICK i \in Imports : i = handler[c].import
  BY SavedIs
<1>5. PICK r : r = store'[i]
  OBVIOUS
<1>2. /\ store' = [store EXCEPT ![i] = r]
      /\ \/ r = Cv!Deleted
         \/ Whole(r) /\ Cv!ClaimsOf(i, r.facts) \subseteq confirmed'
  <2>1. \E s : /\ store' = [store EXCEPT ![i] = s]
               /\ s = Cv!Deleted \/ (Succeeds(store[i], s) /\ Cv!ClaimsOf(i, s.facts) \subseteq confirmed')
    BY <1>1, SavedIs
  <2>2. PICK s : /\ store' = [store EXCEPT ![i] = s]
                 /\ s = Cv!Deleted \/ (Succeeds(store[i], s) /\ Cv!ClaimsOf(i, s.facts) \subseteq confirmed')
    BY <2>1
  <2>3. s = r
    BY <1>1, <1>5, <2>2 DEF CvInv
  <2> QED
    BY <2>2, <2>3 DEF Succeeds
<1>3. handler' = [handler EXCEPT ![c] = Cv!Idle] /\ UNCHANGED <<profile, snapshots>> /\ confirmed \subseteq confirmed'
  BY DEF Cv!Save, Cv!profileVars
<1>4. /\ handler' = [q \in Sessions |-> handler'[q]]
      /\ \A q \in Sessions : handler'[q] = handler[q] \/ handler'[q] = Cv!Idle
  BY <1>3 DEF CvInv
<1> QED
  BY <1>2, <1>3, <1>4, Recorded

LEMMA CvStep == CvInv /\ Cv!Next => CvInv'
<1> SUFFICES ASSUME CvInv, Cv!Next PROVE CvInv'
  OBVIOUS
<1>1. ASSUME NEW i \in Imports, Cv!Import(i) PROVE CvInv'
  BY <1>1, ImportsFile
<1>2. ASSUME NEW c \in Sessions, NEW i \in Imports, Cv!RecordStep(c, i) PROVE CvInv'
  BY <1>2, RecordSteps
<1>3. ASSUME NEW c \in Sessions, Cv!ProfileStep(c) PROVE CvInv'
  BY <1>3, Waits, Adapts DEF Cv!ProfileStep
<1>4. ASSUME NEW c \in Sessions, Cv!Save(c) PROVE CvInv'
  BY <1>4, Saves
<1>5. ASSUME NEW c \in Sessions, Cv!Fails(c) PROVE CvInv'
  <2>1. PICK h : h = Cv!Idle
    OBVIOUS
  <2>2. handler' = [handler EXCEPT ![c] = h] /\ UNCHANGED <<store, confirmed, profile, snapshots>>
    BY <1>5, <2>1 DEF Cv!Fails, Cv!profileVars
  <2>3. InHands(h)
    BY <2>1 DEF InHands, Cv!Idle
  <2> QED
    BY <2>2, <2>3, OneClient DEF CvInv
<1> QED
  BY <1>1, <1>2, <1>3, <1>4, <1>5 DEF Cv!Next

LEMMA CvRest == CvInv /\ UNCHANGED importVars => CvInv'
<1> SUFFICES ASSUME CvInv, UNCHANGED importVars PROVE CvInv'
  OBVIOUS
<1>1. UNCHANGED <<store, profile, snapshots, handler, confirmed>>
  BY DEF importVars
<1>2. \A i \in Imports : StoredOk(i)'
  BY <1>1 DEF CvInv, StoredOk
<1>3. \A c \in Sessions : InHands(handler[c])'
  BY <1>1 DEF CvInv, InHands
<1> QED
  BY <1>1, <1>2, <1>3 DEF CvInv

-----------------------------------------------------------------------------
(* What the records of the imports say, and that decisions stay *)

LEMMA CvSays == CvInv => Cv!SuccessorsLoad /\ Cv!AdoptionStands /\ Cv!OnlyConfirmedClaims
<1> SUFFICES ASSUME CvInv PROVE Cv!SuccessorsLoad /\ Cv!AdoptionStands /\ Cv!OnlyConfirmedClaims
  OBVIOUS
<1>1. ASSUME NEW c \in Sessions, handler[c].phase = "save", handler[c].new # Cv!Deleted
      PROVE  /\ Cv!Loads(handler[c].new)
             /\ \A n \in DOMAIN handler[c].new.versions :
                   DOMAIN handler[c].new.versions[n].facts \ {OwnFact} = handler[c].new.versions[n].artifact.facts
  <2>1. PICK new : new = handler[c].new
    OBVIOUS
  <2>2. Whole(new)
    BY <1>1, <2>1 DEF CvInv, InHands, Succeeds
  <2>3. DOMAIN new.versions = 1 .. Len(new.versions)
    BY <2>2, LenProperties DEF Whole, Solid
  <2>4. \A n \in DOMAIN new.versions : DOMAIN new.versions[n].facts \ {OwnFact} = new.versions[n].artifact.facts
    BY <2>2, <2>3 DEF Whole, Solid, Complete, Filled
  <2> QED
    BY <2>1, <2>2, <2>4, WholeLoads
<1>2. ASSUME NEW i \in Imports, Cv!Present(i)
      PROVE  /\ (store[i].adoption # {}) = (store[i].status \in {"adopted", "proposal_ready"})
             /\ (store[i].status = "facts_pending") = Cv!Pending(store[i].facts)
             /\ \A a \in store[i].adoption :
                 /\ a.active = store[i].active /\ a.version = Cv!Active(store[i])
                 /\ ~store[i].conflicts /\ Cv!Confirmed(store[i].facts) # {}
             /\ \A p \in store[i].proposal : \E a \in store[i].adoption :
                 store[i].status = "proposal_ready" /\ p.profile = a.profile /\ p.version = a.version
  <2>1. AdoptionTrue(store[i])
    BY <1>2, PresentIs DEF Whole
  <2> QED
    BY <2>1 DEF AdoptionTrue, Cv!Active
<1> QED
  BY <1>1, <1>2 DEF Cv!SuccessorsLoad, Cv!AdoptionStands, Cv!OnlyConfirmedClaims, CvInv

VersionsKept(i) ==
    Cv!Present(i) /\ store'[i].revision > 0 =>
        /\ Len(store'[i].versions) >= Len(store[i].versions)
        /\ \A n \in DOMAIN store[i].versions :
            LET old == store[i].versions[n] new == store'[i].versions[n]
            IN  /\ new.binding = old.binding /\ new.artifact = old.artifact
                /\ DOMAIN old.facts \subseteq DOMAIN new.facts
                /\ \A f \in DOMAIN old.facts :
                    new.facts[f] = "pending" => old.facts[f] = "pending"

LEMMA VersionsStay ==
    ASSUME CvInv, NEW i \in Imports, Cv!Present(i) => Keeping(store[i].versions, store'[i].versions) \/ store'[i] = Cv!Deleted
    PROVE  VersionsKept(i)
<1> SUFFICES ASSUME Cv!Present(i), store'[i].revision > 0 PROVE VersionsKept(i)
  BY DEF VersionsKept
<1>1. Keeping(store[i].versions, store'[i].versions)
  BY DEF Cv!Deleted
<1>2. DOMAIN store[i].versions = 1 .. Len(store[i].versions)
  BY PresentIs, LenProperties DEF Whole, Solid
<1> QED
  BY <1>1, <1>2 DEF VersionsKept, Keeping

LEMMA CvKeeps == CvInv /\ (Cv!Next \/ UNCHANGED importVars) => \A i \in Imports : VersionsKept(i)
<1> SUFFICES ASSUME CvInv, Cv!Next \/ UNCHANGED importVars, NEW i \in Imports PROVE VersionsKept(i)
  OBVIOUS
<1>1. ASSUME Cv!Present(i), store'[i] = store[i] PROVE Keeping(store[i].versions, store'[i].versions)
  BY <1>1, PresentIs, KeepsItself DEF Whole
<1>2. ASSUME NEW q \in Imports, Cv!Import(q) PROVE VersionsKept(i)
  <2>1. Cv!Present(i) => store'[i] = store[i]
    BY <1>2 DEF Cv!Import, Cv!Present, Cv!Absent, CvInv
  <2> QED
    BY <1>1, <2>1, VersionsStay
<1>3. ASSUME NEW c \in Sessions, Cv!Save(c) PROVE VersionsKept(i)
  <2>1. PICK q \in Imports : q = handler[c].import
    BY <1>3, SavedIs
  <2>2. PICK r : /\ store' = [store EXCEPT ![q] = r]
                 /\ r = Cv!Deleted \/ Succeeds(store[q], r)
    BY <1>3, <2>1, SavedIs
  <2>3. \/ store'[i] = store[i] \/ store'[i] = Cv!Deleted \/ Succeeds(store[i], store'[i])
    BY <2>2 DEF CvInv
  <2> QED
    BY <1>1, <2>3, VersionsStay DEF Succeeds
<1>4. ASSUME store' = store PROVE VersionsKept(i)
  BY <1>1, <1>4, VersionsStay
<1>5. ASSUME NEW c \in Sessions, NEW q \in Imports, Cv!RecordStep(c, q) PROVE VersionsKept(i)
  BY <1>4, <1>5 DEF Cv!RecordStep, Cv!ActivateRecognitionVersion, Cv!ConfirmActiveRecognitionVersion, Cv!Review,
     Cv!SetTheme, Cv!Delete, Cv!RenderApproved, Cv!CreateAiRecognitionVersion, Cv!StageAiStructure, Cv!Prepares
<1>6. ASSUME NEW c \in Sessions, Cv!ProfileStep(c) PROVE VersionsKept(i)
  BY <1>4, <1>6 DEF Cv!ProfileStep, Cv!Adopt, Cv!RevokeAdoption, Cv!RestoreProfileSnapshot, Cv!Awaits,
     Cv!AdoptOnce, Cv!RevokeAdoptionOnce, Cv!RestoreProfileSnapshotOnce, Cv!Answers
<1>7. ASSUME NEW c \in Sessions, Cv!Fails(c) PROVE VersionsKept(i)
  BY <1>4, <1>7 DEF Cv!Fails
<1> QED
  BY <1>2, <1>3, <1>4, <1>5, <1>6, <1>7 DEF Cv!Next, importVars

-----------------------------------------------------------------------------
(* All parts together: one moves, the others stay *)

StoresNext == [MCNext]_allVars

LEMMA SearchMoves == StoresNext => [Search!Next]_searchVars
BY Zenon DEF StoresNext, MCNext, allVars

LEMMA ImportsMove == StoresNext => Cv!Next \/ UNCHANGED importVars
BY Zenon DEF StoresNext, MCNext, allVars

LEMMA StructuringMoves == StoresNext => Ai!Next \/ UNCHANGED aiVars
BY Zenon DEF StoresNext, MCNext, allVars

LEMMA FilesMove == StoresNext => Kept!Next \/ UNCHANGED fileVars
BY Zenon DEF StoresNext, MCNext, allVars

\* What the user made of a job is changed by an order of the user for that job, by the clearing
\* of the whole list or by the cut of a full one, and by nothing else; what comes into the list
\* comes by a fold that found it, unmarked: whatever searches, adoptions, plans and stops of the
\* server overlap (job-inventory.ts, workspace-store.ts).
THEOREM MarksStayHolds == MCSpec => MarksStay
<1>1. MCInit => ListInv
  BY ListInit, Zenon DEF MCInit
<1>2. ListInv /\ StoresNext => ListInv'
  BY SearchMoves, ListStep, Zenon
<1>3. ListInv /\ StoresNext =>
        [\A j \in Postings :
           /\ Search!Is(inventory[j]) =>
                Search!SameMarks(j) \/ Search!Ordered(j) \/ Search!Cleared
                  \/ \E q \in net : Search!Folds(q) /\ Search!CutOff(j, q)
           /\ ~Search!Is(inventory[j]) /\ Search!Is(inventory'[j]) =>
                \E q \in net : Search!Folds(q) /\ j \in q.got.jobs
                               /\ inventory'[j] = Search!NewEntry(j, Search!At(q))]_(Search!vars)
  BY SearchMoves, ListStep, Zenon
<1> QED
  BY <1>1, <1>2, <1>3, PTL DEF MCSpec, StoresNext, MarksStay, Search!MarksKept

RecordsInv == CvInv /\ AiInv /\ FilesInv

LEMMA RecordsInit == MCInit => RecordsInv
BY CvInit, AiInit, FilesInit, Zenon DEF MCInit, RecordsInv

LEMMA RecordsStep == RecordsInv /\ StoresNext => RecordsInv'
<1> SUFFICES ASSUME RecordsInv, StoresNext PROVE RecordsInv'
  OBVIOUS
<1>1. CvInv'
  BY ImportsMove, CvStep, CvRest, Zenon DEF RecordsInv
<1>2. AiInv'
  BY StructuringMoves, AiStep, AiRest, Zenon DEF RecordsInv
<1>3. FilesInv'
  BY FilesMove, FilesStep, FilesRest, Zenon DEF RecordsInv
<1> QED
  BY <1>1, <1>2, <1>3 DEF RecordsInv

\* Whatever calls overlap and whatever fails between their steps, every successor of an import
\* can be read again, an adoption stands for the confirmed version on show, the profile holds
\* confirmed claims only; an applied run has its facts in the import, a deleted import has left
\* nothing, every end can be saved; and a record of a content has its content (cv-imports.ts,
\* cv-ai-structuring.ts, artifact-store.ts).
THEOREM RecordsTellTheTruthHolds == MCSpec => []RecordsTellTheTruth
<1>1. RecordsInv => RecordsTellTheTruth
  <2>1. FilesInv => Kept!ContentOfRecords
    BY DEF FilesInv
  <2> QED
    BY <2>1, CvSays, AiSays, Zenon DEF RecordsInv, RecordsTellTheTruth
<1> QED
  BY <1>1, RecordsInit, RecordsStep, PTL DEF MCSpec, StoresNext

\* No decision on a fact returns to pending and no version is lost, a run that is over stays
\* over; the record of what an application has used is there, or the store has yet to write it
\* again or to put it back, unless the server stops between its rename and its writing; what is
\* held is kept, and a run goes after everything of it, whatever refreshes, sweeps and deletions
\* overlap (cv-imports.ts, cv-ai-structuring.ts, artifact-store.ts, retention.ts).
THEOREM DecisionsStayHolds == MCSpec => DecisionsStay
<1>1. RecordsInv /\ StoresNext =>
        [\A i \in Imports : Cv!Present(i) /\ store'[i].revision > 0 /\ store'[i] # store[i] =>
           /\ Len(store'[i].versions) >= Len(store[i].versions)
           /\ \A n \in DOMAIN store[i].versions :
               LET old == store[i].versions[n] new == store'[i].versions[n]
               IN  /\ new.binding = old.binding /\ new.artifact = old.artifact
                   /\ DOMAIN old.facts \subseteq DOMAIN new.facts
                   /\ \A f \in DOMAIN old.facts :
                       new.facts[f] = "pending" => old.facts[f] = "pending"]_(Cv!vars)
  BY ImportsMove, CvKeeps DEF RecordsInv, VersionsKept
<1>2. RecordsInv /\ StoresNext =>
        [\A r \in AiRuns :
           record[r].status \in {"applied", "failed", "cancelled"} =>
             record'[r] \in {record[r], Ai!Absent}]_(Ai!vars)
  BY StructuringMoves, AiKeeps DEF RecordsInv, StaysOver, Over
<1>3. RecordsInv /\ StoresNext =>
        [\A a \in Artifacts :
           Kept!Remembered(a) /\ ~torn' => Kept!Remembered(a)' \/ Kept!StopsHalfway(a)]_(Kept!vars)
  BY FilesMove, FilesKeep DEF RecordsInv
<1>4. RecordsInv /\ StoresNext =>
        [\A s \in Sweeps : "holds" \in DOMAIN sweeps[s] =>
           LET on == Kept!On(sweeps[s].holds \cap Kept!Active) IN
           /\ files.at = "records" /\ files.by = s =>
                \A a \in Artifacts : on \cap {a, Owner[a], CaseOf[Owner[a]]} # {} =>
                  /\ records'[a] = records[a]
                  /\ Kept!Available(a) /\ Blob[a] \in blobs => Blob[a] \in blobs'
           /\ sweeps'[s] # sweeps[s] =>
                \A r \in sweeps[s].runs : on \cap {r, CaseOf[r]} # {} =>
                  (r \in ended => r \in ended') /\ (r \in logs => r \in logs')]_(Kept!vars)
  BY FilesMove, FilesKeep DEF RecordsInv
<1>5. RecordsInv /\ StoresNext =>
        [\A s \in Sweeps : Kept!Is(s, "logs") /\ ended' # ended /\ sweeps'[s] # sweeps[s] =>
           /\ sweeps[s].runs \cap logs = {}
           /\ \A a \in Kept!Chosen(s) : ~Kept!Available(a)]_(Kept!vars)
  BY FilesMove, FilesKeep DEF RecordsInv
<1>6. MCSpec => Cv!DecisionsSurvive
  BY <1>1, RecordsInit, RecordsStep, PTL DEF MCSpec, StoresNext, Cv!DecisionsSurvive
<1>7. MCSpec => Ai!OverStaysOver
  BY <1>2, RecordsInit, RecordsStep, PTL DEF MCSpec, StoresNext, Ai!OverStaysOver
<1>8. MCSpec => Kept!UsedIsRemembered
  BY <1>3, RecordsInit, RecordsStep, PTL DEF MCSpec, StoresNext, Kept!UsedIsRemembered
<1>9. MCSpec => Kept!HeldIsKept
  BY <1>4, RecordsInit, RecordsStep, PTL DEF MCSpec, StoresNext, Kept!HeldIsKept
<1>10. MCSpec => Kept!RunGoesLast
  BY <1>5, RecordsInit, RecordsStep, PTL DEF MCSpec, StoresNext, Kept!RunGoesLast
<1> QED
  BY <1>6, <1>7, <1>8, <1>9, <1>10, PTL DEF DecisionsStay

=============================================================================
