---------------------- MODULE AgentRunLifecycle_proofs ----------------------
(***************************************************************************)
(* Proofs about AgentRunLifecycle for any number of cancel and input calls,*)
(* crashes, restarts and failing writes: type correctness; that the        *)
(* snapshot is never ahead of the log and at most one event behind it;     *)
(* that a run which is over does not change; that two verdicts in the log  *)
(* never disagree; and that the log alone gives the state of a run that is *)
(* over and at rest.                                                       *)
(***************************************************************************)
EXTENDS AgentRunLifecycle, TLAPS

\* While the last line waits for the snapshot it is one ahead, and its emit is
\* still the first of the chain.
WritingLeads == writing => emits # <<>> /\ Len(log) = snap.seq + 1

\* Before the run is created nothing knows it.
Untouched ==
    enqueue = "new" =>
        /\ snap = Absent /\ log = <<>> /\ emits = <<>> /\ ~writing
        /\ execute.pc = "none" /\ provider.pc = "none"
        /\ \A c \in Cancellers : cancel[c].pc = "idle"
        /\ \A i \in Inputs : input[i] = "idle"

\* Three conjuncts of TypeOK, by name.
CancelType ==
    cancel \in [Cancellers ->
                  [pc : {"idle", "cancelled", "cancelling", "completing", "done"},
                   copy : Snapshots]]
InputType == input \in [Inputs -> {"idle", "events", "sent", "receipt", "done"}]
ServerType == server \in [up : BOOLEAN, crashes : Nat, restarts : Nat, failures : Nat]

JournalInv == TypeOK /\ LogLeads /\ WritingLeads /\ Untouched

-----------------------------------------------------------------------------
(* Lemmas about the helpers *)

\* The events the calls emit are events, and an event leads to a state.
LEMMA EventTypes ==
    /\ \A kind \in {"run_created", "capabilities_negotiated", "process_started",
                    "user_input_requested", "user_input_received", "error", "warning"} :
            Event(kind) \in Events
    /\ \A s \in Terminal : Completed(s) \in Events
    /\ \A s : Aborted(s) \in Terminal
    /\ \A s \in AgentStates \cup {"absent"}, e \in Events :
            StateAfterEvent(s, e) \in AgentStates \cup {"absent"}
<1>1. \A kind \in {"run_created", "capabilities_negotiated", "process_started",
                    "user_input_requested", "user_input_received", "error", "warning"} :
            Event(kind) \in Events
  BY DEF Event, Events
<1>2. \A s \in Terminal : Completed(s) \in Events
  BY DEF Completed, Events
<1>3. \A s : Aborted(s) \in Terminal
  BY DEF Aborted, Terminal
<1>4. ASSUME NEW s \in AgentStates \cup {"absent"}, NEW e \in Events
      PROVE  StateAfterEvent(s, e) \in AgentStates \cup {"absent"}
  <2>1. e.kind = "run_completed" => e.state \in Terminal
    BY DEF Events
  <2> QED
    BY <2>1 DEF StateAfterEvent, AgentStates, Waiting
<1> QED
  BY <1>1, <1>2, <1>3, <1>4

\* emit() and the settling of the first emit keep the chain and the replies typed.
LEMMA ChainTypes ==
    ASSUME emits \in Seq(Emits), reply \in [Callers -> {"none", "ok", "failed"}]
    PROVE  /\ \A c \in Callers, e \in Events :
                Emit(c, e) => /\ emits' \in Seq(Emits)
                              /\ reply' \in [Callers -> {"none", "ok", "failed"}]
           /\ \A r \in {"ok", "failed"} :
                emits # <<>> /\ Settle(r) =>
                    /\ emits' \in Seq(Emits)
                    /\ reply' \in [Callers -> {"none", "ok", "failed"}]
<1>1. ASSUME NEW c \in Callers, NEW e \in Events, Emit(c, e)
      PROVE  /\ emits' \in Seq(Emits)
             /\ reply' \in [Callers -> {"none", "ok", "failed"}]
  <2>1. [by |-> c, event |-> e, seq |-> 0] \in Emits
    BY DEF Emits
  <2> QED
    BY <1>1, <2>1 DEF Emit
<1>2. ASSUME NEW r \in {"ok", "failed"}, emits # <<>>, Settle(r)
      PROVE  /\ emits' \in Seq(Emits)
             /\ reply' \in [Callers -> {"none", "ok", "failed"}]
  <2>1. Head(emits) \in Emits /\ Tail(emits) \in Seq(Emits)
    BY <1>2
  <2>2. Head(emits).by \in Callers
    BY <2>1 DEF Emits
  <2>3. emits' = Tail(emits)
    BY <1>2 DEF Settle
  <2>4. reply' = [reply EXCEPT ![Head(emits).by] = r]
    BY <1>2 DEF Settle
  <2> QED
    BY <2>1, <2>2, <2>3, <2>4
<1> QED
  BY <1>1, <1>2

\* The local states stay typed under the updates the actions make of them.
LEMMA LocalTypes ==
    ASSUME TypeOK
    PROVE  /\ \A pc \in ExecutePCs :
                /\ ExecuteAt(pc) => execute' \in [pc : ExecutePCs, copy : Snapshots]
                /\ ExecuteWith(pc) => execute' \in [pc : ExecutePCs, copy : Snapshots]
           /\ \A pc \in ProviderPCs :
                ProviderAt(pc) => provider' \in [pc : ProviderPCs, outcome : Terminal,
                                                 told : BOOLEAN, asked : BOOLEAN, reports : BOOLEAN]
           /\ Told \in [pc : ProviderPCs, outcome : Terminal,
                        told : BOOLEAN, asked : BOOLEAN, reports : BOOLEAN]
           /\ \A c \in Cancellers,
                 pc \in {"idle", "cancelled", "cancelling", "completing", "done"} :
                /\ cancel' = [cancel EXCEPT ![c].pc = pc] => CancelType'
                /\ cancel' = [cancel EXCEPT ![c] = [pc |-> pc, copy |-> snap]] => CancelType'
           /\ \A i \in Inputs, pc \in {"idle", "events", "sent", "receipt", "done"} :
                input' = [input EXCEPT ![i] = pc] => InputType'
           /\ Fails => ServerType'
           /\ Dies => ServerType'
<1>1. ASSUME NEW pc \in ExecutePCs
      PROVE  /\ ExecuteAt(pc) => execute' \in [pc : ExecutePCs, copy : Snapshots]
             /\ ExecuteWith(pc) => execute' \in [pc : ExecutePCs, copy : Snapshots]
  BY DEF TypeOK, ExecuteAt, ExecuteWith
<1>2. ASSUME NEW pc \in ProviderPCs
      PROVE  ProviderAt(pc) => provider' \in [pc : ProviderPCs, outcome : Terminal,
                                              told : BOOLEAN, asked : BOOLEAN, reports : BOOLEAN]
  BY DEF TypeOK, ProviderAt
<1>3. Told \in [pc : ProviderPCs, outcome : Terminal,
                told : BOOLEAN, asked : BOOLEAN, reports : BOOLEAN]
  BY DEF TypeOK, Told
<1>4. ASSUME NEW c \in Cancellers,
             NEW pc \in {"idle", "cancelled", "cancelling", "completing", "done"}
      PROVE  /\ cancel' = [cancel EXCEPT ![c].pc = pc] => CancelType'
             /\ cancel' = [cancel EXCEPT ![c] = [pc |-> pc, copy |-> snap]] => CancelType'
  <2> DEFINE R == [pc : {"idle", "cancelled", "cancelling", "completing", "done"},
                   copy : Snapshots]
  <2>1. cancel \in [Cancellers -> R] /\ snap \in Snapshots
    BY DEF TypeOK
  <2>2. [cancel[c] EXCEPT !.pc = pc] \in R
    BY <2>1
  <2>3. [pc |-> pc, copy |-> snap] \in R
    BY <2>1
  <2>4. cancel' = [cancel EXCEPT ![c].pc = pc] => cancel' \in [Cancellers -> R]
    <3> HIDE DEF R
    <3> QED
      BY <2>1, <2>2
  <2>5. cancel' = [cancel EXCEPT ![c] = [pc |-> pc, copy |-> snap]]
            => cancel' \in [Cancellers -> R]
    <3> HIDE DEF R
    <3> QED
      BY <2>1, <2>3
  <2> QED
    BY <2>4, <2>5 DEF CancelType
<1>5. ASSUME NEW i \in Inputs, NEW pc \in {"idle", "events", "sent", "receipt", "done"}
      PROVE  input' = [input EXCEPT ![i] = pc] => InputType'
  BY DEF TypeOK, InputType
<1>6. /\ Fails => ServerType'
      /\ Dies => ServerType'
  <2>1. server \in [up : BOOLEAN, crashes : Nat, restarts : Nat, failures : Nat]
    BY DEF TypeOK
  <2>2. Fails => ServerType'
    BY <2>1 DEF Fails, ServerType
  <2>3. Dies => ServerType'
    <3>1. [server EXCEPT !.up = FALSE]
            \in [up : BOOLEAN, crashes : Nat, restarts : Nat, failures : Nat]
      BY <2>1, Zenon
    <3> QED
      BY <3>1, Zenon DEF Dies, ServerType
  <2> QED
    BY <2>2, <2>3
<1> QED
  BY <1>1, <1>2, <1>3, <1>4, <1>5, <1>6

\* What the store accepts of a typed copy is typed.
LEMMA UpdateTypes ==
    ASSUME snap \in Snapshots, NEW copy \in Snapshots,
           NEW to \in AgentStates \cup {"absent"}
    PROVE  Update(copy, to) => snap' \in Snapshots
  BY DEF Update, Snapshots

-----------------------------------------------------------------------------
(* Every step keeps the types *)

LEMMA StoreTypes ==
    ASSUME TypeOK, WritingLeads, LogLeads, Store
    PROVE  TypeOK'
<1>1. emits \in Seq(Emits) /\ reply \in [Callers -> {"none", "ok", "failed"}]
  BY DEF TypeOK
<1>2. \A r \in {"ok", "failed"} :
        emits # <<>> /\ Settle(r) =>
            /\ emits' \in Seq(Emits)
            /\ reply' \in [Callers -> {"none", "ok", "failed"}]
  BY <1>1, ChainTypes
<1>3. CASE EmitRead
  <2>1. emits # <<>> /\ emits[1] \in Emits
    BY <1>1, <1>3 DEF EmitRead
  <2>2. snap.seq + 1 \in Nat
    BY DEF TypeOK, Snapshots
  <2>3. [emits EXCEPT ![1].seq = snap.seq + 1] \in Seq(Emits)
    <3>1. [emits[1] EXCEPT !.seq = snap.seq + 1] \in Emits
      BY <2>1, <2>2 DEF Emits
    <3>2. [emits EXCEPT ![1] = [emits[1] EXCEPT !.seq = snap.seq + 1]] \in Seq(Emits)
      BY <1>1, <2>1, <3>1
    <3> QED
      BY <3>2
  <2>4. /\ emits' \in Seq(Emits)
        /\ reply' \in [Callers -> {"none", "ok", "failed"}]
    BY <1>1, <1>2, <1>3, <2>1, <2>3 DEF EmitRead
  <2> QED
    BY <1>3, <2>4 DEF EmitRead, TypeOK, disk, calls
<1>4. CASE EmitAppend
  <2>1. emits # <<>> /\ Head(emits) \in Emits
    BY <1>1, <1>4 DEF EmitAppend
  <2>2. [event |-> Head(emits).event, seq |-> Head(emits).seq] \in Entries
    BY <2>1 DEF Emits, Entries
  <2>3. log' \in Seq(Entries) /\ writing' \in BOOLEAN
    <3>1. log \in Seq(Entries)
      BY DEF TypeOK
    <3>2. Append(log, [event |-> Head(emits).event, seq |-> Head(emits).seq]) \in Seq(Entries)
      BY <2>2, <3>1
    <3>3. log' \in Seq(Entries)
      BY <1>4, <3>1, <3>2 DEF EmitAppend
    <3>4. writing' \in BOOLEAN
      BY <1>4, Zenon DEF EmitAppend, TypeOK
    <3> QED
      BY <3>3, <3>4
  <2>4. /\ emits' \in Seq(Emits)
        /\ reply' \in [Callers -> {"none", "ok", "failed"}]
    BY <1>1, <1>2, <1>4, <2>1 DEF EmitAppend
  <2> QED
    BY <1>4, <2>3, <2>4 DEF EmitAppend, TypeOK, calls
<1>5. CASE WriteSnapshot
  <2>1. emits # <<>> /\ Len(log) = snap.seq + 1
    BY <1>5 DEF WriteSnapshot, WritingLeads
  <2>2. log[Len(log)] \in Entries
    BY <2>1 DEF TypeOK, Snapshots
  <2>3. /\ log[Len(log)].event \in Events
        /\ log[Len(log)].seq \in Nat
    BY <2>2 DEF Entries
  <2>4. StateAfterEvent(snap.state, log[Len(log)].event) \in AgentStates \cup {"absent"}
    BY <2>3, EventTypes DEF TypeOK, Snapshots
  <2>5. snap' \in Snapshots
    BY <1>5, <2>3, <2>4 DEF WriteSnapshot, TypeOK, Snapshots
  <2>6. /\ emits' \in Seq(Emits)
        /\ reply' \in [Callers -> {"none", "ok", "failed"}]
    BY <1>2, <1>5, <2>1 DEF WriteSnapshot
  <2> QED
    BY <1>5, <2>5, <2>6 DEF WriteSnapshot, TypeOK, calls
<1>6. CASE WriteSnapshotFails
  <2>1. emits # <<>>
    BY <1>6 DEF WriteSnapshotFails, WritingLeads
  <2>2. /\ emits' \in Seq(Emits)
        /\ reply' \in [Callers -> {"none", "ok", "failed"}]
    BY <1>2, <1>6, <2>1 DEF WriteSnapshotFails
  <2>3. ServerType'
    BY <1>6, LocalTypes DEF WriteSnapshotFails
  <2> QED
    BY <1>6, <2>2, <2>3 DEF WriteSnapshotFails, TypeOK, disk, calls, ServerType
<1> QED
  BY <1>3, <1>4, <1>5, <1>6 DEF Store

\* The parts of TypeOK that execute() changes.
ExecuteTypeOK ==
    /\ snap \in Snapshots
    /\ execute \in [pc : ExecutePCs, copy : Snapshots]
    /\ emits \in Seq(Emits)
    /\ reply \in [Callers -> {"none", "ok", "failed"}]
    /\ ServerType

\* What execute() leaves alone.
LEMMA ExecuteKeeps ==
    ASSUME Execute
    PROVE  /\ UNCHANGED <<log, writing, provider, cancel, input, inFlight>>
           /\ enqueue' \in {enqueue, "gone"}
           /\ active' \in {active, TRUE, FALSE}
<1>1. CASE ExecuteStart \/ ExecuteNegotiates \/ ExecuteEnds \/ ExecuteAborts
  BY <1>1 DEF ExecuteStart, ExecuteNegotiates, ExecuteEnds, ExecuteAborts, ExecuteUpdate
<1>2. CASE ExecuteRead \/ ExecuteWarned \/ ExecuteDiscovers \/ ExecuteActivates
  BY <1>2 DEF ExecuteRead, ExecuteWarned, ExecuteDiscovers, ExecuteActivates, disk
<1>3. CASE ExecuteSettles \/ ExecuteCatches \/ ExecuteReports \/ ExecuteCompletes \/ ExecuteFinally
  BY <1>3 DEF ExecuteSettles, ExecuteCatches, ExecuteReports, ExecuteCompletes,
              ExecuteFinally, disk
<1> QED
  BY <1>1, <1>2, <1>3 DEF Execute

LEMMA ExecuteTypes ==
    ASSUME TypeOK, Execute
    PROVE  TypeOK'
<1>1. ExecuteTypeOK
  BY DEF TypeOK, ExecuteTypeOK, ServerType
<1>2. \A c \in Callers, e \in Events :
        Emit(c, e) => /\ emits' \in Seq(Emits)
                      /\ reply' \in [Callers -> {"none", "ok", "failed"}]
  BY ChainTypes DEF TypeOK
<1>3. "execute" \in Callers
  BY DEF Callers
<1>4. \A e \in Events :
        Emit("execute", e) => /\ emits' \in Seq(Emits)
                              /\ reply' \in [Callers -> {"none", "ok", "failed"}]
  BY <1>2, <1>3
<1>5. \A pc \in ExecutePCs :
        /\ ExecuteAt(pc) => execute' \in [pc : ExecutePCs, copy : Snapshots]
        /\ ExecuteWith(pc) => execute' \in [pc : ExecutePCs, copy : Snapshots]
  BY LocalTypes
<1>6. execute.copy \in Snapshots /\ execute.copy.state \in AgentStates \cup {"absent"}
  BY DEF TypeOK, Snapshots
<1>7. provider.outcome \in Terminal /\ Terminal \subseteq AgentStates
  BY DEF TypeOK, AgentStates
<1>8. \A to \in AgentStates \cup {"absent"} : Update(execute.copy, to) => snap' \in Snapshots
  BY <1>6, UpdateTypes DEF TypeOK
<1>9. /\ Event("warning") \in Events /\ Event("error") \in Events
      /\ Event("capabilities_negotiated") \in Events
      /\ \A x : Completed(Aborted(x)) \in Events
      /\ \A x : Aborted(x) \in Terminal
  BY EventTypes
<1>10. Fails => ServerType'
  BY LocalTypes
<1>11. Dies => ServerType'
  BY LocalTypes
<1>12. ASSUME NEW to, NEW pc \in ExecutePCs, Transition(to, pc)
       PROVE  /\ execute' \in [pc : ExecutePCs, copy : Snapshots]
              /\ emits' \in Seq(Emits)
              /\ reply' \in [Callers -> {"none", "ok", "failed"}]
  <2>1. CASE CanTransition(snap.state, to)
    BY <1>1, <1>5, <1>12, <2>1, Zenon DEF Transition, ExecuteTypeOK
  <2>2. CASE ~CanTransition(snap.state, to)
    <3>1. "warned" \in ExecutePCs
      BY DEF ExecutePCs
    <3> QED
      BY <1>4, <1>5, <1>9, <1>12, <2>2, <3>1, Zenon DEF Transition
  <2> QED
    BY <2>1, <2>2
<1>13. ExecuteTypeOK'
  <2> USE <1>1 DEF ExecutePCs
  <2>1. CASE ExecuteRead
    BY <2>1, <1>12 DEF ExecuteRead, ExecuteTypeOK, ServerType, disk
  <2>2. CASE ExecuteWarned
    BY <2>2, <1>5 DEF ExecuteWarned, ExecuteTypeOK, ServerType, disk
  <2>3. CASE ExecuteStart
    <3>1. "starting" \in AgentStates
      BY DEF AgentStates
    <3> QED
      BY <2>3, <3>1, <1>5, <1>8, <1>10 DEF ExecuteStart, ExecuteUpdate, ExecuteTypeOK, ServerType
  <2>4. CASE ExecuteDiscovers
    BY <2>4, <1>5 DEF ExecuteDiscovers, ExecuteTypeOK, ServerType, disk
  <2>5. CASE ExecuteNegotiates
    BY <2>5, <1>4, <1>5, <1>6, <1>8, <1>9, <1>10
       DEF ExecuteNegotiates, ExecuteUpdate, ExecuteTypeOK, ServerType
  <2>6. CASE ExecuteActivates
    BY <2>6, <1>5 DEF ExecuteActivates, ExecuteTypeOK, ServerType, disk
  <2>7. CASE ExecuteSettles
    BY <2>7, <1>5, <1>12 DEF ExecuteSettles, ExecuteTypeOK, ServerType, disk
  <2>8. CASE ExecuteEnds
    BY <2>8, <1>5, <1>7, <1>8, <1>10 DEF ExecuteEnds, ExecuteUpdate, ExecuteTypeOK, ServerType
  <2>9. CASE ExecuteCatches
    BY <2>9, <1>5 DEF ExecuteCatches, ExecuteTypeOK, ServerType, disk
  <2>10. CASE ExecuteAborts
    BY <2>10, <1>4, <1>5, <1>7, <1>8, <1>9, <1>10
       DEF ExecuteAborts, ExecuteUpdate, ExecuteTypeOK, ServerType
  <2>11. CASE ExecuteReports
    BY <2>11, <1>4, <1>5, <1>9 DEF ExecuteReports, ExecuteTypeOK, ServerType, disk
  <2>12. CASE ExecuteCompletes
    BY <2>12, <1>5 DEF ExecuteCompletes, ExecuteTypeOK, ServerType, disk
  <2>13. CASE ExecuteFinally
    BY <2>13, <1>5, <1>11 DEF ExecuteFinally, ExecuteTypeOK, ServerType, disk
  <2> QED
    BY <2>1, <2>2, <2>3, <2>4, <2>5, <2>6, <2>7, <2>8, <2>9, <2>10, <2>11, <2>12, <2>13
       DEF Execute
<1> QED
  BY <1>13, ExecuteKeeps DEF TypeOK, ExecuteTypeOK, ServerType

LEMMA ProviderTypes ==
    ASSUME TypeOK, Provider
    PROVE  TypeOK'
<1> DEFINE P == [pc : ProviderPCs, outcome : Terminal, told : BOOLEAN,
                 asked : BOOLEAN, reports : BOOLEAN]
<1>1. \A e \in Events :
        Emit("provider", e) => /\ emits' \in Seq(Emits)
                               /\ reply' \in [Callers -> {"none", "ok", "failed"}]
  <2>1. "provider" \in Callers
    BY DEF Callers
  <2> QED
    BY <2>1, ChainTypes DEF TypeOK
<1>2. \A pc \in ExecutePCs :
        ExecuteAt(pc) => execute' \in [pc : ExecutePCs, copy : Snapshots]
  BY LocalTypes
<1>3. \A pc \in ProviderPCs : ProviderAt(pc) => provider' \in P
  BY LocalTypes
<1>4. provider \in P
  BY DEF TypeOK
<1>5. CASE ProviderStarts
  <2>1. ASSUME NEW reports \in BOOLEAN
        PROVE  [provider EXCEPT !.pc = "spawned", !.reports = reports] \in P
    <3>1. "spawned" \in ProviderPCs
      BY DEF ProviderPCs
    <3> QED
      BY <1>4, <3>1, Zenon
  <2>2. provider' \in P
    <3>1. CASE \E reports \in Reporting :
                 provider' = [provider EXCEPT !.pc = "spawned", !.reports = reports]
      BY <2>1, <3>1, LifecycleAssumption
    <3>2. CASE provider' = provider
      BY <1>4, <3>2
    <3> QED
      BY <1>5, <3>1, <3>2 DEF ProviderStarts
  <2>3. execute' \in [pc : ExecutePCs, copy : Snapshots]
    BY <1>2, <1>5 DEF ProviderStarts, ExecutePCs
  <2> QED
    BY <1>5, <2>2, <2>3 DEF ProviderStarts, TypeOK, disk
<1>6. CASE ProviderBegins
  <2>1. Event("process_started") \in Events
    BY EventTypes
  <2> QED
    BY <1>1, <1>3, <1>6, <2>1 DEF ProviderBegins, TypeOK, disk, ProviderPCs
<1>7. CASE ProviderAsks
  <2>1. Event("user_input_requested") \in Events
    BY EventTypes
  <2>2. provider' \in P
    BY <1>4, <1>7 DEF ProviderAsks, ProviderPCs
  <2> QED
    BY <1>1, <1>7, <2>1, <2>2 DEF ProviderAsks, TypeOK, disk
<1>8. CASE ProviderExits
  <2>1. PICK outcome \in {"cancelled"} \cup Outcomes :
            provider' = [provider EXCEPT !.pc = "exited", !.outcome = outcome]
    BY <1>8 DEF ProviderExits
  <2>2. outcome \in Terminal
    BY LifecycleAssumption DEF LifecycleAssumption, Terminal
  <2>3. provider' \in P
    BY <1>4, <2>1, <2>2 DEF ProviderPCs
  <2> QED
    BY <1>8, <2>3 DEF ProviderExits, TypeOK, disk
<1>9. CASE ProviderReports
  <2>1. Completed(provider.outcome) \in Events
    BY <1>4, EventTypes
  <2> QED
    BY <1>1, <1>3, <1>9, <2>1 DEF ProviderReports, TypeOK, disk, ProviderPCs
<1>10. CASE ProviderSettles
  BY <1>3, <1>10 DEF ProviderSettles, TypeOK, disk, ProviderPCs
<1>11. CASE ProviderEventRefused
  <2>1. reply' \in [Callers -> {"none", "ok", "failed"}]
    BY <1>11 DEF ProviderEventRefused, TypeOK
  <2>2. Dies => ServerType'
    BY LocalTypes
  <2>3. ServerType'
    BY <1>11, <2>2 DEF ProviderEventRefused, TypeOK, ServerType
  <2> QED
    BY <1>11, <2>1, <2>3 DEF ProviderEventRefused, TypeOK, ServerType, disk, calls
<1> QED
  BY <1>5, <1>6, <1>7, <1>8, <1>9, <1>10, <1>11 DEF Provider

LEMMA CancelTypes ==
    ASSUME TypeOK, NEW c \in Cancellers, Cancel(c)
    PROVE  TypeOK'
<1>1. \A e \in Events :
        Emit(c, e) => /\ emits' \in Seq(Emits)
                      /\ reply' \in [Callers -> {"none", "ok", "failed"}]
  <2>1. c \in Callers
    BY DEF Callers
  <2> QED
    BY <2>1, ChainTypes DEF TypeOK
<1>2. \A pc \in {"idle", "cancelled", "cancelling", "completing", "done"} :
        /\ cancel' = [cancel EXCEPT ![c].pc = pc] => CancelType'
        /\ cancel' = [cancel EXCEPT ![c] = [pc |-> pc, copy |-> snap]] => CancelType'
  BY LocalTypes
<1>3. Told \in [pc : ProviderPCs, outcome : Terminal,
                told : BOOLEAN, asked : BOOLEAN, reports : BOOLEAN]
  BY LocalTypes
<1>4. cancel[c].copy \in Snapshots
  BY DEF TypeOK
<1>5. \A to \in Terminal \cup {"cancelling"} : Update(cancel[c].copy, to) => snap' \in Snapshots
  BY <1>4, UpdateTypes DEF TypeOK, AgentStates
<1>6. Fails => ServerType'
  BY LocalTypes
<1>7. CASE CancelRead(c)
  <2>1. CancelType'
    BY <1>2, <1>7 DEF CancelRead
  <2>2. /\ provider' \in {provider, Told}
        /\ enqueue' \in {enqueue, "gone"}
        /\ UNCHANGED <<snap, log, writing, emits, reply, execute, active, input, inFlight, server>>
    BY <1>7 DEF CancelRead, disk
  <2> QED
    BY <1>3, <2>1, <2>2 DEF TypeOK, CancelType
<1>8. CASE CancelWaiting(c)
  <2>1. Completed("cancelled") \in Events
    BY EventTypes DEF Terminal
  <2>2. CancelType'
    BY <1>2, <1>8 DEF CancelWaiting
  <2>3. snap' \in Snapshots
    BY <1>5, <1>8 DEF CancelWaiting, TypeOK, Terminal
  <2>4. /\ emits' \in Seq(Emits)
        /\ reply' \in [Callers -> {"none", "ok", "failed"}]
    BY <1>1, <1>8, <2>1 DEF CancelWaiting, TypeOK
  <2>5. ServerType'
    BY <1>6, <1>8 DEF CancelWaiting, TypeOK, ServerType
  <2> QED
    BY <1>8, <2>2, <2>3, <2>4, <2>5 DEF CancelWaiting, TypeOK, CancelType, ServerType
<1>9. CASE CancelCompletes(c)
  BY <1>2, <1>9 DEF CancelCompletes, TypeOK, CancelType, disk
<1>10. CASE CancelActive(c)
  <2>1. CancelType'
    BY <1>2, <1>10 DEF CancelActive
  <2>2. snap' \in Snapshots
    BY <1>5, <1>10 DEF CancelActive, TypeOK
  <2>3. ServerType'
    BY <1>6, <1>10 DEF CancelActive, TypeOK, ServerType
  <2>4. provider' \in {provider, Told}
    BY <1>10 DEF CancelActive
  <2> QED
    BY <1>3, <1>10, <2>1, <2>2, <2>3, <2>4 DEF CancelActive, TypeOK, CancelType, ServerType
<1> QED
  BY <1>7, <1>8, <1>9, <1>10 DEF Cancel

LEMMA InputTypes ==
    ASSUME TypeOK, NEW i \in Inputs, Input(i)
    PROVE  TypeOK'
<1>1. \A e \in Events :
        Emit(i, e) => /\ emits' \in Seq(Emits)
                      /\ reply' \in [Callers -> {"none", "ok", "failed"}]
  <2>1. i \in Callers
    BY DEF Callers
  <2> QED
    BY <2>1, ChainTypes DEF TypeOK
<1>2. \A pc \in {"idle", "events", "sent", "receipt", "done"} :
        input' = [input EXCEPT ![i] = pc] => InputType'
  BY LocalTypes
<1>3. CASE InputRead(i)
  BY <1>2, <1>3 DEF InputRead, TypeOK, InputType, disk
<1>4. CASE InputSends(i)
  <2>1. InputType'
    BY <1>2, <1>4 DEF InputSends
  <2>2. provider' \in [pc : ProviderPCs, outcome : Terminal,
                       told : BOOLEAN, asked : BOOLEAN, reports : BOOLEAN]
    <3>1. /\ provider.pc \in ProviderPCs
          /\ provider \in [pc : ProviderPCs, outcome : Terminal,
                           told : BOOLEAN, asked : BOOLEAN, reports : BOOLEAN]
      BY DEF TypeOK
    <3>2. (IF provider.pc = "asking" THEN "up" ELSE provider.pc) \in ProviderPCs
      BY <3>1 DEF ProviderPCs
    <3> QED
      BY <1>4, <3>1, <3>2, Zenon DEF InputSends
  <2>3. inFlight' \in BOOLEAN
    BY <1>4, Zenon DEF InputSends, TypeOK
  <2> QED
    BY <1>4, <2>1, <2>2, <2>3 DEF InputSends, TypeOK, InputType, disk
<1>5. CASE InputEmits(i)
  <2>1. Event("user_input_received") \in Events
    BY EventTypes
  <2> QED
    BY <1>1, <1>2, <1>5, <2>1 DEF InputEmits, TypeOK, InputType, disk
<1>6. CASE InputReturns(i)
  BY <1>2, <1>6 DEF InputReturns, TypeOK, InputType, disk
<1> QED
  BY <1>3, <1>4, <1>5, <1>6 DEF Input

\* recover() finds a snapshot, or writes one.
LEMMA RecoveredTypes ==
    ASSUME TypeOK
    PROVE  Recovered \in Snapshots
<1>1. ASSUME CanReplay(log)
      PROVE  [state |-> IF Replay(log) \in Terminal THEN Replay(log) ELSE "orphaned",
              seq   |-> log[Len(log)].seq] \in Snapshots
  <2>1. log \in Seq(Entries) /\ log # <<>>
    BY <1>1 DEF TypeOK, CanReplay
  <2>2. log[Len(log)] \in Entries
    BY <2>1
  <2> QED
    BY <2>2 DEF Entries, Snapshots, AgentStates
<1>2. snap \in Snapshots
  BY DEF TypeOK
<1>3. [state |-> "orphaned", seq |-> 0] \in Snapshots
  BY DEF Snapshots, AgentStates
<1> QED
  BY <1>1, <1>2, <1>3, Zenon DEF Recovered

LEMMA FreshTypes ==
    ASSUME NEW enq \in {"new", "gone"}, Fresh(enq),
           snap' \in Snapshots, log' \in Seq(Entries), ServerType'
    PROVE  TypeOK'
<1>1. NoProvider \in [pc : ProviderPCs, outcome : Terminal, told : BOOLEAN,
                      asked : BOOLEAN, reports : BOOLEAN]
  BY DEF NoProvider, ProviderPCs, Terminal
<1>2. Absent \in Snapshots
  BY DEF Absent, Snapshots
<1>3. CancelType'
  BY <1>2 DEF Fresh, CancelType
<1>4. InputType'
  BY DEF Fresh, InputType
<1>5. /\ emits' \in Seq(Emits)
      /\ reply' \in [Callers -> {"none", "ok", "failed"}]
      /\ execute' \in [pc : ExecutePCs, copy : Snapshots]
  BY <1>2 DEF Fresh, ExecutePCs
<1>6. /\ writing' \in BOOLEAN /\ active' \in BOOLEAN /\ inFlight' \in BOOLEAN
      /\ provider' = NoProvider
      /\ enqueue' \in {"new", "announce", "queued", "gone"}
  BY DEF Fresh
<1> QED
  BY <1>1, <1>3, <1>4, <1>5, <1>6 DEF TypeOK, CancelType, InputType, ServerType

LEMMA TypesKept ==
    ASSUME JournalInv, [Next]_vars
    PROVE  TypeOK'
<1> USE DEF JournalInv
<1>1. CASE Store
  BY <1>1, StoreTypes
<1>2. CASE CreateRun
  <2>1. Event("run_created") \in Events /\ "enqueue" \in Callers
    BY EventTypes DEF Callers
  <2>2. /\ emits' \in Seq(Emits)
        /\ reply' \in [Callers -> {"none", "ok", "failed"}]
    BY <1>2, <2>1, ChainTypes DEF CreateRun, TypeOK
  <2>3. snap' \in Snapshots
    BY <1>2 DEF CreateRun, Snapshots, AgentStates
  <2> QED
    BY <1>2, <2>2, <2>3 DEF CreateRun, TypeOK
<1>3. CASE AnnounceRun
  BY <1>3 DEF AnnounceRun, TypeOK, disk
<1>4. CASE Execute
  BY <1>4, ExecuteTypes
<1>5. CASE Provider
  BY <1>5, ProviderTypes
<1>6. CASE \E c \in Cancellers : Cancel(c)
  BY <1>6, CancelTypes
<1>7. CASE \E i \in Inputs : Input(i)
  BY <1>7, InputTypes
<1>8. CASE Crash
  <2>1. server \in [up : BOOLEAN, crashes : Nat, restarts : Nat, failures : Nat]
    BY DEF TypeOK
  <2>2. ServerType'
    <3>1. server.crashes + 1 \in Nat
      BY <2>1
    <3> QED
      BY <1>8, <2>1, <3>1, Zenon DEF Crash, ServerType
  <2> QED
    BY <1>8, <2>2 DEF Crash, TypeOK, ServerType, disk, calls
<1>9. CASE Restart
  <2>1. server \in [up : BOOLEAN, crashes : Nat, restarts : Nat, failures : Nat]
    BY DEF TypeOK
  <2>2. ServerType'
    <3>1. server.restarts + 1 \in Nat
      BY <2>1
    <3> QED
      BY <1>9, <2>1, <3>1, Zenon DEF Restart, ServerType
  <2>3. log' \in Seq(Entries) /\ snap' \in Snapshots
    BY <1>9, RecoveredTypes DEF Restart, TypeOK
  <2> QED
    BY <1>9, <2>2, <2>3, FreshTypes DEF Restart
<1>10. CASE UNCHANGED vars
  BY <1>10 DEF vars, TypeOK
<1> QED
  BY <1>1, <1>2, <1>3, <1>4, <1>5, <1>6, <1>7, <1>8, <1>9, <1>10 DEF Next

-----------------------------------------------------------------------------
(* Every step keeps the log ahead of the snapshot *)

\* A step that leaves the log and the sequence of the snapshot alone; while an
\* append is under way it leaves the chain of emits alone, too.
Quiet ==
    /\ log' = log
    /\ snap'.seq = snap.seq
    /\ writing' = writing
    /\ writing => emits' = emits

LEMMA QuietLeads ==
    ASSUME LogLeads, WritingLeads, Quiet
    PROVE  LogLeads' /\ WritingLeads'
  BY DEF LogLeads, WritingLeads, Quiet

\* A copy that is accepted has the sequence of the snapshot.
LEMMA UpdateKeepsSeq ==
    ASSUME NEW copy, NEW to, UpdateAccepted(copy, to), Update(copy, to)
    PROVE  snap'.seq = snap.seq
  BY DEF UpdateAccepted, Update

LEMMA ExecuteQuiet ==
    ASSUME Execute
    PROVE  Quiet
<1>1. ASSUME NEW copy, NEW to, NEW accepted, NEW refused, Running,
             ExecuteUpdate(copy, to, accepted, refused)
      PROVE  Quiet
  BY <1>1, UpdateKeepsSeq, Zenon DEF ExecuteUpdate, Quiet, Running
<1>2. CASE ExecuteStart \/ ExecuteNegotiates \/ ExecuteEnds \/ ExecuteAborts
  BY <1>1, <1>2, Zenon DEF ExecuteStart, ExecuteNegotiates, ExecuteEnds, ExecuteAborts
<1>3. CASE ExecuteRead \/ ExecuteWarned \/ ExecuteDiscovers \/ ExecuteActivates
  BY <1>3 DEF ExecuteRead, ExecuteWarned, ExecuteDiscovers, ExecuteActivates,
              disk, Quiet, Running
<1>4. CASE ExecuteSettles \/ ExecuteCatches \/ ExecuteReports \/ ExecuteCompletes
  BY <1>4 DEF ExecuteSettles, ExecuteCatches, ExecuteReports, ExecuteCompletes,
              disk, Quiet, Running
<1>5. CASE ExecuteFinally
  BY <1>5 DEF ExecuteFinally, disk, Quiet
<1> QED
  BY <1>2, <1>3, <1>4, <1>5 DEF Execute

LEMMA ProviderQuiet ==
    ASSUME Provider
    PROVE  Quiet
<1>1. CASE ProviderStarts \/ ProviderBegins \/ ProviderAsks \/ ProviderExits
  BY <1>1 DEF ProviderStarts, ProviderBegins, ProviderAsks, ProviderExits,
              disk, Quiet, Running
<1>2. CASE ProviderReports \/ ProviderSettles \/ ProviderEventRefused
  BY <1>2 DEF ProviderReports, ProviderSettles, ProviderEventRefused,
              disk, Quiet, Running
<1> QED
  BY <1>1, <1>2 DEF Provider

LEMMA CallsQuiet ==
    /\ \A c \in Cancellers : Cancel(c) => Quiet
    /\ \A i \in Inputs : Input(i) => Quiet
<1>1. ASSUME NEW c \in Cancellers, Cancel(c)
      PROVE  Quiet
  <2>1. CASE CancelRead(c) \/ CancelCompletes(c)
    BY <2>1 DEF CancelRead, CancelCompletes, disk, Quiet, Running
  <2>2. CASE CancelWaiting(c)
    BY <2>2, UpdateKeepsSeq, Zenon DEF CancelWaiting, Quiet, Running
  <2>3. CASE CancelActive(c)
    BY <2>3, UpdateKeepsSeq, Zenon DEF CancelActive, Quiet, Running
  <2> QED
    BY <1>1, <2>1, <2>2, <2>3 DEF Cancel
<1>2. ASSUME NEW i \in Inputs, Input(i)
      PROVE  Quiet
  BY <1>2 DEF Input, InputRead, InputSends, InputEmits, InputReturns, disk, Quiet, Running
<1> QED
  BY <1>1, <1>2

LEMMA StoreLeads ==
    ASSUME JournalInv, Store
    PROVE  LogLeads' /\ WritingLeads'
<1> USE DEF JournalInv
<1>1. /\ log \in Seq(Entries) /\ emits \in Seq(Emits)
      /\ snap \in Snapshots /\ snap.seq \in Nat
  BY DEF TypeOK, Snapshots
<1>2. CASE EmitRead
  BY <1>2, QuietLeads DEF EmitRead, Quiet, Running, disk
<1>3. CASE EmitAppend
  <2>1. CASE Fits(Head(emits).seq)
    <3> DEFINE entry == [event |-> Head(emits).event, seq |-> Head(emits).seq]
    <3>1. /\ log' = Append(log, entry) /\ writing' = TRUE
          /\ emits' = emits /\ snap' = snap /\ emits # <<>>
      BY <1>3, <2>1 DEF EmitAppend
    <3>2. entry.seq = snap.seq + 1
      BY <2>1 DEF Fits
    <3>3. Len(log) = snap.seq
      <4>1. \A k \in DOMAIN log : log[k].seq # snap.seq + 1
        BY <2>1 DEF Fits
      <4>2. Len(log) # snap.seq + 1
        <5>1. ASSUME Len(log) = snap.seq + 1
              PROVE  FALSE
          <6>1. Len(log) \in DOMAIN log
            BY <1>1, <5>1
          <6>2. log[Len(log)].seq = Len(log)
            BY <6>1 DEF LogLeads
          <6> QED
            BY <4>1, <5>1, <6>1, <6>2
        <5> QED
          BY <5>1
      <4> QED
        BY <1>1, <4>2 DEF LogLeads
    <3>4. \A k \in DOMAIN log' : log'[k].seq = k
      <4> HIDE DEF entry
      <4>1. Len(log') = Len(log) + 1 /\ DOMAIN log' = 1 .. Len(log) + 1
        BY <1>1, <3>1
      <4>2. ASSUME NEW k \in 1 .. Len(log)
            PROVE  log'[k].seq = k
        BY <1>1, <3>1 DEF LogLeads
      <4>3. log'[Len(log) + 1].seq = Len(log) + 1
        BY <1>1, <3>1, <3>2, <3>3
      <4> QED
        BY <1>1, <4>1, <4>2, <4>3
    <3>5. Len(log') = snap.seq + 1
      BY <1>1, <3>1, <3>3
    <3> QED
      BY <1>1, <3>1, <3>4, <3>5 DEF LogLeads, WritingLeads
  <2>2. CASE ~Fits(Head(emits).seq)
    BY <1>3, <2>2, QuietLeads DEF EmitAppend, Quiet, Running
  <2> QED
    BY <2>1, <2>2
<1>4. CASE WriteSnapshot
  <2>1. /\ emits # <<>> /\ Len(log) = snap.seq + 1
        /\ log' = log /\ ~writing'
    BY <1>4 DEF WriteSnapshot, WritingLeads
  <2>2. log[Len(log)].seq = Len(log)
    BY <1>1, <2>1 DEF LogLeads
  <2>3. snap'.seq \in {snap.seq, Len(log)}
    BY <1>4, <2>2 DEF WriteSnapshot
  <2> QED
    BY <1>1, <2>1, <2>3 DEF LogLeads, WritingLeads
<1>5. CASE WriteSnapshotFails
  BY <1>5 DEF WriteSnapshotFails, disk, LogLeads, WritingLeads
<1> QED
  BY <1>2, <1>3, <1>4, <1>5 DEF Store

LEMMA LeadsKept ==
    ASSUME JournalInv, [Next]_vars
    PROVE  LogLeads' /\ WritingLeads'
<1> USE DEF JournalInv
<1>1. log \in Seq(Entries) /\ snap.seq \in Nat
  BY DEF TypeOK, Snapshots
<1>2. CASE Store
  BY <1>2, StoreLeads
<1>3. CASE CreateRun
  <2>1. log = <<>> /\ log' = <<>> /\ snap'.seq = 0 /\ ~writing'
    BY <1>3 DEF CreateRun, Untouched
  <2> QED
    BY <2>1 DEF LogLeads, WritingLeads
<1>4. CASE AnnounceRun
  BY <1>4, QuietLeads DEF AnnounceRun, Quiet, disk, Running
<1>5. CASE Execute
  BY <1>5, ExecuteQuiet, QuietLeads
<1>6. CASE Provider
  BY <1>6, ProviderQuiet, QuietLeads
<1>7. CASE (\E c \in Cancellers : Cancel(c)) \/ (\E i \in Inputs : Input(i))
  BY <1>7, CallsQuiet, QuietLeads
<1>8. CASE Crash
  BY <1>8, QuietLeads DEF Crash, Quiet, disk
<1>9. CASE Restart
  <2>1. log' = log /\ writing' = FALSE /\ snap' = Recovered
    BY <1>9 DEF Restart, Fresh
  <2>2. Recovered.seq <= Len(log) /\ Len(log) <= Recovered.seq + 1
    <3>1. CASE CanReplay(log)
      <4>1. log # <<>>
        BY <3>1 DEF CanReplay
      <4>2. log[Len(log)].seq = Len(log)
        BY <1>1, <4>1 DEF LogLeads
      <4>3. Recovered.seq = Len(log)
        BY <3>1, <4>2 DEF Recovered
      <4> QED
        BY <1>1, <4>3
    <3>2. CASE ~CanReplay(log) /\ log = <<>> /\ snap # Absent /\ snap.seq = 0
      BY <3>2 DEF Recovered
    <3>3. CASE ~CanReplay(log) /\ ~(log = <<>> /\ snap # Absent /\ snap.seq = 0)
      <4>1. Recovered = snap
        BY <3>3, Zenon DEF Recovered
      <4> QED
        BY <4>1 DEF LogLeads
    <3> QED
      BY <3>1, <3>2, <3>3
  <2> QED
    BY <2>1, <2>2 DEF LogLeads, WritingLeads
<1>10. CASE UNCHANGED vars
  BY <1>10, QuietLeads DEF vars, Quiet, disk
<1> QED
  BY <1>2, <1>3, <1>4, <1>5, <1>6, <1>7, <1>8, <1>9, <1>10 DEF Next

\* A run that was not created stays unknown until it is.
LEMMA UntouchedKept ==
    ASSUME JournalInv, [Next]_vars
    PROVE  Untouched'
<1> USE DEF JournalInv
<1>1. SUFFICES ASSUME enqueue' = "new"
               PROVE  Untouched'
  BY DEF Untouched
<1>2. CASE enqueue # "new"
  <2>1. ~Store /\ ~Crash /\ ~CreateRun /\ ~AnnounceRun /\ ~Restart
    BY <1>1, <1>2 DEF Store, EmitRead, EmitAppend, WriteSnapshot, WriteSnapshotFails, calls,
                      Crash, CreateRun, AnnounceRun, Restart, Fresh
  <2>2. ~Execute
    <3>1. ASSUME Execute
          PROVE  enqueue' \in {enqueue, "gone"}
      <4>1. CASE ExecuteStart \/ ExecuteNegotiates \/ ExecuteEnds \/ ExecuteAborts
        BY <4>1 DEF ExecuteStart, ExecuteNegotiates, ExecuteEnds, ExecuteAborts, ExecuteUpdate
      <4>2. CASE ExecuteRead \/ ExecuteWarned \/ ExecuteDiscovers \/ ExecuteActivates
        BY <4>2 DEF ExecuteRead, ExecuteWarned, ExecuteDiscovers, ExecuteActivates
      <4>3. CASE ExecuteSettles \/ ExecuteCatches \/ ExecuteReports \/ ExecuteCompletes
                    \/ ExecuteFinally
        BY <4>3 DEF ExecuteSettles, ExecuteCatches, ExecuteReports, ExecuteCompletes,
                    ExecuteFinally
      <4> QED
        BY <3>1, <4>1, <4>2, <4>3 DEF Execute
    <3> QED
      BY <1>1, <1>2, <3>1
  <2>3. ~Provider
    BY <1>1, <1>2 DEF Provider, ProviderStarts, ProviderBegins, ProviderAsks, ProviderExits,
                      ProviderReports, ProviderSettles, ProviderEventRefused, calls
  <2>4. \A c \in Cancellers : ~Cancel(c)
    BY <1>1, <1>2 DEF Cancel, CancelRead, CancelWaiting, CancelCompletes, CancelActive
  <2>5. \A i \in Inputs : ~Input(i)
    BY <1>1, <1>2 DEF Input, InputRead, InputSends, InputEmits, InputReturns
  <2>6. ~UNCHANGED vars
    BY <1>1, <1>2 DEF vars
  <2> QED
    BY <2>1, <2>2, <2>3, <2>4, <2>5, <2>6 DEF Next
<1>3. CASE enqueue = "new"
  <2>1. /\ snap = Absent /\ log = <<>> /\ emits = <<>> /\ ~writing
        /\ execute.pc = "none" /\ provider.pc = "none"
        /\ \A c \in Cancellers : cancel[c].pc = "idle"
        /\ \A i \in Inputs : input[i] = "idle"
    BY <1>3 DEF Untouched
  <2>2. ~Store
    BY <2>1 DEF Store, EmitRead, EmitAppend, WriteSnapshot, WriteSnapshotFails
  <2>3. ~CreateRun /\ ~AnnounceRun
    BY <1>1, <1>3 DEF CreateRun, AnnounceRun
  <2>4. ~Execute
    BY <1>3, <2>1 DEF Execute, ExecuteRead, ExecuteWarned, ExecuteStart, ExecuteDiscovers,
         ExecuteNegotiates, ExecuteActivates, ExecuteSettles, ExecuteEnds, ExecuteCatches,
         ExecuteAborts, ExecuteReports, ExecuteCompletes, ExecuteFinally
  <2>5. ~Provider
    BY <2>1 DEF Provider, ProviderStarts, ProviderBegins, ProviderAsks, ProviderExits,
                ProviderReports, ProviderSettles, ProviderEventRefused, Alive
  <2>6. \A c \in Cancellers : ~Cancel(c)
    BY <2>1 DEF Cancel, CancelRead, CancelWaiting, CancelCompletes, CancelActive
  <2>7. \A i \in Inputs : ~Input(i)
    BY <2>1 DEF Input, InputRead, InputSends, InputEmits, InputReturns, Absent
  <2>8. ~Restart
    BY <1>1 DEF Restart, Fresh
  <2>9. Crash \/ UNCHANGED vars
    BY <2>2, <2>3, <2>4, <2>5, <2>6, <2>7, <2>8 DEF Next
  <2> QED
    BY <2>1, <2>9 DEF Crash, vars, disk, calls, Untouched
<1> QED
  BY <1>2, <1>3

-----------------------------------------------------------------------------
(* The journal *)

LEMMA JournalInit == Init => JournalInv
<1>1. ASSUME Init
      PROVE  TypeOK
  <2>1. NoProvider \in [pc : ProviderPCs, outcome : Terminal, told : BOOLEAN,
                        asked : BOOLEAN, reports : BOOLEAN]
    BY DEF NoProvider, ProviderPCs, Terminal
  <2>2. Absent \in Snapshots
    BY DEF Absent, Snapshots
  <2>3. CancelType /\ InputType /\ ServerType
    BY <1>1, <2>2 DEF Init, CancelType, InputType, ServerType
  <2>4. /\ snap \in Snapshots
        /\ execute \in [pc : ExecutePCs, copy : Snapshots]
        /\ provider = NoProvider
    BY <1>1, <2>2 DEF Init, ExecutePCs
  <2>5. /\ log \in Seq(Entries) /\ emits \in Seq(Emits)
        /\ reply \in [Callers -> {"none", "ok", "failed"}]
    BY <1>1 DEF Init
  <2>6. /\ enqueue \in {"new", "announce", "queued", "gone"}
        /\ writing \in BOOLEAN /\ active \in BOOLEAN /\ inFlight \in BOOLEAN
    BY <1>1, Zenon DEF Init
  <2> QED
    BY <2>1, <2>3, <2>4, <2>5, <2>6 DEF TypeOK, CancelType, InputType, ServerType
<1>2. ASSUME Init
      PROVE  LogLeads /\ WritingLeads /\ Untouched
  BY <1>2 DEF Init, LogLeads, WritingLeads, Untouched, Absent, NoProvider
<1> QED
  BY <1>1, <1>2 DEF JournalInv

LEMMA JournalKept == JournalInv /\ [Next]_vars => JournalInv'
  BY TypesKept, LeadsKept, UntouchedKept DEF JournalInv

LEMMA JournalInvariant == Spec => []JournalInv
  BY JournalInit, JournalKept, PTL DEF Spec

-----------------------------------------------------------------------------
(* A run that is over does not change *)

\* Every step but those of the store and a restart.
CallStep ==
    \/ CreateRun \/ AnnounceRun
    \/ Execute \/ Provider
    \/ \E c \in Cancellers : Cancel(c)
    \/ \E i \in Inputs : Input(i)
    \/ Crash
    \/ UNCHANGED vars

LEMMA StepCases ==
    ASSUME [Next]_vars
    PROVE  CallStep \/ Store \/ Restart
  BY DEF Next, CallStep

\* No transition leaves the end of a run.
LEMMA FinalTransition ==
    ASSUME NEW s \in Terminal, NEW to, CanTransition(s, to)
    PROVE  to = s
<1>1. Allowed[s] = {}
  BY DEF Allowed, Terminal, AgentStates, Waiting
<1> QED
  BY <1>1 DEF CanTransition

\* What the calls make of the snapshot: an update of a copy at most.
SnapStep ==
    \/ snap' = snap
    \/ snap = Absent /\ enqueue = "new" /\ snap'.state = "queued"
    \/ \E copy, to :
        /\ UpdateAccepted(copy, to) /\ Update(copy, to)
        /\ to # "orphaned" \/ (execute.pc = "capabilities" /\ to = execute.copy.state)

LEMMA CallSnap ==
    ASSUME JournalInv, CallStep
    PROVE  SnapStep
<1>1. CASE CreateRun
  BY <1>1 DEF CreateRun, JournalInv, Untouched, SnapStep
<1>2. CASE AnnounceRun \/ Crash \/ UNCHANGED vars
  BY <1>2 DEF AnnounceRun, Crash, disk, vars, SnapStep
<1>3. CASE Execute
  <2>1. ASSUME NEW copy, NEW to, NEW accepted, NEW refused,
               ExecuteUpdate(copy, to, accepted, refused)
        PROVE  snap' = snap \/ (UpdateAccepted(copy, to) /\ Update(copy, to))
    BY <2>1, Zenon DEF ExecuteUpdate
  <2>2. CASE ExecuteStart \/ ExecuteNegotiates \/ ExecuteEnds \/ ExecuteAborts
    <3>1. /\ "starting" # "orphaned" /\ provider.outcome # "orphaned"
          /\ Aborted(execute.copy.state) # "orphaned"
      BY DEF JournalInv, TypeOK, Terminal, Aborted
    <3>2. \/ snap' = snap
          \/ \E to \in {"starting", provider.outcome, Aborted(execute.copy.state)} :
                UpdateAccepted(execute.copy, to) /\ Update(execute.copy, to)
          \/ /\ execute.pc = "capabilities"
             /\ UpdateAccepted(execute.copy, execute.copy.state)
             /\ Update(execute.copy, execute.copy.state)
      BY <2>1, <2>2, Zenon DEF ExecuteStart, ExecuteNegotiates, ExecuteEnds, ExecuteAborts
    <3> QED
      BY <3>1, <3>2 DEF SnapStep
  <2>3. CASE ExecuteRead \/ ExecuteWarned \/ ExecuteDiscovers \/ ExecuteActivates
    BY <2>3 DEF ExecuteRead, ExecuteWarned, ExecuteDiscovers, ExecuteActivates, disk, SnapStep
  <2>4. CASE ExecuteSettles \/ ExecuteCatches \/ ExecuteReports \/ ExecuteCompletes
                \/ ExecuteFinally
    BY <2>4 DEF ExecuteSettles, ExecuteCatches, ExecuteReports, ExecuteCompletes,
                ExecuteFinally, disk, SnapStep
  <2> QED
    BY <1>3, <2>2, <2>3, <2>4 DEF Execute
<1>4. CASE Provider
  BY <1>4 DEF Provider, ProviderStarts, ProviderBegins, ProviderAsks, ProviderExits,
              ProviderReports, ProviderSettles, ProviderEventRefused, disk, SnapStep
<1>5. ASSUME NEW c \in Cancellers, Cancel(c)
      PROVE  SnapStep
  <2>1. CASE CancelRead(c) \/ CancelCompletes(c)
    BY <2>1 DEF CancelRead, CancelCompletes, disk, SnapStep
  <2>2. CASE CancelWaiting(c) \/ CancelActive(c)
    <3>1. "cancelled" # "orphaned" /\ "cancelling" # "orphaned"
      OBVIOUS
    <3> QED
      <4>1. \/ snap' = snap
            \/ \E to \in {"cancelled", "cancelling"} :
                    UpdateAccepted(cancel[c].copy, to) /\ Update(cancel[c].copy, to)
        BY <2>2, Zenon DEF CancelWaiting, CancelActive
      <4> QED
        BY <3>1, <4>1 DEF SnapStep
  <2> QED
    BY <1>5, <2>1, <2>2 DEF Cancel
<1>6. ASSUME NEW i \in Inputs, Input(i)
      PROVE  SnapStep
  BY <1>6 DEF Input, InputRead, InputSends, InputEmits, InputReturns, disk, SnapStep
<1> QED
  BY <1>1, <1>2, <1>3, <1>4, <1>5, <1>6 DEF CallStep

LEMMA VerdictStays ==
    ASSUME JournalInv, CallStep \/ Store, snap.state \in Terminal
    PROVE  snap'.state = snap.state
<1>1. CASE CallStep
  <2>1. ASSUME NEW copy, NEW to, UpdateAccepted(copy, to), Update(copy, to)
        PROVE  snap'.state = snap.state
    BY <2>1, FinalTransition DEF UpdateAccepted, Update
  <2>2. snap # Absent
    BY DEF Absent, Terminal
  <2> QED
    BY <1>1, <2>1, <2>2, CallSnap DEF SnapStep
<1>2. CASE Store
  <2>1. CASE EmitRead \/ EmitAppend \/ WriteSnapshotFails
    BY <2>1 DEF EmitRead, EmitAppend, WriteSnapshotFails, disk
  <2>2. CASE WriteSnapshot
    <3>1. StateAfterEvent(snap.state, log[Len(log)].event) = snap.state
      BY DEF StateAfterEvent, Terminal
    <3> QED
      BY <2>2, <3>1 DEF WriteSnapshot
  <2> QED
    BY <1>2, <2>1, <2>2 DEF Store
<1> QED
  BY <1>1, <1>2

-----------------------------------------------------------------------------
(* What the calls add to the chain of emits *)

\* Where a provider process may have reported something that is not through.
Reports == {"up", "asking", "exited", "reported"}

\* While a provider process may still report, execute() waits for it.
ProviderWaited == execute.pc = "running" \/ provider.pc \in {"none", "settled", "broken"}

LEMMA WaitedKept ==
    ASSUME JournalInv, ProviderWaited, [Next]_vars
    PROVE  ProviderWaited'
<1> USE DEF ProviderWaited
<1>1. execute \in [pc : ExecutePCs, copy : Snapshots]
  BY DEF JournalInv, TypeOK
<1>2. provider \in [pc : ProviderPCs, outcome : Terminal,
                    told : BOOLEAN, asked : BOOLEAN, reports : BOOLEAN]
  BY DEF JournalInv, TypeOK
<1>3. CASE Store \/ Crash \/ AnnounceRun \/ CreateRun \/ UNCHANGED vars
  BY <1>3 DEF Store, EmitRead, EmitAppend, WriteSnapshot, WriteSnapshotFails, calls,
              Crash, AnnounceRun, CreateRun, vars
<1>4. CASE Restart
  BY <1>4 DEF Restart, Fresh, NoProvider
<1>5. CASE Execute
  <2>1. provider' = provider
    BY <1>5, ExecuteKeeps
  <2>2. CASE execute.pc # "running"
    BY <2>1, <2>2
  <2>3. CASE execute.pc = "running"
    <3>1. ExecuteSettles
      BY <1>5, <2>3 DEF Execute, ExecuteRead, ExecuteWarned, ExecuteStart, ExecuteDiscovers,
         ExecuteNegotiates, ExecuteActivates, ExecuteEnds, ExecuteCatches, ExecuteAborts,
         ExecuteReports, ExecuteCompletes, ExecuteFinally
    <3> QED
      BY <2>1, <3>1 DEF ExecuteSettles
  <2> QED
    BY <2>2, <2>3
<1>6. CASE Provider
  <2>1. CASE ProviderStarts
    BY <1>1, <2>1 DEF ProviderStarts, ExecuteAt
  <2>2. CASE ~ProviderStarts
    BY <1>2, <1>6, <2>2 DEF Provider, ProviderBegins, ProviderAsks, ProviderExits,
         ProviderReports, ProviderSettles, ProviderEventRefused, ProviderAt, Alive, calls
  <2> QED
    BY <2>1, <2>2
<1>7. ASSUME NEW c \in Cancellers, Cancel(c)
      PROVE  ProviderWaited'
  <2>1. Told.pc = provider.pc
    BY <1>2 DEF Told
  <2> QED
    BY <1>7, <2>1 DEF Cancel, CancelRead, CancelWaiting, CancelCompletes, CancelActive
<1>8. ASSUME NEW i \in Inputs, Input(i)
      PROVE  ProviderWaited'
  BY <1>2, <1>8 DEF Input, InputRead, InputSends, InputEmits, InputReturns
<1> QED
  BY <1>3, <1>4, <1>5, <1>6, <1>7, <1>8 DEF Next

-----------------------------------------------------------------------------
(* The invariant of verdicts *)

\* The places of the verdicts in the log.
Verdicts == {k \in DOMAIN log : log[k].event.kind = "run_completed"}

\* The states of a run that execute() has begun.
Begun == AgentStates \ {"queued", "orphaned", "recovering"}

\* Once execute() has started the run it is not taken for a waiting one any more: who
\* wants to cancel a waiting run holds a copy that is too old when the process runs.
StartedInv ==
    /\ execute.pc \in {"discover", "capabilities", "negotiated", "launch", "running"}
        => snap.state \in Begun
    /\ execute.pc = "capabilities" => execute.copy.state \in Begun
    /\ execute.pc = "error" => snap.state = Aborted(execute.copy.state)
    /\ \A c \in Cancellers : cancel[c].pc = "cancelled" =>
        /\ cancel[c].copy.seq <= snap.seq
        /\ \/ execute.pc \in {"launch", "running"}
           \/ execute.pc = "negotiated" /\ reply["execute"] = "ok"
           => cancel[c].copy.seq < snap.seq

\* The chain of emits: only its first event has read the run; the provider has at most
\* one event in it, and while it has one it has not been answered.
ChainInv ==
    /\ \A k \in DOMAIN emits : emits[k].seq # 0 => k = 1
    /\ \A j, k \in DOMAIN emits :
        emits[j].by = "provider" /\ emits[k].by = "provider" => j = k
    /\ Emitting("provider") =>
        /\ reply["provider"] = "none"
        /\ provider.pc \in Reports
    /\ writing => /\ Head(emits).seq # 0
                  /\ log[Len(log)].event = Head(emits).event

\* What may be appended: the provider's event was read while the run was not over, and
\* any other verdict is the one the snapshot already has.
PendingInv ==
    \A k \in DOMAIN emits :
        /\ emits[k].by = "provider" /\ emits[k].seq # 0 => snap.state \notin Terminal
        /\ emits[k].by # "provider" =>
            /\ Sets(emits[k].event) => emits[k].event.kind = "run_completed"
            /\ emits[k].event.kind = "run_completed" =>
                snap.state \in Terminal /\ emits[k].event.state = snap.state

\* The snapshot has the verdict of every event it contains, nothing that sets the state
\* comes after a verdict, and an event that sets the state is the last one.
VerdictInv ==
    /\ OneVerdict
    /\ \A k \in Verdicts :
        /\ k <= snap.seq => snap.state = log[k].event.state
        /\ \A j \in DOMAIN log : k < j /\ Sets(log[j].event) => j \in Verdicts
    /\ (\E k \in DOMAIN log : Sets(log[k].event)) => \E k \in DOMAIN log : IsLastSetting(log, k)


LifecycleInv ==
    JournalInv /\ ProviderWaited /\ StartedInv /\ ChainInv /\ PendingInv /\ VerdictInv

-----------------------------------------------------------------------------
(* What the calls add to the chain of emits *)

EmitStep ==
    \/ /\ emits' = emits
       /\ reply' \in {reply, [reply EXCEPT !["provider"] = "none"]}
    \/ /\ ~Emitting("provider") /\ provider'.pc \in Reports
       /\ \E e \in Events : Emit("provider", e)
    \/ \E c \in Callers \ {"provider"}, e \in Events :
        /\ Emit(c, e)
        /\ Sets(e) => e.kind = "run_completed"
        /\ e.kind = "run_completed" => snap'.state \in Terminal /\ e.state = snap'.state

LEMMA ExecuteEmits ==
    ASSUME LifecycleInv, Execute
    PROVE  EmitStep
<1>1. "execute" \in Callers \ {"provider"}
  BY DEF Callers
<1>2. \A kind \in {"warning", "error", "capabilities_negotiated"} :
        Event(kind) \in Events /\ ~Sets(Event(kind)) /\ Event(kind).kind # "run_completed"
  BY DEF Event, Events, Sets
<1>3. \A kind \in {"warning", "error", "capabilities_negotiated"} :
        Emit("execute", Event(kind)) => EmitStep
  BY <1>1, <1>2, Zenon DEF EmitStep
<1>4. UNCHANGED <<emits, reply>> => EmitStep
  BY DEF EmitStep
<1>5. CASE ExecuteRead \/ ExecuteSettles
  BY <1>3, <1>4, <1>5 DEF ExecuteRead, ExecuteSettles, Transition
<1>6. CASE ExecuteNegotiates \/ ExecuteAborts
  BY <1>3, <1>4, <1>6, Zenon DEF ExecuteNegotiates, ExecuteAborts, ExecuteUpdate
<1>7. CASE ExecuteReports
  <2>1. snap.state = Aborted(execute.copy.state) /\ snap' = snap
    BY <1>7 DEF LifecycleInv, StartedInv, ExecuteReports, disk
  <2>2. CASE UNCHANGED <<emits, reply>>
    BY <1>4, <2>2
  <2>3. CASE Emit("execute", Completed(Aborted(execute.copy.state)))
    <3>1. Completed(Aborted(execute.copy.state)) \in Events
      BY EventTypes
    <3>2. /\ Completed(Aborted(execute.copy.state)).kind = "run_completed"
          /\ Completed(Aborted(execute.copy.state)).state = snap'.state
          /\ snap'.state \in Terminal
      BY <2>1, EventTypes DEF Completed
    <3> QED
      BY <1>1, <2>3, <3>1, <3>2, Zenon DEF EmitStep
  <2> QED
    BY <1>7, <2>2, <2>3 DEF ExecuteReports
<1>8. CASE ExecuteWarned \/ ExecuteStart \/ ExecuteDiscovers \/ ExecuteActivates \/ ExecuteEnds
              \/ ExecuteCatches \/ ExecuteCompletes \/ ExecuteFinally
  BY <1>4, <1>8 DEF ExecuteWarned, ExecuteStart, ExecuteDiscovers, ExecuteActivates, ExecuteEnds,
                    ExecuteCatches, ExecuteCompletes, ExecuteFinally
<1> QED
  BY <1>5, <1>6, <1>7, <1>8 DEF Execute

LEMMA ProviderEmits ==
    ASSUME LifecycleInv, Provider
    PROVE  EmitStep
<1>1. provider \in [pc : ProviderPCs, outcome : Terminal,
                    told : BOOLEAN, asked : BOOLEAN, reports : BOOLEAN]
  BY DEF LifecycleInv, JournalInv, TypeOK
<1>2. CASE ProviderBegins
  <2>1. ~Emitting("provider")
    BY <1>2 DEF ProviderBegins, LifecycleInv, ChainInv, Reports
  <2>2. provider'.pc \in Reports
    BY <1>1, <1>2 DEF ProviderBegins, ProviderAt, Reports
  <2>3. Event("process_started") \in Events
    BY EventTypes
  <2> QED
    BY <1>2, <2>1, <2>2, <2>3 DEF ProviderBegins, EmitStep
<1>3. CASE ProviderAsks
  <2>1. provider'.pc \in Reports
    BY <1>1, <1>3 DEF ProviderAsks, Reports
  <2>2. Event("user_input_requested") \in Events
    BY EventTypes
  <2> QED
    BY <1>3, <2>1, <2>2 DEF ProviderAsks, EmitStep
<1>4. CASE ProviderReports
  <2>1. Completed(provider.outcome) \in Events
    BY <1>1, EventTypes
  <2>2. ProviderAt("reported") => provider'.pc \in Reports
    BY <1>1 DEF ProviderAt, Reports
  <2> QED
    BY <1>4, <2>1, <2>2 DEF ProviderReports, EmitStep
<1>5. CASE ProviderStarts \/ ProviderExits \/ ProviderSettles \/ ProviderEventRefused
  BY <1>5 DEF ProviderStarts, ProviderExits, ProviderSettles, ProviderEventRefused, EmitStep
<1> QED
  BY <1>2, <1>3, <1>4, <1>5 DEF Provider

LEMMA CallEmits ==
    ASSUME LifecycleInv, CallStep
    PROVE  EmitStep
<1>1. UNCHANGED <<emits, reply>> => EmitStep
  BY DEF EmitStep
<1>2. CASE CreateRun
  <2>1. "enqueue" \in Callers \ {"provider"}
    BY DEF Callers
  <2>2. Event("run_created") \in Events /\ ~Sets(Event("run_created"))
        /\ Event("run_created").kind # "run_completed"
    BY DEF Event, Events, Sets
  <2> QED
    BY <1>2, <2>1, <2>2, Zenon DEF CreateRun, EmitStep
<1>3. CASE AnnounceRun \/ Crash \/ UNCHANGED vars
  BY <1>1, <1>3 DEF AnnounceRun, Crash, vars
<1>4. ASSUME NEW c \in Cancellers, Cancel(c)
      PROVE  EmitStep
  <2>1. c \in Callers \ {"provider"}
    BY LifecycleAssumption DEF LifecycleAssumption, Callers
  <2>2. CASE Update(cancel[c].copy, "cancelled") /\ Emit(c, Completed("cancelled"))
    <3>1. Completed("cancelled") \in Events
      BY EventTypes DEF Terminal
    <3>2. /\ Completed("cancelled").kind = "run_completed"
          /\ snap'.state \in Terminal /\ Completed("cancelled").state = snap'.state
      BY <2>2 DEF Completed, Update, Terminal
    <3> QED
      BY <2>1, <2>2, <3>1, <3>2, Zenon DEF EmitStep
  <2>3. CASE ~Emit(c, Completed("cancelled"))
    BY <1>1, <1>4, <2>3 DEF Cancel, CancelRead, CancelWaiting, CancelCompletes, CancelActive
  <2>4. CASE UNCHANGED <<emits, reply>>
    BY <1>1, <2>4
  <2> QED
    BY <1>4, <2>2, <2>3, <2>4, Zenon DEF Cancel, CancelRead, CancelWaiting, CancelCompletes, CancelActive
<1>5. ASSUME NEW i \in Inputs, Input(i)
      PROVE  EmitStep
  <2>1. i \in Callers \ {"provider"}
    BY LifecycleAssumption DEF LifecycleAssumption, Callers
  <2>2. Event("user_input_received") \in Events /\ ~Sets(Event("user_input_received"))
        /\ Event("user_input_received").kind # "run_completed"
    BY DEF Event, Events, Sets
  <2>3. CASE Emit(i, Event("user_input_received"))
    BY <2>1, <2>2, <2>3, Zenon DEF EmitStep
  <2> QED
    BY <1>1, <1>5, <2>3 DEF Input, InputRead, InputSends, InputEmits, InputReturns
<1> QED
  BY <1>2, <1>3, <1>4, <1>5, ExecuteEmits, ProviderEmits DEF CallStep

\* A process with a report that is not through is still waited for.
LEMMA ReportsKept ==
    ASSUME LifecycleInv, CallStep, Emitting("provider")
    PROVE  provider'.pc \in Reports
<1>1. /\ provider \in [pc : ProviderPCs, outcome : Terminal,
                       told : BOOLEAN, asked : BOOLEAN, reports : BOOLEAN]
      /\ provider.pc \in Reports /\ reply["provider"] = "none"
  BY DEF LifecycleInv, JournalInv, TypeOK, ChainInv
<1>2. execute.pc = "running"
  BY <1>1 DEF LifecycleInv, ProviderWaited, Reports
<1>3. CASE CreateRun \/ AnnounceRun \/ Crash \/ UNCHANGED vars
  BY <1>1, <1>3 DEF CreateRun, AnnounceRun, Crash, calls, vars
<1>4. CASE Execute
  BY <1>1, <1>4, ExecuteKeeps
<1>5. CASE Provider
  BY <1>1, <1>2, <1>5 DEF Provider, ProviderStarts, ProviderBegins, ProviderAsks, ProviderExits,
     ProviderReports, ProviderSettles, ProviderEventRefused, ProviderAt, Reports, calls
<1>6. ASSUME NEW c \in Cancellers, Cancel(c)
      PROVE  provider'.pc \in Reports
  <2>1. Told.pc = provider.pc
    BY <1>1 DEF Told
  <2> QED
    BY <1>1, <1>6, <2>1 DEF Cancel, CancelRead, CancelWaiting, CancelCompletes, CancelActive
<1>7. ASSUME NEW i \in Inputs, Input(i)
      PROVE  provider'.pc \in Reports
  BY <1>1, <1>7 DEF Input, InputRead, InputSends, InputEmits, InputReturns, Reports
<1> QED
  BY <1>3, <1>4, <1>5, <1>6, <1>7 DEF CallStep

\* While the provider's report is on its way nobody else ends the run.
LEMMA NobodyElseEnds ==
    ASSUME LifecycleInv, CallStep, Emitting("provider"), snap'.state \in Terminal
    PROVE  snap.state \in Terminal
<1>1. /\ execute.pc = "running"
      /\ snap \in Snapshots /\ snap.seq \in Nat
      /\ \A c \in Cancellers : cancel[c].copy.seq \in Nat
  BY DEF LifecycleInv, ProviderWaited, ChainInv, Reports, JournalInv, TypeOK, Snapshots
<1>2. SUFFICES ASSUME snap' # snap
               PROVE  FALSE
  OBVIOUS
<1>3. CASE CreateRun \/ AnnounceRun \/ Crash \/ UNCHANGED vars
  BY <1>1, <1>2, <1>3 DEF CreateRun, AnnounceRun, Crash, vars, disk, LifecycleInv, JournalInv,
                          Untouched
<1>4. CASE Execute
  BY <1>1, <1>2, <1>4 DEF Execute, ExecuteRead, ExecuteWarned, ExecuteStart, ExecuteDiscovers,
     ExecuteNegotiates, ExecuteActivates, ExecuteSettles, ExecuteEnds, ExecuteCatches,
     ExecuteAborts, ExecuteReports, ExecuteCompletes, ExecuteFinally, disk
<1>5. CASE Provider
  BY <1>2, <1>5 DEF Provider, ProviderStarts, ProviderBegins, ProviderAsks, ProviderExits,
     ProviderReports, ProviderSettles, ProviderEventRefused, disk
<1>6. ASSUME NEW c \in Cancellers, Cancel(c)
      PROVE  FALSE
  <2>1. CASE CancelRead(c) \/ CancelCompletes(c)
    BY <1>2, <2>1 DEF CancelRead, CancelCompletes, disk
  <2>2. CASE CancelWaiting(c)
    <3>1. UpdateAccepted(cancel[c].copy, "cancelled") /\ cancel[c].pc = "cancelled"
      BY <1>2, <2>2, Zenon DEF CancelWaiting
    <3>2. cancel[c].copy.seq = snap.seq
      BY <3>1 DEF UpdateAccepted
    <3>3. cancel[c].copy.seq < snap.seq
      BY <1>1, <3>1 DEF LifecycleInv, StartedInv
    <3> QED
      BY <1>1, <3>2, <3>3
  <2>3. CASE CancelActive(c)
    <3>1. Update(cancel[c].copy, "cancelling")
      BY <1>2, <2>3, Zenon DEF CancelActive
    <3> QED
      BY <3>1 DEF Update, Terminal
  <2> QED
    BY <1>6, <2>1, <2>2, <2>3 DEF Cancel
<1>7. ASSUME NEW i \in Inputs, Input(i)
      PROVE  FALSE
  BY <1>2, <1>7 DEF Input, InputRead, InputSends, InputEmits, InputReturns, disk
<1> QED
  BY <1>3, <1>4, <1>5, <1>6, <1>7 DEF CallStep

\* The calls leave the log alone, and an append that is under way.
LEMMA CallQuiet ==
    ASSUME JournalInv, CallStep
    PROVE  Quiet
<1>1. CASE CreateRun
  <2>1. snap.seq = 0 /\ ~writing
    BY <1>1 DEF CreateRun, JournalInv, Untouched, Absent
  <2> QED
    BY <1>1, <2>1 DEF CreateRun, Quiet
<1>2. CASE AnnounceRun \/ Crash \/ UNCHANGED vars
  BY <1>2 DEF AnnounceRun, Crash, vars, Quiet, disk
<1> QED
  BY <1>1, <1>2, ExecuteQuiet, ProviderQuiet, CallsQuiet DEF CallStep

-----------------------------------------------------------------------------
(* The chain of emits keeps its shape *)

\* A call appends to the chain.
LEMMA Appended ==
    ASSUME emits \in Seq(Emits), NEW c, NEW e, Emit(c, e)
    PROVE  /\ DOMAIN emits \subseteq DOMAIN emits'
           /\ \A k \in DOMAIN emits' :
                \/ k \in DOMAIN emits /\ emits'[k] = emits[k]
                \/ k = Len(emits) + 1 /\ emits'[k] = [by |-> c, event |-> e, seq |-> 0]
<1> DEFINE x == [by |-> c, event |-> e, seq |-> 0]
<1>1. emits' = Append(emits, x)
  BY DEF Emit
<1> HIDE DEF x
<1>2. /\ DOMAIN emits' = 1 .. Len(emits) + 1 /\ DOMAIN emits = 1 .. Len(emits)
      /\ Len(emits) \in Nat
      /\ \A k \in 1 .. Len(emits) : emits'[k] = emits[k]
      /\ emits'[Len(emits) + 1] = x
  BY <1>1
<1>3. ASSUME NEW k \in 1 .. Len(emits) + 1
      PROVE  k \in 1 .. Len(emits) \/ k = Len(emits) + 1
  BY <1>2
<1> QED
  BY <1>2, <1>3 DEF x

\* The store takes the first emit off the chain.
LEMMA Settled ==
    ASSUME emits \in Seq(Emits), emits # <<>>, NEW r, Settle(r)
    PROVE  /\ Head(emits) = emits[1] /\ 1 \in DOMAIN emits
           /\ \A k \in DOMAIN emits' :
                k \in Nat /\ k # 0 /\ k + 1 \in DOMAIN emits /\ emits'[k] = emits[k + 1]
  BY DEF Settle

LEMMA SettledChain ==
    ASSUME LifecycleInv, emits # <<>>, NEW r, Settle(r), writing' = FALSE,
           UNCHANGED provider
    PROVE  ChainInv' /\ \A k \in DOMAIN emits' : emits'[k].seq = 0
<1>1. emits \in Seq(Emits) /\ reply \in [Callers -> {"none", "ok", "failed"}]
  BY DEF LifecycleInv, JournalInv, TypeOK
<1>2. /\ Head(emits) = emits[1] /\ 1 \in DOMAIN emits
      /\ \A k \in DOMAIN emits' :
            k \in Nat /\ k # 0 /\ k + 1 \in DOMAIN emits /\ emits'[k] = emits[k + 1]
  BY <1>1, Settled
<1>3. ASSUME NEW k \in DOMAIN emits'
      PROVE  k + 1 # 1 /\ emits'[k] = emits[k + 1] /\ k + 1 \in DOMAIN emits
  BY <1>2
<1>4. \A k \in DOMAIN emits' : emits'[k].seq = 0
  BY <1>3 DEF LifecycleInv, ChainInv
<1>5. ASSUME NEW j \in DOMAIN emits', NEW k \in DOMAIN emits',
             emits'[j].by = "provider", emits'[k].by = "provider"
      PROVE  j = k
  <2>1. j + 1 = k + 1
    BY <1>3, <1>5 DEF LifecycleInv, ChainInv
  <2> QED
    BY <1>2, <2>1
<1>6. ASSUME NEW k \in DOMAIN emits', emits'[k].by = "provider"
      PROVE  reply'["provider"] = "none" /\ provider'.pc \in Reports
  <2>1. Emitting("provider")
    BY <1>3, <1>6 DEF Emitting
  <2>2. emits[1].by # "provider"
    BY <1>2, <1>3, <1>6 DEF LifecycleInv, ChainInv
  <2>3. reply'["provider"] = reply["provider"]
    BY <1>1, <1>2, <2>2 DEF Settle
  <2> QED
    BY <2>1, <2>3 DEF LifecycleInv, ChainInv
<1> QED
  BY <1>4, <1>5, <1>6 DEF ChainInv, Emitting

LEMMA ChainKept ==
    ASSUME LifecycleInv, [Next]_vars
    PROVE  ChainInv'
<1>1. emits \in Seq(Emits) /\ reply \in [Callers -> {"none", "ok", "failed"}]
  BY DEF LifecycleInv, JournalInv, TypeOK
<1>2. ChainInv /\ WritingLeads
  BY DEF LifecycleInv, JournalInv
<1>3. CASE CallStep
  <2>1. Quiet /\ EmitStep
    BY <1>3, CallQuiet, CallEmits DEF LifecycleInv
  <2>2. writing' => Head(emits').seq # 0 /\ log'[Len(log')].event = Head(emits').event
    BY <1>2, <2>1 DEF Quiet, ChainInv
  <2>3. Emitting("provider") => provider'.pc \in Reports /\ reply["provider"] = "none"
    BY <1>2, <1>3, ReportsKept DEF ChainInv
  <2>4. CASE emits' = emits /\ reply' \in {reply, [reply EXCEPT !["provider"] = "none"]}
    <3>1. reply["provider"] = "none" => reply'["provider"] = "none"
      BY <1>1, <2>4 DEF Callers
    <3> QED
      BY <1>2, <2>2, <2>3, <2>4, <3>1 DEF ChainInv, Emitting
  <2>5. ASSUME NEW c \in Callers, NEW e, Emit(c, e),
               \/ c # "provider"
               \/ ~Emitting("provider") /\ provider'.pc \in Reports
        PROVE  ChainInv'
    <3>1. \A k \in DOMAIN emits' :
            \/ k \in DOMAIN emits /\ emits'[k] = emits[k]
            \/ k = Len(emits) + 1 /\ emits'[k] = [by |-> c, event |-> e, seq |-> 0]
      BY <1>1, <2>5, Appended
    <3>2. \A k \in DOMAIN emits' : emits'[k].seq # 0 => k = 1
      BY <1>2, <3>1 DEF ChainInv
    <3>3. \A j, k \in DOMAIN emits' :
            emits'[j].by = "provider" /\ emits'[k].by = "provider" => j = k
      BY <1>2, <2>5, <3>1 DEF ChainInv, Emitting
    <3>4. ASSUME NEW k \in DOMAIN emits', emits'[k].by = "provider"
          PROVE  reply'["provider"] = "none" /\ provider'.pc \in Reports
      <4>1. CASE c = "provider"
        BY <1>1, <2>5, <4>1 DEF Emit
      <4>2. CASE c # "provider"
        <5>1. Emitting("provider")
          BY <3>1, <3>4, <4>2 DEF Emitting
        <5>2. reply'["provider"] = reply["provider"]
          BY <1>1, <2>5, <4>2 DEF Emit, Callers
        <5> QED
          BY <2>3, <5>1, <5>2
      <4> QED
        BY <4>1, <4>2
    <3> QED
      BY <2>2, <3>2, <3>3, <3>4 DEF ChainInv, Emitting
  <2>6. "provider" \in Callers
    BY DEF Callers
  <2> QED
    BY <2>1, <2>4, <2>5, <2>6 DEF EmitStep
<1>4. CASE Store
  <2>1. CASE EmitRead
    <3>1. writing' = FALSE /\ UNCHANGED provider /\ emits # <<>>
      <4>1. writing \in BOOLEAN
        BY DEF LifecycleInv, JournalInv, TypeOK
      <4> QED
        BY <2>1, <4>1, Zenon DEF EmitRead, Running, calls
    <3>2. CASE Settle("ok")
      BY <3>1, <3>2, SettledChain
    <3>3. CASE emits' = [emits EXCEPT ![1].seq = snap.seq + 1] /\ reply' = reply
      <4>1. /\ DOMAIN emits' = DOMAIN emits
            /\ \A k \in DOMAIN emits : /\ emits'[k].by = emits[k].by
                                       /\ k # 1 => emits'[k].seq = emits[k].seq
        BY <1>1, <3>1, <3>3 DEF Emits
      <4> QED
        BY <1>2, <3>1, <3>3, <4>1 DEF ChainInv, Emitting
    <3> QED
      BY <2>1, <3>2, <3>3 DEF EmitRead
  <2>2. CASE EmitAppend
    <3>1. CASE Fits(Head(emits).seq)
      <4> DEFINE entry == [event |-> Head(emits).event, seq |-> Head(emits).seq]
      <4>1. /\ log' = Append(log, entry) /\ emits' = emits /\ reply' = reply
            /\ provider' = provider /\ Head(emits).seq # 0
        BY <2>2, <3>1 DEF EmitAppend, calls
      <4>2. entry.event = Head(emits).event
        OBVIOUS
      <4> HIDE DEF entry
      <4>3. log'[Len(log')] = entry
        BY <4>1 DEF LifecycleInv, JournalInv, TypeOK
      <4> QED
        BY <1>2, <4>1, <4>2, <4>3 DEF ChainInv, Emitting
    <3>2. CASE ~Fits(Head(emits).seq)
      <4>1. /\ emits # <<>> /\ writing' = FALSE /\ UNCHANGED provider
            /\ Settle("failed")
        BY <2>2, <3>2, Zenon DEF EmitAppend, Running, calls, LifecycleInv, JournalInv, TypeOK
      <4> QED
        BY <4>1, SettledChain
    <3> QED
      BY <3>1, <3>2
  <2>3. CASE WriteSnapshot \/ WriteSnapshotFails
    <3>1. /\ emits # <<>> /\ writing' = FALSE /\ UNCHANGED provider
          /\ Settle("ok") \/ Settle("failed")
      BY <1>2, <2>3, Zenon DEF WriteSnapshot, WriteSnapshotFails, WritingLeads, calls
    <3> QED
      BY <3>1, SettledChain
  <2> QED
    BY <1>4, <2>1, <2>2, <2>3 DEF Store
<1>5. CASE Restart
  BY <1>5 DEF Restart, Fresh, ChainInv, Emitting
<1> QED
  BY <1>3, <1>4, <1>5, StepCases

-----------------------------------------------------------------------------
(* What may be appended stays true to the snapshot *)

LEMMA PendingKept ==
    ASSUME LifecycleInv, [Next]_vars
    PROVE  PendingInv'
<1>1. emits \in Seq(Emits)
  BY DEF LifecycleInv, JournalInv, TypeOK
<1>2. PendingInv
  BY DEF LifecycleInv
<1>3. ASSUME CallStep \/ Store, snap.state \in Terminal
      PROVE  snap'.state = snap.state
  BY <1>3, VerdictStays DEF LifecycleInv
<1>4. CASE CallStep
  <2>1. EmitStep
    BY <1>4, CallEmits
  <2>2. ASSUME NEW k \in DOMAIN emits
        PROVE  /\ emits[k].by = "provider" /\ emits[k].seq # 0 => snap'.state \notin Terminal
               /\ emits[k].by # "provider" =>
                    /\ Sets(emits[k].event) => emits[k].event.kind = "run_completed"
                    /\ emits[k].event.kind = "run_completed" =>
                        snap'.state \in Terminal /\ emits[k].event.state = snap'.state
    BY <1>2, <1>3, <1>4, NobodyElseEnds DEF PendingInv, Emitting
  <2>3. CASE emits' = emits
    BY <2>2, <2>3 DEF PendingInv
  <2>4. ASSUME NEW c, NEW e, Emit(c, e),
               \/ c = "provider"
               \/ /\ Sets(e) => e.kind = "run_completed"
                  /\ e.kind = "run_completed" => snap'.state \in Terminal /\ e.state = snap'.state
        PROVE  PendingInv'
    <3>1. \A k \in DOMAIN emits' :
            \/ k \in DOMAIN emits /\ emits'[k] = emits[k]
            \/ k = Len(emits) + 1 /\ emits'[k] = [by |-> c, event |-> e, seq |-> 0]
      BY <1>1, <2>4, Appended
    <3> QED
      BY <2>2, <2>4, <3>1 DEF PendingInv
  <2> QED
    BY <2>1, <2>3, <2>4 DEF EmitStep
<1>5. CASE Store
  <2>1. ASSUME NEW r, emits # <<>>, Settle(r), writing' = FALSE, UNCHANGED provider
        PROVE  PendingInv'
    <3>1. \A k \in DOMAIN emits' : emits'[k].seq = 0
      BY <2>1, SettledChain
    <3>2. \A k \in DOMAIN emits' : k + 1 \in DOMAIN emits /\ emits'[k] = emits[k + 1]
      BY <1>1, <2>1, Settled
    <3> QED
      BY <1>2, <1>3, <1>5, <3>1, <3>2 DEF PendingInv
  <2>2. CASE EmitRead
    <3>1. writing' = FALSE /\ UNCHANGED provider /\ emits # <<>> /\ snap' = snap
      <4>1. writing \in BOOLEAN
        BY DEF LifecycleInv, JournalInv, TypeOK
      <4> QED
        BY <2>2, <4>1, Zenon DEF EmitRead, Running, calls, disk
    <3>2. CASE Settle("ok")
      BY <2>1, <3>1, <3>2
    <3>3. CASE ~Settle("ok")
      <4>1. /\ emits' = [emits EXCEPT ![1].seq = snap.seq + 1]
            /\ ~(Head(emits).by = "provider" /\ snap.state \in Terminal)
            /\ Head(emits) = emits[1]
        BY <1>1, <2>2, <3>1, <3>3 DEF EmitRead
      <4>2. /\ DOMAIN emits' = DOMAIN emits
            /\ \A k \in DOMAIN emits : /\ emits'[k].by = emits[k].by
                                       /\ emits'[k].event = emits[k].event
                                       /\ k # 1 => emits'[k].seq = emits[k].seq
        BY <1>1, <3>1, <4>1 DEF Emits
      <4> QED
        BY <1>2, <3>1, <4>1, <4>2 DEF PendingInv
    <3> QED
      BY <3>2, <3>3
  <2>3. CASE EmitAppend
    <3>1. CASE emits' = emits
      BY <1>2, <2>3, <3>1 DEF EmitAppend, PendingInv
    <3>2. CASE emits' # emits
      <4>1. /\ emits # <<>> /\ writing' = FALSE /\ UNCHANGED provider
            /\ Settle("failed")
        <5>1. writing \in BOOLEAN
          BY DEF LifecycleInv, JournalInv, TypeOK
        <5> QED
          BY <2>3, <3>2, <5>1, Zenon DEF EmitAppend, Running, calls
      <4> QED
        BY <2>1, <4>1
    <3> QED
      BY <3>1, <3>2
  <2>4. CASE WriteSnapshot \/ WriteSnapshotFails
    <3>1. /\ emits # <<>> /\ writing' = FALSE /\ UNCHANGED provider
          /\ Settle("ok") \/ Settle("failed")
      BY <2>4, Zenon DEF LifecycleInv, JournalInv, WriteSnapshot, WriteSnapshotFails,
                         WritingLeads, calls
    <3> QED
      BY <2>1, <3>1
  <2> QED
    BY <1>5, <2>2, <2>3, <2>4 DEF Store
<1>6. CASE Restart
  BY <1>6 DEF Restart, Fresh, PendingInv
<1> QED
  BY <1>4, <1>5, <1>6, StepCases

-----------------------------------------------------------------------------
(* A copy of a waiting run is too old once the run was started *)

\* The parts of StartedInv that speak of execute() alone, and of the copies.
ExecuteStarted ==
    /\ execute.pc \in {"discover", "capabilities", "negotiated", "launch", "running"}
        => snap.state \in Begun
    /\ execute.pc = "capabilities" => execute.copy.state \in Begun
    /\ execute.pc = "error" => snap.state = Aborted(execute.copy.state)

\* The capabilities have been announced, or the provider was started after them.
Announced ==
    \/ execute.pc \in {"launch", "running"}
    \/ execute.pc = "negotiated" /\ reply["execute"] = "ok"

CopiesOld ==
    \A c \in Cancellers : cancel[c].pc = "cancelled" =>
        /\ cancel[c].copy.seq <= snap.seq
        /\ Announced => cancel[c].copy.seq < snap.seq

LEMMA StartedParts == StartedInv <=> ExecuteStarted /\ CopiesOld
  BY DEF StartedInv, ExecuteStarted, CopiesOld, Announced

\* An event leads on from a run that has begun, and so does a call.
LEMMA BegunStays ==
    ASSUME LifecycleInv, CallStep \/ Store, snap.state \in Begun
    PROVE  snap'.state \in Begun
<1>1. CASE Store
  <2>1. CASE EmitRead \/ EmitAppend \/ WriteSnapshotFails
    BY <2>1 DEF EmitRead, EmitAppend, WriteSnapshotFails, disk
  <2>2. CASE WriteSnapshot
    <3>1. log[Len(log)] \in Entries
      BY <2>2 DEF WriteSnapshot, LifecycleInv, JournalInv, WritingLeads, TypeOK, Snapshots
    <3>2. log[Len(log)].event \in Events
      BY <3>1 DEF Entries
    <3>3. ASSUME NEW s \in Begun, NEW e \in Events
          PROVE  StateAfterEvent(s, e) \in Begun
      <4>1. e.kind = "run_completed" => e.state \in Terminal
        BY DEF Events
      <4> QED
        BY <4>1 DEF StateAfterEvent, Begun, AgentStates, Waiting, Terminal
    <3> QED
      BY <2>2, <3>2, <3>3 DEF WriteSnapshot
  <2> QED
    BY <1>1, <2>1, <2>2 DEF Store
<1>2. CASE CallStep
  <2>1. ASSUME NEW to, CanTransition(snap.state, to), to # "orphaned"
        PROVE  to \in Begun
    BY <2>1 DEF CanTransition, Allowed, Begun, AgentStates, Waiting, Terminal
  <2>2. CASE snap' = snap
    BY <2>2
  <2>3. CASE snap = Absent
    BY <2>3 DEF Absent, Begun, AgentStates, Waiting, Terminal
  <2>4. ASSUME NEW copy, NEW to, UpdateAccepted(copy, to), Update(copy, to),
               to # "orphaned" \/ (execute.pc = "capabilities" /\ to = execute.copy.state)
        PROVE  snap'.state \in Begun
    <3>1. snap'.state = to /\ CanTransition(snap.state, to)
      BY <2>4 DEF UpdateAccepted, Update
    <3>2. to # "orphaned"
      BY <2>4 DEF LifecycleInv, StartedInv, Begun
    <3> QED
      BY <2>1, <3>1, <3>2
  <2> QED
    BY <1>2, <2>2, <2>3, <2>4, CallSnap DEF SnapStep, LifecycleInv
<1> QED
  BY <1>1, <1>2

\* Only execute() moves its local state; the start of the provider is a part of it.
LEMMA OthersKeepExecute ==
    ASSUME JournalInv, CallStep \/ Store, ~Execute
    PROVE  \/ execute' = execute
           \/ /\ execute.pc = "launch" /\ execute'.copy = execute.copy
              /\ execute'.pc \in {"running", "catch"}
<1>1. execute \in [pc : ExecutePCs, copy : Snapshots]
  BY DEF JournalInv, TypeOK
<1>2. CASE Store \/ CreateRun \/ AnnounceRun \/ Crash \/ UNCHANGED vars
  BY <1>2 DEF Store, EmitRead, EmitAppend, WriteSnapshot, WriteSnapshotFails, CreateRun,
              AnnounceRun, Crash, calls, vars
<1>3. CASE Provider
  BY <1>1, <1>3 DEF Provider, ProviderStarts, ProviderBegins, ProviderAsks, ProviderExits,
     ProviderReports, ProviderSettles, ProviderEventRefused, ExecuteAt, calls
<1>4. ASSUME NEW c \in Cancellers, Cancel(c)
      PROVE  execute' = execute
  BY <1>4 DEF Cancel, CancelRead, CancelWaiting, CancelCompletes, CancelActive
<1>5. ASSUME NEW i \in Inputs, Input(i)
      PROVE  execute' = execute
  BY <1>5 DEF Input, InputRead, InputSends, InputEmits, InputReturns
<1> QED
  BY <1>2, <1>3, <1>4, <1>5 DEF CallStep

LEMMA ExecuteStartedKept ==
    ASSUME LifecycleInv, [Next]_vars
    PROVE  ExecuteStarted'
<1>1. /\ ExecuteStarted
      /\ execute \in [pc : ExecutePCs, copy : Snapshots]
  BY StartedParts DEF LifecycleInv, JournalInv, TypeOK
<1>2. snap.state \in Begun /\ (CallStep \/ Store) => snap'.state \in Begun
  BY BegunStays
<1>3. ASSUME CallStep \/ Store, snap.state \in Terminal
      PROVE  snap'.state = snap.state
  BY <1>3, VerdictStays DEF LifecycleInv
<1>4. CASE Execute
  <2>0. CallStep
    BY <1>4 DEF CallStep
  <2>1. CASE ExecuteRead \/ ExecuteWarned \/ ExecuteSettles
    BY <1>1, <2>1 DEF ExecuteRead, ExecuteWarned, ExecuteSettles, Transition, ExecuteAt,
                      ExecuteWith, ExecuteStarted
  <2>2. CASE ExecuteStart
    <3>1. \/ /\ execute' = [execute EXCEPT !.pc = "discover"]
             /\ Update(execute.copy, "starting")
          \/ execute' = [execute EXCEPT !.pc = "catch"]
      BY <2>2, Zenon DEF ExecuteStart, ExecuteUpdate, ExecuteAt
    <3>2. "starting" \in Begun
      BY DEF Begun, AgentStates
    <3> QED
      BY <1>1, <3>1, <3>2 DEF Update, ExecuteStarted
  <2>3. CASE ExecuteDiscovers
    BY <1>1, <2>3 DEF ExecuteDiscovers, ExecuteAt, ExecuteWith, ExecuteStarted, disk
  <2>4. CASE ExecuteNegotiates
    <3>1. /\ execute.pc = "capabilities"
          /\ \/ execute' = [execute EXCEPT !.pc = "negotiated"]
             \/ execute' = [execute EXCEPT !.pc = "catch"]
      BY <2>4, Zenon DEF ExecuteNegotiates, ExecuteUpdate, ExecuteAt
    <3> QED
      BY <1>1, <1>2, <2>0, <3>1 DEF ExecuteStarted
  <2>5. CASE ExecuteActivates
    BY <1>1, <2>5 DEF ExecuteActivates, ExecuteAt, ExecuteStarted, disk
  <2>6. CASE ExecuteEnds
    <3>1. \/ execute' = [execute EXCEPT !.pc = "finally"]
          \/ execute' = [execute EXCEPT !.pc = "catch"]
      BY <2>6, Zenon DEF ExecuteEnds, ExecuteUpdate, ExecuteAt
    <3> QED
      BY <1>1, <3>1 DEF ExecuteStarted
  <2>7. CASE ExecuteAborts
    <3>1. \/ /\ execute' = [execute EXCEPT !.pc = "error"]
             /\ Update(execute.copy, Aborted(execute.copy.state))
          \/ execute' = [execute EXCEPT !.pc = "throws"]
      BY <2>7, Zenon DEF ExecuteAborts, ExecuteUpdate, ExecuteAt
    <3> QED
      BY <1>1, <3>1 DEF Update, ExecuteStarted
  <2>8. CASE ExecuteCatches \/ ExecuteReports \/ ExecuteCompletes \/ ExecuteFinally
    BY <1>1, <2>8 DEF ExecuteCatches, ExecuteReports, ExecuteCompletes, ExecuteFinally,
                      ExecuteAt, ExecuteWith, ExecuteStarted
  <2> QED
    BY <1>4, <2>1, <2>2, <2>3, <2>4, <2>5, <2>6, <2>7, <2>8 DEF Execute
<1>5. CASE (CallStep \/ Store) /\ ~Execute
  <2>1. \/ execute' = execute
        \/ /\ execute.pc = "launch" /\ execute'.copy = execute.copy
           /\ execute'.pc \in {"running", "catch"}
    BY <1>5, OthersKeepExecute DEF LifecycleInv
  <2>2. Aborted(execute.copy.state) \in Terminal
    BY EventTypes
  <2> QED
    BY <1>1, <1>2, <1>3, <1>5, <2>1, <2>2 DEF ExecuteStarted
<1>6. CASE Restart
  BY <1>6 DEF Restart, Fresh, ExecuteStarted
<1> QED
  BY <1>4, <1>5, <1>6, StepCases

\* Only the store tells execute() that an event of it is through.
LEMMA CallAnnounces ==
    ASSUME LifecycleInv, CallStep, Announced'
    PROVE  Announced
<1>1. /\ reply \in [Callers -> {"none", "ok", "failed"}]
      /\ execute \in [pc : ExecutePCs, copy : Snapshots]
      /\ "execute" \in Callers
  BY DEF LifecycleInv, JournalInv, TypeOK, Callers
<1>2. reply'["execute"] = "ok" => reply["execute"] = "ok"
  BY <1>1, CallEmits DEF EmitStep, Emit
<1>3. CASE ~Execute
  <2>1. \/ execute' = execute
        \/ execute.pc = "launch" /\ execute'.pc \in {"running", "catch"}
    BY <1>3, OthersKeepExecute DEF LifecycleInv
  <2> QED
    BY <1>2, <2>1 DEF Announced
<1>4. CASE Execute
  <2>1. CASE ExecuteNegotiates
    <3>1. \/ Emit("execute", Event("capabilities_negotiated")) /\ ExecuteAt("negotiated")
          \/ ExecuteAt("catch")
      BY <2>1, Zenon DEF ExecuteNegotiates, ExecuteUpdate
    <3> QED
      BY <1>1, <3>1 DEF Emit, ExecuteAt, Announced
  <2>2. CASE ExecuteActivates
    BY <1>1, <2>2 DEF ExecuteActivates, ExecuteAt, Announced
  <2>3. CASE ExecuteStart \/ ExecuteEnds \/ ExecuteAborts
    <3>1. execute'.pc \in {"discover", "catch", "finally", "error", "throws"}
      BY <1>1, <2>3 DEF ExecuteStart, ExecuteEnds, ExecuteAborts, ExecuteUpdate, ExecuteAt
    <3> QED
      BY <3>1 DEF Announced
  <2>4. CASE ExecuteRead \/ ExecuteWarned \/ ExecuteDiscovers \/ ExecuteSettles
                \/ ExecuteCatches \/ ExecuteReports \/ ExecuteCompletes \/ ExecuteFinally
    <3>1. execute'.pc \notin {"launch", "running", "negotiated"}
      BY <1>1, <2>4 DEF ExecuteRead, ExecuteWarned, ExecuteDiscovers, ExecuteSettles,
         ExecuteCatches, ExecuteReports, ExecuteCompletes, ExecuteFinally, Transition,
         ExecuteAt, ExecuteWith
    <3> QED
      BY <3>1 DEF Announced
  <2> QED
    BY <1>4, <2>1, <2>2, <2>3, <2>4 DEF Execute
<1> QED
  BY <1>3, <1>4

LEMMA CopiesKept ==
    ASSUME LifecycleInv, [Next]_vars
    PROVE  CopiesOld'
<1>1. /\ CopiesOld /\ ExecuteStarted
      /\ snap \in Snapshots /\ snap.seq \in Nat
      /\ cancel \in [Cancellers ->
            [pc : {"idle", "cancelled", "cancelling", "completing", "done"}, copy : Snapshots]]
      /\ \A c \in Cancellers : cancel[c].copy.seq \in Nat
  BY StartedParts DEF LifecycleInv, JournalInv, TypeOK, Snapshots
<1>2. CASE CallStep
  <2>1. snap'.seq = snap.seq
    BY <1>2, CallQuiet DEF Quiet, LifecycleInv
  <2>2. ASSUME NEW c \in Cancellers, cancel'[c].pc = "cancelled"
        PROVE  cancel'[c] = cancel[c] \/ (cancel'[c].copy = snap /\ ~Announced)
    <3>1. CASE \E d \in Cancellers : CancelRead(d)
      <4>1. PICK d \in Cancellers : CancelRead(d)
        BY <3>1
      <4>2. CASE d = c
        <5>1. cancel'[c].copy = snap /\ snap.state \in {"queued", "orphaned"}
          BY <1>1, <2>2, <4>1, <4>2 DEF CancelRead
        <5>2. ~Announced
          BY <1>1, <5>1 DEF ExecuteStarted, Announced, Begun
        <5> QED
          BY <5>1, <5>2
      <4>3. CASE d # c
        BY <1>1, <4>1, <4>3 DEF CancelRead
      <4> QED
        BY <4>2, <4>3
    <3>2. CASE \E d \in Cancellers : CancelWaiting(d) \/ CancelCompletes(d) \/ CancelActive(d)
      <4>1. PICK d \in Cancellers, pc \in {"done", "completing"} :
                cancel' = [cancel EXCEPT ![d].pc = pc]
        BY <3>2 DEF CancelWaiting, CancelCompletes, CancelActive
      <4> QED
        BY <1>1, <2>2, <4>1
    <3>3. CASE ~(\E d \in Cancellers : Cancel(d))
      <4>1. cancel' = cancel
        <5>1. CASE Provider \/ CreateRun \/ AnnounceRun \/ Crash \/ UNCHANGED vars
          BY <5>1 DEF Provider, ProviderStarts, ProviderBegins, ProviderAsks, ProviderExits,
             ProviderReports, ProviderSettles, ProviderEventRefused, CreateRun, AnnounceRun,
             Crash, calls, vars
        <5>2. ASSUME NEW i \in Inputs, Input(i)
              PROVE  cancel' = cancel
          BY <5>2 DEF Input, InputRead, InputSends, InputEmits, InputReturns
        <5> QED
          BY <1>2, <3>3, <5>1, <5>2, ExecuteKeeps DEF CallStep
      <4> QED
        BY <4>1
    <3> QED
      BY <3>1, <3>2, <3>3 DEF Cancel
  <2>3. Announced' => Announced
    BY <1>2, CallAnnounces
  <2>4. ASSUME NEW c \in Cancellers, cancel'[c].pc = "cancelled"
        PROVE  /\ cancel'[c].copy.seq <= snap'.seq
               /\ Announced' => cancel'[c].copy.seq < snap'.seq
    BY <1>1, <2>1, <2>2, <2>3, <2>4 DEF CopiesOld
  <2> QED
    BY <2>4 DEF CopiesOld
<1>3. CASE Store
  <2>1. /\ cancel' = cancel /\ execute' = execute
        /\ emits \in Seq(Emits) /\ reply \in [Callers -> {"none", "ok", "failed"}]
    BY <1>3 DEF Store, EmitRead, EmitAppend, WriteSnapshot, WriteSnapshotFails, calls,
                LifecycleInv, JournalInv, TypeOK
  <2>2. ASSUME NEW r, emits # <<>>, Settle(r), Head(emits).by # "execute" \/ r # "ok"
        PROVE  reply'["execute"] = "ok" => reply["execute"] = "ok"
    BY <2>1, <2>2 DEF Settle, Callers
  <2>3. CASE WriteSnapshot /\ snap' # snap
    <3>1. snap'.seq = snap.seq + 1
      <4>1. Len(log) = snap.seq + 1 /\ log[Len(log)].seq = Len(log)
        BY <1>1, <2>3 DEF LifecycleInv, JournalInv, WritingLeads, LogLeads, WriteSnapshot, TypeOK
      <4> QED
        BY <2>3, <4>1 DEF WriteSnapshot
    <3>2. \A c \in Cancellers :
            cancel'[c].pc = "cancelled" => cancel'[c].copy.seq <= snap.seq
      BY <1>1, <2>1 DEF CopiesOld
    <3>3. ASSUME NEW c \in Cancellers, cancel'[c].pc = "cancelled"
          PROVE  cancel'[c].copy.seq < snap'.seq /\ cancel'[c].copy.seq <= snap'.seq
      BY <1>1, <2>1, <3>1, <3>2, <3>3
    <3> QED
      BY <3>3 DEF CopiesOld
  <2>4. CASE ~(WriteSnapshot /\ snap' # snap)
    <3>1. snap' = snap
      BY <1>3, <2>4 DEF Store, EmitRead, EmitAppend, WriteSnapshot, WriteSnapshotFails, disk
    <3>2. reply'["execute"] = "ok" => reply["execute"] = "ok"
      <4>1. CASE EmitRead
        <5>1. emits # <<>>
          BY <4>1 DEF EmitRead
        <5>2. (Settle("ok") /\ Head(emits).by = "provider") \/ reply' = reply
          BY <4>1 DEF EmitRead
        <5> QED
          BY <2>2, <5>1, <5>2
      <4>2. CASE EmitAppend \/ WriteSnapshotFails
        <5>1. emits # <<>>
          BY <4>2 DEF EmitAppend, WriteSnapshotFails, LifecycleInv, JournalInv, WritingLeads
        <5>2. Settle("failed") \/ reply' = reply
          BY <4>2 DEF EmitAppend, WriteSnapshotFails
        <5> QED
          BY <2>2, <5>1, <5>2
      <4>3. CASE WriteSnapshot
        <5>1. emits # <<>> /\ Len(log) = snap.seq + 1 /\ log[Len(log)].seq = Len(log)
          BY <1>1, <4>3 DEF LifecycleInv, JournalInv, WritingLeads, LogLeads, WriteSnapshot, TypeOK
        <5>2. ~(snap' = [state |-> StateAfterEvent(snap.state, log[Len(log)].event),
                         seq |-> log[Len(log)].seq])
          BY <1>1, <3>1, <5>1
        <5>3. Settle("failed")
          BY <4>3, <5>2 DEF WriteSnapshot
        <5> QED
          BY <2>2, <5>1, <5>3
      <4> QED
        BY <1>3, <4>1, <4>2, <4>3 DEF Store
    <3> QED
      BY <1>1, <2>1, <3>1, <3>2 DEF CopiesOld, Announced
  <2> QED
    BY <2>3, <2>4
<1>4. CASE Restart
  BY <1>4 DEF Restart, Fresh, CopiesOld
<1> QED
  BY <1>2, <1>3, <1>4, StepCases

LEMMA StartedKept ==
    ASSUME LifecycleInv, [Next]_vars
    PROVE  StartedInv'
<1>1. ExecuteStarted' /\ CopiesOld'
  BY ExecuteStartedKept, CopiesKept
<1> QED
  BY <1>1 DEF StartedInv, ExecuteStarted, CopiesOld, Announced

-----------------------------------------------------------------------------
(* Verdicts agree *)

\* A step that leaves the log alone and the verdict of a snapshot that has one.
LEMMA VerdictFrame ==
    ASSUME LifecycleInv, UNCHANGED log,
           \/ snap'.seq = snap.seq
           \/ Len(log) = snap.seq + 1 /\ snap'.seq = Len(log) /\
              (Len(log) \in Verdicts => snap'.state = log[Len(log)].event.state),
           snap.state \in Terminal => snap'.state = snap.state
    PROVE  VerdictInv'
<1>1. /\ log \in Seq(Entries) /\ snap.seq \in Nat
      /\ VerdictInv
  BY DEF LifecycleInv, JournalInv, TypeOK, Snapshots
<1>2. ASSUME NEW k \in Verdicts
      PROVE  k \in Nat /\ k <= Len(log) /\ log[k].event.state \in Terminal
  <2>1. k \in DOMAIN log /\ log[k] \in Entries /\ log[k].event.kind = "run_completed"
    BY <1>1 DEF Verdicts
  <2>2. log[k].event \in Events
    BY <2>1 DEF Entries
  <2> QED
    BY <1>1, <2>1, <2>2 DEF Events
<1>3. ASSUME NEW k \in Verdicts, k <= snap'.seq
      PROVE  snap'.state = log[k].event.state
  <2>1. CASE k <= snap.seq
    BY <1>1, <1>2, <2>1 DEF VerdictInv
  <2>2. CASE ~(k <= snap.seq)
    <3>1. k = Len(log) /\ snap'.seq = Len(log)
      BY <1>1, <1>2, <1>3, <2>2
    <3> QED
      BY <1>1, <1>3, <2>2, <3>1
  <2> QED
    BY <2>1, <2>2
<1>4. Verdicts' = Verdicts
  BY DEF Verdicts
<1> QED
  BY <1>1, <1>3, <1>4 DEF VerdictInv, OneVerdict, IsLastSetting

\* The event that is appended agrees with every verdict before it.
LEMMA VerdictAppended ==
    ASSUME LifecycleInv, EmitAppend, Fits(Head(emits).seq)
    PROVE  VerdictInv'
<1> DEFINE e == Head(emits)
           entry == [event |-> e.event, seq |-> e.seq]
           n == Len(log)
<1>1. /\ log \in Seq(Entries) /\ snap.seq \in Nat /\ emits \in Seq(Emits)
      /\ LogLeads /\ VerdictInv /\ PendingInv
  BY DEF LifecycleInv, JournalInv, TypeOK, Snapshots
<1>2. /\ emits # <<>> /\ e = emits[1] /\ 1 \in DOMAIN emits /\ e.seq # 0
      /\ snap' = snap /\ log' = Append(log, entry)
      /\ e \in Emits /\ e.event \in Events
  <2>1. /\ emits # <<>> /\ Head(emits).seq # 0 /\ snap' = snap
        /\ log' = Append(log, [event |-> Head(emits).event, seq |-> Head(emits).seq])
    BY DEF EmitAppend
  <2>2. Head(emits) = emits[1] /\ 1 \in DOMAIN emits /\ Head(emits) \in Emits
    BY <1>1, <2>1
  <2>3. Head(emits).event \in Events
    BY <2>2 DEF Emits
  <2> QED
    BY <2>1, <2>2, <2>3
<1>3. n = snap.seq
  <2>1. n # snap.seq + 1
    <3>1. ASSUME n = snap.seq + 1
          PROVE  FALSE
      <4>1. n \in DOMAIN log /\ log[n].seq = n
        BY <1>1, <3>1 DEF LogLeads
      <4> QED
        BY <3>1, <4>1 DEF Fits
    <3> QED
      BY <3>1
  <2> QED
    BY <1>1, <2>1 DEF LogLeads
<1>4. ASSUME NEW k \in Verdicts
      PROVE  /\ snap.state = log[k].event.state /\ snap.state \in Terminal
             /\ log[k].event \in [kind : {"run_completed"}, state : Terminal]
  <2>1. k \in DOMAIN log /\ log[k] \in Entries /\ log[k].event.kind = "run_completed"
    BY <1>1 DEF Verdicts
  <2>2. log[k].event \in [kind : {"run_completed"}, state : Terminal]
    BY <2>1 DEF Entries, Events
  <2>3. k <= snap.seq
    BY <1>1, <1>3, <2>1
  <2> QED
    BY <1>1, <2>2, <2>3 DEF VerdictInv
<1>5. ASSUME Sets(e.event), NEW k \in Verdicts
      PROVE  e.event = log[k].event
  <2>1. e.by # "provider" /\ e.event.kind = "run_completed" /\ e.event.state = snap.state
    BY <1>1, <1>2, <1>4, <1>5 DEF PendingInv
  <2>2. e.event \in [kind : {"run_completed"}, state : Terminal]
    BY <1>2, <2>1 DEF Events
  <2> QED
    BY <1>4, <2>1, <2>2
<1>6. /\ entry.event = e.event
      /\ n \in Nat /\ DOMAIN log = 1 .. n /\ DOMAIN log' = 1 .. n + 1
      /\ \A k \in 1 .. n : log'[k] = log[k]
      /\ log'[n + 1] = entry
  BY <1>1, <1>2
<1> HIDE DEF entry, e, n
<1>7. \A k \in DOMAIN log' : k \in DOMAIN log \/ k = n + 1
  BY <1>6
<1>8. \A k \in Verdicts' : k \in Verdicts \/ (k = n + 1 /\ e.event.kind = "run_completed")
  BY <1>6, <1>7 DEF Verdicts
<1>9. e.event.kind = "run_completed" => Sets(e.event)
  BY DEF Sets
<1>10. OneVerdict'
  <2>1. ASSUME NEW j \in Verdicts', NEW k \in Verdicts'
        PROVE  log'[j].event = log'[k].event
    <3>1. CASE j \in Verdicts /\ k \in Verdicts
      BY <1>1, <1>6, <3>1 DEF VerdictInv, OneVerdict, Verdicts
    <3>2. CASE j = n + 1 /\ k = n + 1
      BY <3>2
    <3>3. CASE j = n + 1 /\ k \in Verdicts /\ e.event.kind = "run_completed"
      BY <1>5, <1>6, <1>9, <3>3 DEF Verdicts
    <3>4. CASE k = n + 1 /\ j \in Verdicts /\ e.event.kind = "run_completed"
      BY <1>5, <1>6, <1>9, <3>4 DEF Verdicts
    <3> QED
      BY <1>8, <3>1, <3>2, <3>3, <3>4
  <2> QED
    BY <2>1 DEF OneVerdict, Verdicts
<1>11. ASSUME NEW k \in Verdicts'
       PROVE  /\ k <= snap'.seq => snap'.state = log'[k].event.state
              /\ \A j \in DOMAIN log' : k < j /\ Sets(log'[j].event) => j \in Verdicts'
  <2>1. CASE k = n + 1
    BY <1>1, <1>2, <1>3, <1>6, <2>1
  <2>2. CASE k \in Verdicts
    <3>1. snap'.state = log'[k].event.state
      BY <1>2, <1>4, <1>6, <2>2 DEF Verdicts
    <3>2. ASSUME NEW j \in DOMAIN log', k < j, Sets(log'[j].event)
          PROVE  j \in Verdicts'
      <4>1. CASE j \in DOMAIN log
        BY <1>1, <1>6, <2>2, <3>2, <4>1 DEF VerdictInv, Verdicts
      <4>2. CASE j = n + 1
        BY <1>4, <1>5, <1>6, <2>2, <3>2, <4>2 DEF Verdicts
      <4> QED
        BY <1>7, <4>1, <4>2
    <3> QED
      BY <3>1, <3>2
  <2> QED
    BY <1>8, <2>1, <2>2
<1>12. (\E k \in DOMAIN log' : Sets(log'[k].event)) =>
            \E k \in DOMAIN log' : IsLastSetting(log', k)
  <2>1. CASE Sets(e.event)
    <3>1. IsLastSetting(log', n + 1)
      BY <1>6, <2>1 DEF IsLastSetting
    <3> QED
      BY <1>6, <3>1
  <2>2. CASE ~Sets(e.event)
    <3>1. ASSUME NEW k \in DOMAIN log', Sets(log'[k].event)
          PROVE  \E l \in DOMAIN log' : IsLastSetting(log', l)
      <4>1. k \in DOMAIN log /\ Sets(log[k].event)
        BY <1>6, <1>7, <2>2, <3>1
      <4>2. PICK l \in DOMAIN log : IsLastSetting(log, l)
        BY <1>1, <4>1 DEF VerdictInv
      <4>3. IsLastSetting(log', l) /\ l \in DOMAIN log'
        BY <1>6, <1>7, <2>2, <4>2 DEF IsLastSetting
      <4> QED
        BY <4>3
    <3> QED
      BY <3>1
  <2> QED
    BY <2>1, <2>2
<1> QED
  BY <1>10, <1>11, <1>12 DEF VerdictInv

\* A verdict in the log is what the replay finds.
LEMMA VerdictReplays ==
    ASSUME LifecycleInv, NEW k \in Verdicts
    PROVE  Replay(log) = log[k].event.state /\ log[k].event.state \in Terminal
<1>1. log \in Seq(Entries) /\ VerdictInv
  BY DEF LifecycleInv, JournalInv, TypeOK
<1>2. k \in DOMAIN log /\ log[k].event.kind = "run_completed" /\ Sets(log[k].event)
  BY DEF Verdicts, Sets
<1> DEFINE last == CHOOSE l \in DOMAIN log : IsLastSetting(log, l)
           s == StateSet(log[last].event)
<1>3. last \in DOMAIN log /\ IsLastSetting(log, last)
  BY <1>1, <1>2 DEF VerdictInv
<1> HIDE DEF last
<1>4. last \in Verdicts
  <2>1. k <= last /\ k \in Nat /\ last \in Nat
    BY <1>1, <1>2, <1>3 DEF IsLastSetting
  <2>2. CASE k = last
    BY <2>2
  <2>3. CASE k < last
    BY <1>1, <1>3, <2>3 DEF VerdictInv, IsLastSetting
  <2> QED
    BY <2>1, <2>2, <2>3
<1>5. log[last].event = log[k].event
  BY <1>1, <1>2, <1>4 DEF VerdictInv, OneVerdict, Verdicts
<1>6. s = log[k].event.state
  BY <1>2, <1>5 DEF StateSet
<1>7. log[k].event.state \in Terminal
  <2>1. log[k] \in Entries
    BY <1>1, <1>2
  <2> QED
    BY <1>2, <2>1 DEF Entries, Events
<1> HIDE DEF s
<1>8. \A e : ~Resumes(e, s)
  BY <1>6, <1>7 DEF Resumes, Terminal
<1>9. Replay(log) = s
  BY <1>2, <1>8 DEF Replay, last, s
<1> QED
  BY <1>6, <1>7, <1>9

\* A restart takes the verdict from the log.
LEMMA VerdictRecovered ==
    ASSUME LifecycleInv, CanReplay(log), NEW k \in Verdicts
    PROVE  Recovered.state = log[k].event.state
<1>1. Replay(log) = log[k].event.state /\ log[k].event.state \in Terminal
  BY VerdictReplays
<1>2. Recovered = [state |-> IF Replay(log) \in Terminal THEN Replay(log) ELSE "orphaned",
                   seq   |-> log[Len(log)].seq]
  BY DEF Recovered, CanReplay
<1> QED
  BY <1>1, <1>2

LEMMA VerdictKept ==
    ASSUME LifecycleInv, [Next]_vars
    PROVE  VerdictInv'
<1>1. /\ log \in Seq(Entries) /\ snap.seq \in Nat /\ VerdictInv
      /\ LogLeads /\ WritingLeads /\ ChainInv /\ PendingInv
  BY DEF LifecycleInv, JournalInv, TypeOK, Snapshots
<1>2. ASSUME CallStep \/ Store, snap.state \in Terminal
      PROVE  snap'.state = snap.state
  BY <1>2, VerdictStays DEF LifecycleInv
<1>3. CASE CallStep
  BY <1>2, <1>3, CallQuiet, VerdictFrame DEF Quiet, LifecycleInv
<1>4. CASE Store
  <2>1. CASE EmitRead \/ WriteSnapshotFails
    BY <1>2, <1>4, <2>1, VerdictFrame DEF EmitRead, WriteSnapshotFails, disk
  <2>2. CASE EmitAppend
    <3>1. CASE Fits(Head(emits).seq)
      BY <2>2, <3>1, VerdictAppended
    <3>2. CASE ~Fits(Head(emits).seq)
      BY <1>2, <1>4, <2>2, <3>2, VerdictFrame DEF EmitAppend
    <3> QED
      BY <3>1, <3>2
  <2>3. CASE WriteSnapshot
    <3>1. /\ Len(log) = snap.seq + 1 /\ log[Len(log)].seq = Len(log)
          /\ log' = log /\ Len(log) \in DOMAIN log
      BY <1>1, <2>3 DEF WriteSnapshot, WritingLeads, LogLeads
    <3>2. CASE snap' = snap
      BY <1>2, <1>4, <3>1, <3>2, VerdictFrame
    <3>3. CASE snap' # snap
      <4>1. /\ snap'.seq = Len(log)
            /\ snap'.state = StateAfterEvent(snap.state, log[Len(log)].event)
        BY <2>3, <3>1, <3>3 DEF WriteSnapshot
      <4>2. ASSUME Len(log) \in Verdicts
            PROVE  snap'.state = log[Len(log)].event.state
        <5>1. /\ log[Len(log)].event = Head(emits).event /\ Head(emits).seq # 0
              /\ emits # <<>> /\ Head(emits) = emits[1] /\ 1 \in DOMAIN emits
          BY <1>1, <2>3 DEF ChainInv, WriteSnapshot, WritingLeads, LifecycleInv, JournalInv, TypeOK
        <5>2. log[Len(log)].event.kind = "run_completed"
          BY <4>2 DEF Verdicts
        <5>3. CASE snap.state \in Terminal
          BY <1>1, <1>2, <1>4, <5>1, <5>2, <5>3 DEF PendingInv
        <5>4. CASE snap.state \notin Terminal
          BY <4>1, <5>2, <5>4 DEF StateAfterEvent
        <5> QED
          BY <5>3, <5>4
      <4> QED
        BY <1>2, <1>4, <3>1, <4>1, <4>2, VerdictFrame
    <3> QED
      BY <3>2, <3>3
  <2> QED
    BY <1>4, <2>1, <2>2, <2>3 DEF Store
<1>5. CASE Restart
  <2>1. log' = log /\ snap' = Recovered
    BY <1>5 DEF Restart
  <2>2. Verdicts' = Verdicts /\ OneVerdict'
    BY <1>1, <2>1 DEF Verdicts, OneVerdict, VerdictInv
  <2>3. ASSUME NEW k \in Verdicts, k <= Recovered.seq
        PROVE  Recovered.state = log[k].event.state
    <3>1. CASE CanReplay(log)
      BY <3>1, VerdictRecovered
    <3>2. CASE ~CanReplay(log)
      <4>1. log # <<>>
        BY <1>1 DEF Verdicts
      <4>2. Recovered = snap
        BY <3>2, <4>1, Zenon DEF Recovered
      <4> QED
        BY <1>1, <2>3, <4>2 DEF VerdictInv
    <3> QED
      BY <3>1, <3>2
  <2>4. \A k \in Verdicts' :
            /\ k <= snap'.seq => snap'.state = log'[k].event.state
            /\ \A j \in DOMAIN log' : k < j /\ Sets(log'[j].event) => j \in Verdicts'
    BY <1>1, <2>1, <2>2, <2>3 DEF VerdictInv
  <2>5. (\E k \in DOMAIN log' : Sets(log'[k].event)) =>
            \E k \in DOMAIN log' : IsLastSetting(log', k)
    BY <1>1, <2>1 DEF VerdictInv, IsLastSetting
  <2> QED
    BY <2>2, <2>4, <2>5 DEF VerdictInv
<1> QED
  BY <1>3, <1>4, <1>5, StepCases

LEMMA LifecycleInit == Init => LifecycleInv
<1> SUFFICES ASSUME Init
             PROVE  LifecycleInv
  OBVIOUS
<1>1. JournalInv
  BY JournalInit
<1>2. ProviderWaited /\ ChainInv /\ PendingInv
  BY DEF Init, NoProvider, ProviderWaited, ChainInv, PendingInv, Emitting
<1>3. StartedInv
  BY DEF Init, StartedInv
<1>4. VerdictInv
  BY DEF Init, VerdictInv, Verdicts, OneVerdict
<1> QED
  BY <1>1, <1>2, <1>3, <1>4 DEF LifecycleInv

LEMMA LifecycleKept == LifecycleInv /\ [Next]_vars => LifecycleInv'
  BY JournalKept, WaitedKept, ChainKept, PendingKept, StartedKept, VerdictKept DEF LifecycleInv

LEMMA LifecycleInvariant == Spec => []LifecycleInv
  BY LifecycleInit, LifecycleKept, PTL DEF Spec

-----------------------------------------------------------------------------
(* What the log tells of a run that is over *)

\* The log holds the verdict the snapshot has.
Agrees == \E k \in Verdicts : log[k].event.state = snap.state

\* What a step other than a restart leaves of the bounds.
LEMMA ServerKept ==
    ASSUME TypeOK, CallStep \/ Store
    PROVE  /\ server'.up => server.up
           /\ server'.restarts = server.restarts
           /\ server'.failures = 0 => server.failures = 0
           /\ server'.crashes = 0 => server.crashes = 0
           /\ Store => server.up /\ server'.up = server.up /\ server'.crashes = server.crashes
<1>1. /\ server \in [up : BOOLEAN, crashes : Nat, restarts : Nat, failures : Nat]
      /\ server.failures \in Nat /\ server.crashes \in Nat
  BY DEF TypeOK
<1>2. CASE UNCHANGED server
  BY <1>2 DEF Store, EmitRead, EmitAppend, WriteSnapshot, WriteSnapshotFails, Running
<1>3. CASE server' = [server EXCEPT !.failures = @ + 1] /\ ~Store
  BY <1>1, <1>3
<1>4. CASE server' = [server EXCEPT !.up = FALSE] /\ ~Store
  BY <1>1, <1>4
<1>5. CASE server' = [server EXCEPT !.up = FALSE, !.crashes = @ + 1] /\ ~Store
  <2>1. server'.crashes = server.crashes + 1 /\ ~server'.up
    BY <1>1, <1>5, Zenon
  <2>2. server'.restarts = server.restarts /\ server'.failures = server.failures
    BY <1>1, <1>5
  <2>3. server'.crashes # 0
    BY <1>1, <2>1
  <2> QED
    BY <1>5, <2>1, <2>2, <2>3, Zenon
<1>6. CASE Store
  <2>1. CASE WriteSnapshotFails
    <3>1. server.up /\ server' = [server EXCEPT !.failures = server.failures + 1]
      BY <2>1 DEF WriteSnapshotFails, Fails
    <3>2. /\ server'.up = server.up /\ server'.crashes = server.crashes
          /\ server'.restarts = server.restarts /\ server'.failures = server.failures + 1
      BY <1>1, <3>1, Zenon
    <3>3. server'.failures # 0
      BY <1>1, <3>2
    <3> QED
      BY <3>1, <3>2, <3>3, Zenon
  <2>2. CASE EmitRead \/ EmitAppend \/ WriteSnapshot
    BY <1>2, <2>2 DEF EmitRead, EmitAppend, WriteSnapshot
  <2> QED
    BY <1>6, <2>1, <2>2 DEF Store
<1>7. CASE CallStep /\ ~Store
  <2>1. CASE Execute
    <3>1. UNCHANGED server \/ Fails \/ Dies
      BY <2>1, Zenon DEF Execute, ExecuteRead, ExecuteWarned, ExecuteStart, ExecuteDiscovers,
         ExecuteNegotiates, ExecuteActivates, ExecuteSettles, ExecuteEnds, ExecuteCatches,
         ExecuteAborts, ExecuteReports, ExecuteCompletes, ExecuteFinally, ExecuteUpdate
    <3> QED
      BY <1>2, <1>3, <1>4, <1>7, <3>1 DEF Fails, Dies
  <2>2. CASE Provider
    BY <1>2, <1>4, <1>7, <2>2 DEF Provider, ProviderStarts, ProviderBegins, ProviderAsks,
       ProviderExits, ProviderReports, ProviderSettles, ProviderEventRefused, Dies
  <2>3. ASSUME NEW c \in Cancellers, Cancel(c)
        PROVE  UNCHANGED server \/ Fails
    BY <2>3, Zenon DEF Cancel, CancelRead, CancelWaiting, CancelCompletes, CancelActive
  <2>4. ASSUME NEW i \in Inputs, Input(i)
        PROVE  UNCHANGED server
    BY <2>4 DEF Input, InputRead, InputSends, InputEmits, InputReturns
  <2>5. CASE CreateRun \/ AnnounceRun \/ Crash \/ UNCHANGED vars
    BY <1>2, <1>5, <1>7, <2>5 DEF CreateRun, AnnounceRun, Crash, vars
  <2> QED
    BY <1>2, <1>3, <1>7, <2>1, <2>2, <2>3, <2>4, <2>5 DEF CallStep, Fails
<1> QED
  BY <1>6, <1>7

\* The log only grows.
LEMMA LogGrows ==
    ASSUME LifecycleInv, CallStep \/ Store
    PROVE  /\ log \in Seq(Entries) /\ log' \in Seq(Entries)
           /\ \A k \in DOMAIN log : k \in DOMAIN log' /\ log'[k] = log[k]
           /\ CanReplay(log) => CanReplay(log')
<1>1. log \in Seq(Entries) /\ log' \in Seq(Entries)
  BY TypesKept DEF LifecycleInv, JournalInv, TypeOK, Store, CallStep, Next
<1>2. \/ log' = log
      \/ log' = Append(log, [event |-> Head(emits).event, seq |-> Head(emits).seq])
  BY CallQuiet DEF Quiet, LifecycleInv, Store, EmitRead, EmitAppend, WriteSnapshot,
     WriteSnapshotFails, disk
<1> DEFINE x == [event |-> Head(emits).event, seq |-> Head(emits).seq]
<1>3. log' = log \/ log' = Append(log, x)
  BY <1>2
<1> HIDE DEF x
<1>4. \A k \in DOMAIN log : k \in DOMAIN log' /\ log'[k] = log[k]
  BY <1>1, <1>3
<1>5. CanReplay(log) => CanReplay(log')
  <2>1. log # <<>> => 1 \in DOMAIN log
    BY <1>1
  <2> QED
    BY <1>1, <1>4, <2>1 DEF CanReplay
<1> QED
  BY <1>1, <1>4, <1>5

\* A verdict that agrees goes on agreeing.
LEMMA AgreesStays ==
    ASSUME LifecycleInv, CallStep \/ Store, Agrees
    PROVE  Agrees'
<1>1. PICK k \in Verdicts : log[k].event.state = snap.state
  BY DEF Agrees
<1>2. log[k].event.state \in Terminal
  <2>1. log[k] \in Entries /\ log[k].event.kind = "run_completed"
    BY <1>1, LogGrows DEF Verdicts
  <2> QED
    BY <2>1 DEF Entries, Events
<1>3. snap'.state = snap.state
  BY <1>1, <1>2, VerdictStays DEF LifecycleInv
<1>4. k \in Verdicts' /\ log'[k] = log[k]
  BY <1>1, LogGrows DEF Verdicts
<1> QED
  BY <1>1, <1>3, <1>4 DEF Agrees

\* What the store makes of the chain of emits.
LEMMA StoreChain ==
    ASSUME LifecycleInv, Store
    PROVE  \/ /\ DOMAIN emits' = DOMAIN emits /\ reply' = reply
              /\ \A k \in DOMAIN emits : /\ emits'[k].by = emits[k].by
                                         /\ emits'[k].event = emits[k].event
           \/ /\ emits # <<>> /\ 1 \in DOMAIN emits /\ Head(emits) = emits[1]
              /\ emits[1].by \in Callers
              /\ \E r \in {"ok", "failed"} : reply' = [reply EXCEPT ![emits[1].by] = r]
              /\ \A k \in DOMAIN emits' :
                    k \in Nat /\ k # 0 /\ k + 1 \in DOMAIN emits /\ emits'[k] = emits[k + 1]
              /\ \A k \in DOMAIN emits :
                    k # 1 => k - 1 \in DOMAIN emits' /\ emits'[k - 1] = emits[k]
<1>1. emits \in Seq(Emits) /\ WritingLeads
  BY DEF LifecycleInv, JournalInv, TypeOK
<1>2. ASSUME emits # <<>>, NEW r \in {"ok", "failed"}, Settle(r)
      PROVE  /\ 1 \in DOMAIN emits /\ Head(emits) = emits[1] /\ emits[1].by \in Callers
             /\ reply' = [reply EXCEPT ![emits[1].by] = r]
             /\ \A k \in DOMAIN emits' :
                    k \in Nat /\ k # 0 /\ k + 1 \in DOMAIN emits /\ emits'[k] = emits[k + 1]
             /\ \A k \in DOMAIN emits :
                    k # 1 => k - 1 \in DOMAIN emits' /\ emits'[k - 1] = emits[k]
  <2>1. /\ Head(emits) = emits[1] /\ 1 \in DOMAIN emits
        /\ \A k \in DOMAIN emits' :
                k \in Nat /\ k # 0 /\ k + 1 \in DOMAIN emits /\ emits'[k] = emits[k + 1]
    BY <1>1, <1>2, Settled
  <2>2. emits[1] \in Emits
    BY <1>1, <2>1
  <2>3. ASSUME NEW k \in DOMAIN emits, k # 1
        PROVE  k - 1 \in DOMAIN emits' /\ emits'[k - 1] = emits[k]
    <3>1. emits' = Tail(emits)
      BY <1>2 DEF Settle
    <3>2. k - 1 \in 1 .. Len(emits) - 1
      BY <1>1, <2>3
    <3> QED
      BY <1>1, <1>2, <3>1, <3>2
  <2> QED
    BY <1>2, <2>1, <2>2, <2>3 DEF Settle, Emits
<1>3. CASE EmitRead
  <2>1. emits # <<>>
    BY <1>3 DEF EmitRead
  <2>2. CASE Settle("ok")
    BY <1>2, <2>1, <2>2
  <2>3. CASE emits' = [emits EXCEPT ![1].seq = snap.seq + 1] /\ reply' = reply
    BY <1>1, <2>1, <2>3 DEF Emits
  <2> QED
    BY <1>3, <2>2, <2>3 DEF EmitRead
<1>4. CASE EmitAppend
  BY <1>2, <1>4 DEF EmitAppend
<1>5. CASE WriteSnapshot \/ WriteSnapshotFails
  BY <1>1, <1>2, <1>5 DEF WriteSnapshot, WriteSnapshotFails, WritingLeads
<1> QED
  BY <1>3, <1>4, <1>5 DEF Store

\* What the answer of an emit says.
LEMMA StoreAnswers ==
    ASSUME LifecycleInv, Store, NEW c \in Callers, reply'[c] = "ok", reply[c] # "ok"
    PROVE  /\ 1 \in DOMAIN emits /\ c = emits[1].by
           /\ \/ c = "provider" /\ snap' = snap /\ snap.state \in Terminal
              \/ /\ Len(log) \in DOMAIN log /\ log' = log
                 /\ log[Len(log)].event = emits[1].event
                 /\ snap'.state = StateAfterEvent(snap.state, emits[1].event)
<1>1. /\ emits \in Seq(Emits) /\ reply \in [Callers -> {"none", "ok", "failed"}]
      /\ log \in Seq(Entries) /\ snap.seq \in Nat
      /\ WritingLeads /\ ChainInv
  BY DEF LifecycleInv, JournalInv, TypeOK, Snapshots
<1>2. ASSUME emits # <<>>, NEW r, Settle(r)
      PROVE  1 \in DOMAIN emits /\ Head(emits) = emits[1] /\ c = emits[1].by /\ r = "ok"
  <2>1. Head(emits) = emits[1] /\ 1 \in DOMAIN emits
    BY <1>1, <1>2
  <2>2. reply' = [reply EXCEPT ![emits[1].by] = r]
    BY <1>2, <2>1 DEF Settle
  <2> QED
    BY <1>1, <2>1, <2>2
<1>3. CASE EmitRead
  <2>1. Settle("ok") /\ Head(emits).by = "provider" /\ snap.state \in Terminal
    BY <1>3 DEF EmitRead
  <2> QED
    BY <1>2, <1>3, <2>1 DEF EmitRead, disk
<1>4. CASE EmitAppend
  <2>1. Settle("failed") /\ emits # <<>>
    BY <1>4 DEF EmitAppend
  <2>2. "failed" = "ok"
    BY <1>2, <2>1
  <2> QED
    BY <2>2
<1>5. CASE WriteSnapshotFails
  <2>1. Settle("failed") /\ emits # <<>>
    BY <1>1, <1>5 DEF WriteSnapshotFails, WritingLeads
  <2>2. "failed" = "ok"
    BY <1>2, <2>1
  <2> QED
    BY <2>2
<1>6. CASE WriteSnapshot
  <2>1. /\ emits # <<>> /\ Len(log) = snap.seq + 1 /\ log' = log
        /\ log[Len(log)].event = Head(emits).event
        /\ Settle("ok") \/ Settle("failed")
    BY <1>1, <1>6 DEF WriteSnapshot, WritingLeads, ChainInv
  <2>2. 1 \in DOMAIN emits /\ Head(emits) = emits[1] /\ c = emits[1].by
    BY <1>2, <2>1
  <2>3. ~Settle("failed")
    <3>1. ASSUME Settle("failed")
          PROVE  FALSE
      <4>1. "failed" = "ok"
        BY <1>2, <2>1, <3>1
      <4> QED
        BY <4>1
    <3> QED
      BY <3>1
  <2>4. snap' = [state |-> StateAfterEvent(snap.state, log[Len(log)].event),
                 seq |-> log[Len(log)].seq]
    BY <1>6, <2>3 DEF WriteSnapshot
  <2>5. Len(log) \in DOMAIN log
    BY <1>1, <2>1
  <2> QED
    BY <2>1, <2>2, <2>4, <2>5
<1> QED
  BY <1>3, <1>4, <1>5, <1>6 DEF Store

\* Where execute() waits for an event of its own.
EmittingPCs == {"warned", "negotiated", "error", "completed"}

\* Who adds an event to the chain, and where he stands.
Emitters ==
    \/ emits' = emits /\ reply' \in {reply, [reply EXCEPT !["provider"] = "none"]}
    \/ CreateRun /\ Emit("enqueue", Event("run_created"))
    \/ /\ Execute
       /\ execute.pc # "none" \/ enqueue = "queued"
       /\ execute.pc \in EmittingPCs => reply["execute"] # "none"
       /\ execute'.pc \in EmittingPCs
       /\ \E e \in Events :
            /\ Emit("execute", e)
            /\ execute'.pc = "completed" => e.kind = "run_completed"
    \/ /\ Provider /\ provider.pc # "none"
       /\ \E e \in Events :
            /\ Emit("provider", e)
            /\ provider'.pc = "reported" => e.kind = "run_completed"
    \/ \E c \in Cancellers : CancelWaiting(c) /\ Emit(c, Completed("cancelled"))
    \/ \E i \in Inputs : input[i] = "sent" /\ Emit(i, Event("user_input_received"))

LEMMA ExecuteEmitters ==
    ASSUME TypeOK, Execute
    PROVE  Emitters
<1>1. execute \in [pc : ExecutePCs, copy : Snapshots]
  BY DEF TypeOK
<1>2. UNCHANGED <<emits, reply>> => Emitters
  BY DEF Emitters
<1>3. \A kind \in {"warning", "error", "capabilities_negotiated"} : Event(kind) \in Events
  BY EventTypes
<1>4. \A pc \in ExecutePCs : ExecuteAt(pc) => execute'.pc = pc
  BY <1>1 DEF ExecuteAt
<1>5. CASE ExecuteRead \/ ExecuteSettles
  <2>1. \/ UNCHANGED <<emits, reply>>
        \/ ExecuteAt("warned") /\ Emit("execute", Event("warning"))
    BY <1>5 DEF ExecuteRead, ExecuteSettles, Transition
  <2>2. execute.pc = "running" \/ (enqueue = "queued" /\ execute.pc = "none")
    BY <1>5 DEF ExecuteRead, ExecuteSettles
  <2>3. ExecuteAt("warned") => execute'.pc = "warned"
    BY <1>4 DEF ExecutePCs
  <2> QED
    BY <1>2, <1>3, <2>1, <2>2, <2>3 DEF Emitters, EmittingPCs
<1>6. CASE ExecuteNegotiates
  <2>1. \/ UNCHANGED <<emits, reply>>
        \/ ExecuteAt("negotiated") /\ Emit("execute", Event("capabilities_negotiated"))
    BY <1>6, Zenon DEF ExecuteNegotiates, ExecuteUpdate
  <2>2. execute.pc = "capabilities"
    BY <1>6 DEF ExecuteNegotiates
  <2>3. ExecuteAt("negotiated") => execute'.pc = "negotiated"
    BY <1>4 DEF ExecutePCs
  <2> QED
    BY <1>2, <1>3, <2>1, <2>2, <2>3 DEF Emitters, EmittingPCs
<1>7. CASE ExecuteAborts
  <2>1. \/ UNCHANGED <<emits, reply>>
        \/ ExecuteAt("error") /\ Emit("execute", Event("error"))
    BY <1>7, Zenon DEF ExecuteAborts, ExecuteUpdate
  <2>2. execute.pc = "abort"
    BY <1>7 DEF ExecuteAborts
  <2>3. ExecuteAt("error") => execute'.pc = "error"
    BY <1>4 DEF ExecutePCs
  <2> QED
    BY <1>2, <1>3, <2>1, <2>2, <2>3 DEF Emitters, EmittingPCs
<1>8. CASE ExecuteReports
  <2>1. \/ UNCHANGED <<emits, reply>>
        \/ /\ ExecuteAt("completed")
           /\ Emit("execute", Completed(Aborted(execute.copy.state)))
    BY <1>8 DEF ExecuteReports
  <2>2. execute.pc = "error" /\ reply["execute"] # "none"
    BY <1>8 DEF ExecuteReports
  <2>3. ExecuteAt("completed") => execute'.pc = "completed"
    BY <1>4 DEF ExecutePCs
  <2>4. /\ Completed(Aborted(execute.copy.state)) \in Events
        /\ Completed(Aborted(execute.copy.state)).kind = "run_completed"
    BY EventTypes DEF Completed
  <2> QED
    BY <1>2, <2>1, <2>2, <2>3, <2>4 DEF Emitters, EmittingPCs
<1>9. CASE ExecuteWarned \/ ExecuteStart \/ ExecuteDiscovers \/ ExecuteActivates \/ ExecuteEnds
              \/ ExecuteCatches \/ ExecuteCompletes \/ ExecuteFinally
  BY <1>2, <1>9 DEF ExecuteWarned, ExecuteStart, ExecuteDiscovers, ExecuteActivates, ExecuteEnds,
                    ExecuteCatches, ExecuteCompletes, ExecuteFinally
<1> QED
  BY <1>5, <1>6, <1>7, <1>8, <1>9 DEF Execute

LEMMA CallEmitters ==
    ASSUME TypeOK, CallStep
    PROVE  Emitters
<1>1. UNCHANGED <<emits, reply>> => Emitters
  BY DEF Emitters
<1>2. CASE CreateRun \/ AnnounceRun \/ Crash \/ UNCHANGED vars
  BY <1>2 DEF CreateRun, AnnounceRun, Crash, vars, Emitters
<1>3. CASE Provider
  <2>1. provider \in [pc : ProviderPCs, outcome : Terminal,
                      told : BOOLEAN, asked : BOOLEAN, reports : BOOLEAN]
    BY DEF TypeOK
  <2>2. CASE ProviderBegins
    BY <1>3, <2>1, <2>2, EventTypes DEF ProviderBegins, ProviderAt, Emitters
  <2>3. CASE ProviderAsks
    BY <1>3, <2>1, <2>3, EventTypes DEF ProviderAsks, Emitters
  <2>4. CASE ProviderReports
    <3>1. /\ Completed(provider.outcome) \in Events
          /\ Completed(provider.outcome).kind = "run_completed"
      BY <2>1, EventTypes DEF Completed
    <3> QED
      BY <1>3, <2>4, <3>1 DEF ProviderReports, Emitters
  <2>5. CASE ProviderStarts \/ ProviderExits \/ ProviderSettles \/ ProviderEventRefused
    BY <2>5 DEF ProviderStarts, ProviderExits, ProviderSettles, ProviderEventRefused, Emitters
  <2> QED
    BY <1>3, <2>2, <2>3, <2>4, <2>5 DEF Provider
<1>4. ASSUME NEW c \in Cancellers, Cancel(c)
      PROVE  Emitters
  <2>1. CASE CancelWaiting(c)
    <3>1. UNCHANGED <<emits, reply>> \/ Emit(c, Completed("cancelled"))
      BY <2>1, Zenon DEF CancelWaiting
    <3> QED
      BY <1>1, <2>1, <3>1 DEF Emitters
  <2>2. CASE CancelRead(c) \/ CancelCompletes(c) \/ CancelActive(c)
    BY <1>1, <2>2 DEF CancelRead, CancelCompletes, CancelActive
  <2> QED
    BY <1>4, <2>1, <2>2 DEF Cancel
<1>5. ASSUME NEW i \in Inputs, Input(i)
      PROVE  Emitters
  BY <1>1, <1>5 DEF Input, InputRead, InputSends, InputEmits, InputReturns, Emitters
<1> QED
  BY <1>2, <1>3, <1>4, <1>5, ExecuteEmitters DEF CallStep

\* What a call leaves of the chain and of the answers to the others.
LEMMA CallChain ==
    ASSUME TypeOK, CallStep
    PROVE  /\ \A k \in DOMAIN emits : k \in DOMAIN emits' /\ emits'[k] = emits[k]
           /\ emits # <<>> => emits' # <<>> /\ Head(emits') = Head(emits)
           /\ \A c \in Callers : reply'[c] \in {reply[c], "none"}
<1>1. emits \in Seq(Emits) /\ reply \in [Callers -> {"none", "ok", "failed"}]
  BY DEF TypeOK
<1>2. \/ emits' = emits /\ reply' \in {reply, [reply EXCEPT !["provider"] = "none"]}
      \/ \E c, e : Emit(c, e)
  BY CallEmitters DEF Emitters
<1>3. ASSUME NEW d, NEW e, Emit(d, e)
      PROVE  /\ \A k \in DOMAIN emits : k \in DOMAIN emits' /\ emits'[k] = emits[k]
             /\ emits # <<>> => emits' # <<>> /\ Head(emits') = Head(emits)
             /\ \A c \in Callers : reply'[c] \in {reply[c], "none"}
  <2> DEFINE x == [by |-> d, event |-> e, seq |-> 0]
  <2>1. emits' = Append(emits, x) /\ reply' = [reply EXCEPT ![d] = "none"]
    BY <1>3 DEF Emit
  <2> HIDE DEF x
  <2>2. \A k \in DOMAIN emits : k \in DOMAIN emits' /\ emits'[k] = emits[k]
    BY <1>1, <2>1
  <2>3. emits # <<>> => emits' # <<>> /\ Head(emits') = Head(emits)
    BY <1>1, <2>1
  <2> QED
    BY <1>1, <2>1, <2>2, <2>3
<1> QED
  BY <1>1, <1>2, <1>3

-----------------------------------------------------------------------------
(* The log begins with run_created *)

\* Somebody is served who must have waited for run_created.
Served ==
    \/ execute.pc # "none" \/ provider.pc # "none" \/ active \/ enqueue = "queued"
    \/ enqueue = "announce" /\ reply["enqueue"] = "ok"
    \/ \E i \in Inputs : input[i] \in {"events", "sent", "receipt"}

\* The emit that has read the run fits the snapshot; run_created is the first one, unless
\* a crash came before it.
CreatedInv ==
    /\ emits # <<>> /\ Head(emits).seq # 0 => Head(emits).seq = snap.seq + 1
    /\ Served => CanReplay(log)
    /\ enqueue \in {"new", "announce"} => server.restarts = 0
    /\ server.restarts = 0 =>
        \/ enqueue = "new"
        \/ /\ log = <<>> /\ emits # <<>>
           /\ Head(emits).by = "enqueue" /\ Head(emits).event.kind = "run_created"
        \/ CanReplay(log)
    /\ server.crashes = 0 /\ (server.restarts # 0 \/ ~server.up) => CanReplay(log)

\* A read emit that the store refuses finds a line that is not in the snapshot.
LEMMA RefusedBehind ==
    ASSUME LifecycleInv, CreatedInv, EmitAppend, ~Fits(Head(emits).seq)
    PROVE  Len(log) = snap.seq + 1
<1>1. /\ log \in Seq(Entries) /\ snap.seq \in Nat /\ LogLeads
      /\ Head(emits).seq = snap.seq + 1
  BY DEF LifecycleInv, JournalInv, TypeOK, Snapshots, CreatedInv, EmitAppend
<1>2. PICK k \in DOMAIN log : log[k].seq = snap.seq + 1
  BY <1>1 DEF Fits
<1>3. k = snap.seq + 1 /\ k <= Len(log)
  BY <1>1, <1>2 DEF LogLeads
<1> QED
  BY <1>1, <1>3 DEF LogLeads

LEMMA CallServes ==
    ASSUME TypeOK, CallStep, Served'
    PROVE  Served
<1>1. /\ execute \in [pc : ExecutePCs, copy : Snapshots]
      /\ provider \in [pc : ProviderPCs, outcome : Terminal,
                       told : BOOLEAN, asked : BOOLEAN, reports : BOOLEAN]
      /\ input \in [Inputs -> {"idle", "events", "sent", "receipt", "done"}]
      /\ "enqueue" \in Callers
  BY DEF TypeOK, Callers
<1>2. reply'["enqueue"] \in {reply["enqueue"], "none"}
  BY <1>1, CallChain
<1>3. CASE Execute
  <2>1. UNCHANGED <<provider, input>> /\ enqueue' \in {enqueue, "gone"}
    BY <1>3, ExecuteKeeps
  <2>2. execute.pc # "none" \/ enqueue = "queued"
    BY <1>3 DEF Execute, ExecuteRead, ExecuteWarned, ExecuteStart, ExecuteDiscovers,
       ExecuteNegotiates, ExecuteActivates, ExecuteSettles, ExecuteEnds, ExecuteCatches,
       ExecuteAborts, ExecuteReports, ExecuteCompletes, ExecuteFinally
  <2> QED
    BY <2>2 DEF Served
<1>4. CASE Provider
  <2>1. provider.pc # "none" \/ execute.pc = "launch"
    BY <1>4 DEF Provider, ProviderStarts, ProviderBegins, ProviderAsks, ProviderExits,
       ProviderReports, ProviderSettles, ProviderEventRefused, Alive
  <2> QED
    BY <2>1 DEF Served
<1>5. CASE CreateRun
  BY <1>2, <1>5 DEF CreateRun, Emit, Served, TypeOK, Callers
<1>6. CASE AnnounceRun
  BY <1>6 DEF AnnounceRun, Served
<1>7. CASE Crash \/ UNCHANGED vars
  BY <1>7 DEF Crash, vars, calls, Served
<1>8. ASSUME NEW c \in Cancellers, Cancel(c)
      PROVE  Served
  <2>1. Told.pc = provider.pc
    BY <1>1 DEF Told
  <2>2. /\ execute' = execute /\ active' = active /\ input' = input
        /\ provider'.pc = provider.pc /\ enqueue' \in {enqueue, "gone"}
    BY <1>8, <2>1 DEF Cancel, CancelRead, CancelWaiting, CancelCompletes, CancelActive
  <2> QED
    BY <1>2, <2>2 DEF Served
<1>9. ASSUME NEW i \in Inputs, Input(i)
      PROVE  Served
  <2>1. active \/ input[i] \in {"events", "sent", "receipt"}
    BY <1>9 DEF Input, InputRead, InputSends, InputEmits, InputReturns
  <2> QED
    BY <2>1 DEF Served
<1> QED
  BY <1>3, <1>4, <1>5, <1>6, <1>7, <1>8, <1>9 DEF CallStep

\* A run that was not created is not touched by the store either.
LEMMA StoreServes ==
    ASSUME LifecycleInv, Store, Served', ~Served
    PROVE  enqueue = "announce" /\ log # <<>> /\ log' = log
<1>1. UNCHANGED <<enqueue, execute, provider, active, input>>
  BY DEF Store, EmitRead, EmitAppend, WriteSnapshot, WriteSnapshotFails, calls
<1>2. enqueue = "announce" /\ reply'["enqueue"] = "ok" /\ reply["enqueue"] # "ok"
  BY <1>1 DEF Served
<1>3. "enqueue" \in Callers
  BY DEF Callers
<1>4. Len(log) \in DOMAIN log /\ log' = log
  BY <1>2, <1>3, StoreAnswers
<1>5. log # <<>>
  BY <1>4 DEF LifecycleInv, JournalInv, TypeOK
<1> QED
  BY <1>2, <1>4, <1>5

\* Who dies has been served.
LEMMA DiesServed ==
    ASSUME TypeOK, CallStep, server.up, ~server'.up
    PROVE  Served \/ server'.crashes # 0
<1>1. /\ server \in [up : BOOLEAN, crashes : Nat, restarts : Nat, failures : Nat]
      /\ server.crashes \in Nat
  BY DEF TypeOK
<1>2. CASE Execute
  <2>1. execute.pc # "none" \/ enqueue = "queued"
    BY <1>2 DEF Execute, ExecuteRead, ExecuteWarned, ExecuteStart, ExecuteDiscovers,
       ExecuteNegotiates, ExecuteActivates, ExecuteSettles, ExecuteEnds, ExecuteCatches,
       ExecuteAborts, ExecuteReports, ExecuteCompletes, ExecuteFinally
  <2> QED
    BY <2>1 DEF Served
<1>3. CASE Provider
  <2>1. provider.pc # "none" \/ execute.pc = "launch"
    BY <1>3 DEF Provider, ProviderStarts, ProviderBegins, ProviderAsks, ProviderExits,
       ProviderReports, ProviderSettles, ProviderEventRefused, Alive
  <2> QED
    BY <2>1 DEF Served
<1>4. CASE Crash
  <2>1. server'.crashes = server.crashes + 1
    BY <1>1, <1>4, Zenon DEF Crash
  <2> QED
    BY <1>1, <2>1
<1>5. CASE CreateRun \/ AnnounceRun \/ UNCHANGED vars
  BY <1>5 DEF CreateRun, AnnounceRun, vars
<1>6. ASSUME NEW c \in Cancellers, Cancel(c)
      PROVE  server'.up
  <2>1. UNCHANGED server \/ Fails
    BY <1>6, Zenon DEF Cancel, CancelRead, CancelWaiting, CancelCompletes, CancelActive
  <2>2. server' = [server EXCEPT !.failures = server.failures + 1] => server'.up = server.up
    BY <1>1, Zenon
  <2> QED
    BY <2>1, <2>2 DEF Fails
<1>7. ASSUME NEW i \in Inputs, Input(i)
      PROVE  UNCHANGED server
  BY <1>7 DEF Input, InputRead, InputSends, InputEmits, InputReturns
<1> QED
  BY <1>2, <1>3, <1>4, <1>5, <1>6, <1>7 DEF CallStep

LEMMA FitKept ==
    ASSUME LifecycleInv, CreatedInv, [Next]_vars, emits' # <<>>, Head(emits').seq # 0
    PROVE  Head(emits').seq = snap'.seq + 1
<1>1. /\ emits \in Seq(Emits) /\ emits' \in Seq(Emits) /\ ChainInv
      /\ WritingLeads /\ writing \in BOOLEAN
  BY TypesKept DEF LifecycleInv, JournalInv, TypeOK
<1>2. CASE CallStep
  <2>1. snap'.seq = snap.seq
    BY <1>2, CallQuiet DEF Quiet, LifecycleInv
  <2>2. CASE emits # <<>>
    BY <1>2, <2>1, <2>2, CallChain DEF CreatedInv, LifecycleInv, JournalInv
  <2>3. CASE emits = <<>>
    <3>1. emits' = emits \/ \E c, e : Emit(c, e)
      BY <1>2, CallEmitters DEF Emitters, LifecycleInv, JournalInv
    <3>2. ASSUME NEW c, NEW e, Emit(c, e)
          PROVE  Head(emits').seq = 0
      <4> DEFINE x == [by |-> c, event |-> e, seq |-> 0]
      <4>1. emits' = Append(<<>>, x) /\ x.seq = 0
        BY <2>3, <3>2 DEF Emit
      <4> HIDE DEF x
      <4> QED
        BY <4>1
    <3> QED
      BY <2>3, <3>1, <3>2
  <2> QED
    BY <2>2, <2>3
<1>3. CASE Store
  <2>1. ASSUME NEW r, emits # <<>>, Settle(r), writing' = FALSE, UNCHANGED provider
        PROVE  FALSE
    <3>1. \A k \in DOMAIN emits' : emits'[k].seq = 0
      BY <2>1, SettledChain
    <3>2. 1 \in DOMAIN emits' /\ Head(emits') = emits'[1]
      BY <1>1
    <3> QED
      BY <3>1, <3>2
  <2>2. CASE EmitRead
    <3>1. writing' = FALSE /\ UNCHANGED <<provider, snap>> /\ emits # <<>>
      BY <1>1, <2>2, Zenon DEF EmitRead, Running, calls, disk
    <3>2. emits' = [emits EXCEPT ![1].seq = snap.seq + 1]
      BY <2>1, <2>2, <3>1 DEF EmitRead
    <3>3. Head(emits').seq = snap.seq + 1
      BY <1>1, <3>1, <3>2 DEF Emits
    <3> QED
      BY <3>1, <3>3
  <2>3. CASE EmitAppend
    <3>1. CASE Settle("failed") /\ UNCHANGED writing
      BY <1>1, <2>1, <2>3, <3>1, Zenon DEF EmitAppend, Running, calls
    <3>2. CASE emits' = emits
      BY <2>3, <3>2 DEF EmitAppend, CreatedInv
    <3> QED
      BY <2>3, <3>1, <3>2 DEF EmitAppend
  <2>4. CASE WriteSnapshot \/ WriteSnapshotFails
    BY <1>1, <2>1, <2>4, Zenon DEF WriteSnapshot, WriteSnapshotFails, WritingLeads, calls
  <2> QED
    BY <1>3, <2>2, <2>3, <2>4 DEF Store
<1>4. CASE Restart
  BY <1>4 DEF Restart, Fresh
<1> QED
  BY <1>2, <1>3, <1>4, StepCases

LEMMA CreatedKept ==
    ASSUME LifecycleInv, CreatedInv, [Next]_vars
    PROVE  CreatedInv'
<1>1. /\ TypeOK /\ Untouched /\ JournalInv /\ LogLeads
      /\ emits \in Seq(Emits) /\ log \in Seq(Entries) /\ snap.seq \in Nat
      /\ server \in [up : BOOLEAN, crashes : Nat, restarts : Nat, failures : Nat]
      /\ server.restarts \in Nat
  BY DEF LifecycleInv, JournalInv, TypeOK, Snapshots
<1>2. emits' # <<>> /\ Head(emits').seq # 0 => Head(emits').seq = snap'.seq + 1
  BY FitKept
<1>3. CanReplay(log) /\ (CallStep \/ Store) => CanReplay(log')
  BY LogGrows
<1>4. ASSUME Restart
      PROVE  /\ log' = log /\ enqueue' = "gone" /\ ~Served' /\ server'.up /\ ~server.up
             /\ server'.restarts # 0 /\ server'.crashes = server.crashes
  <2>1. /\ server'.restarts = server.restarts + 1 /\ server'.up
        /\ server'.crashes = server.crashes
    BY <1>1, <1>4, Zenon DEF Restart
  <2>2. server'.restarts # 0
    BY <1>1, <2>1
  <2>3. ~Served'
    BY <1>4 DEF Restart, Fresh, NoProvider, Served
  <2> QED
    BY <1>4, <2>1, <2>2, <2>3 DEF Restart, Fresh
<1>5. Served' => CanReplay(log')
  <2>1. CASE CallStep
    BY <1>1, <1>3, <2>1, CallServes DEF CreatedInv
  <2>2. CASE Store
    <3>1. CASE Served
      BY <1>3, <2>2, <3>1 DEF CreatedInv
    <3>2. CASE ~Served
      BY <2>2, <3>2, StoreServes DEF CreatedInv
    <3> QED
      BY <3>1, <3>2
  <2> QED
    BY <1>4, <2>1, <2>2, StepCases
<1>6. enqueue' \in {"new", "announce"} => enqueue \in {"new", "announce"} /\ ~Restart
  <2>1. CASE CallStep
    <3>1. CASE CreateRun \/ AnnounceRun \/ Crash \/ UNCHANGED vars
      BY <3>1 DEF CreateRun, AnnounceRun, Crash, vars, calls, Restart, Fresh
    <3>2. CASE Execute
      BY <3>2, <1>4, ExecuteKeeps
    <3>3. CASE Provider
      BY <3>3, <1>4 DEF Provider, ProviderStarts, ProviderBegins, ProviderAsks, ProviderExits,
         ProviderReports, ProviderSettles, ProviderEventRefused, calls
    <3>4. ASSUME NEW c \in Cancellers, Cancel(c)
          PROVE  enqueue' \in {enqueue, "gone"}
      BY <3>4 DEF Cancel, CancelRead, CancelWaiting, CancelCompletes, CancelActive
    <3>5. ASSUME NEW i \in Inputs, Input(i)
          PROVE  enqueue' = enqueue
      BY <3>5 DEF Input, InputRead, InputSends, InputEmits, InputReturns
    <3> QED
      BY <1>4, <2>1, <3>1, <3>2, <3>3, <3>4, <3>5 DEF CallStep
  <2>2. CASE Store
    BY <1>4, <2>2 DEF Store, EmitRead, EmitAppend, WriteSnapshot, WriteSnapshotFails, calls
  <2> QED
    BY <1>4, <2>1, <2>2, StepCases
<1>7. enqueue' \in {"new", "announce"} => server'.restarts = 0
  BY <1>1, <1>6, ServerKept, StepCases DEF CreatedInv
<1> DEFINE First == /\ log = <<>> /\ emits # <<>>
                    /\ Head(emits).by = "enqueue" /\ Head(emits).event.kind = "run_created"
<1>8. ASSUME server'.restarts = 0
      PROVE  enqueue' = "new" \/ First' \/ CanReplay(log')
  <2>1. CASE CallStep
    <3>1. server.restarts = 0 /\ log' = log
      BY <1>1, <1>8, <2>1, ServerKept, CallQuiet DEF Quiet
    <3>2. CASE enqueue = "new"
      <4>1. CASE CreateRun
        <5> DEFINE x == [by |-> "enqueue", event |-> Event("run_created"), seq |-> 0]
        <5>1. log = <<>> /\ emits' = Append(<<>>, x)
          BY <1>1, <3>2, <4>1 DEF CreateRun, Emit, Untouched
        <5>2. x.by = "enqueue" /\ x.event.kind = "run_created"
          BY DEF Event
        <5> HIDE DEF x
        <5>3. emits' # <<>> /\ Head(emits') = x
          BY <5>1
        <5> QED
          BY <3>1, <5>1, <5>2, <5>3
      <4>2. CASE ~CreateRun
        <5>1. enqueue' = "new" \/ CreateRun
          <6>1. /\ snap = Absent /\ execute.pc = "none" /\ provider.pc = "none"
                /\ \A c \in Cancellers : cancel[c].pc = "idle"
                /\ \A i \in Inputs : input[i] = "idle"
            BY <1>1, <3>2 DEF Untouched
          <6>2. ~AnnounceRun
            BY <3>2 DEF AnnounceRun
          <6>3. ~Execute
            BY <3>2, <6>1 DEF Execute, ExecuteRead, ExecuteWarned, ExecuteStart,
               ExecuteDiscovers, ExecuteNegotiates, ExecuteActivates, ExecuteSettles,
               ExecuteEnds, ExecuteCatches, ExecuteAborts, ExecuteReports, ExecuteCompletes,
               ExecuteFinally
          <6>4. ~Provider
            BY <6>1 DEF Provider, ProviderStarts, ProviderBegins, ProviderAsks, ProviderExits,
               ProviderReports, ProviderSettles, ProviderEventRefused, Alive
          <6>5. \A c \in Cancellers : ~Cancel(c)
            BY <6>1 DEF Cancel, CancelRead, CancelWaiting, CancelCompletes, CancelActive
          <6>6. \A i \in Inputs : ~Input(i)
            BY <6>1 DEF Input, InputRead, InputSends, InputEmits, InputReturns, Absent
          <6> QED
            BY <2>1, <3>2, <6>2, <6>3, <6>4, <6>5, <6>6 DEF CallStep, Crash, calls, vars
        <5> QED
          BY <4>2, <5>1
      <4> QED
        BY <4>1, <4>2
    <3>3. CASE First
      BY <1>1, <2>1, <3>1, <3>3, CallChain
    <3>4. CASE CanReplay(log)
      BY <3>1, <3>4
    <3> QED
      BY <3>1, <3>2, <3>3, <3>4 DEF CreatedInv
  <2>2. CASE Store
    <3>1. server.restarts = 0 /\ enqueue' = enqueue
      BY <1>1, <1>8, <2>2, ServerKept DEF Store, EmitRead, EmitAppend, WriteSnapshot,
         WriteSnapshotFails, calls
    <3>2. CASE First
      <4>1. ~WriteSnapshot /\ ~WriteSnapshotFails
        <5>1. ~writing
          BY <1>1, <3>2 DEF JournalInv, WritingLeads
        <5> QED
          BY <5>1 DEF WriteSnapshot, WriteSnapshotFails
      <4>2. CASE EmitRead
        <5>1. emits' = [emits EXCEPT ![1].seq = snap.seq + 1] /\ log' = log
          BY <3>2, <4>2 DEF EmitRead, disk
        <5>2. 1 \in DOMAIN emits /\ Head(emits) = emits[1] /\ emits[1] \in Emits
          BY <1>1, <3>2
        <5>3. /\ emits' # <<>> /\ Head(emits') = emits'[1]
              /\ emits'[1].by = emits[1].by /\ emits'[1].event = emits[1].event
          BY <1>1, <5>1, <5>2 DEF Emits
        <5> QED
          BY <3>2, <5>1, <5>2, <5>3
      <4>3. CASE EmitAppend
        <5> DEFINE e == [event |-> Head(emits).event, seq |-> Head(emits).seq]
        <5>1. Fits(Head(emits).seq)
          <6>1. Len(log) # snap.seq + 1
            BY <1>1, <3>2
          <6> QED
            BY <4>3, <6>1, RefusedBehind
        <5>2. log' = Append(<<>>, e) /\ e.event.kind = "run_created"
          BY <3>2, <4>3, <5>1 DEF EmitAppend
        <5> HIDE DEF e
        <5>3. log' # <<>> /\ log'[1] = e
          BY <5>2
        <5> QED
          BY <5>2, <5>3 DEF CanReplay
      <4> QED
        BY <2>2, <4>1, <4>2, <4>3 DEF Store
    <3> QED
      BY <1>3, <2>2, <3>1, <3>2 DEF CreatedInv
  <2> QED
    BY <1>4, <1>8, <2>1, <2>2, StepCases
<1>9. ASSUME server'.crashes = 0, server'.restarts # 0 \/ ~server'.up
      PROVE  CanReplay(log')
  <2>1. CASE CallStep
    <3>1. server.crashes = 0 /\ server'.restarts = server.restarts
      BY <1>1, <1>9, <2>1, ServerKept
    <3>2. CASE server.up /\ ~server'.up
      <4>1. Served
        BY <1>1, <1>9, <2>1, <3>2, DiesServed
      <4> QED
        BY <1>3, <2>1, <4>1 DEF CreatedInv
    <3>3. CASE ~(server.up /\ ~server'.up)
      BY <1>3, <1>9, <2>1, <3>1, <3>3, Zenon DEF CreatedInv
    <3> QED
      BY <3>2, <3>3
  <2>2. CASE Store
    <3>1. server.crashes = 0 /\ server.restarts # 0
      BY <1>1, <1>9, <2>2, ServerKept, Zenon
    <3> QED
      BY <1>3, <2>2, <3>1 DEF CreatedInv
  <2>3. CASE Restart
    BY <1>4, <1>9, <2>3 DEF CreatedInv
  <2> QED
    BY <2>1, <2>2, <2>3, StepCases
<1> QED
  BY <1>2, <1>5, <1>7, <1>8, <1>9 DEF CreatedInv

-----------------------------------------------------------------------------
(* A log that does not begin with run_created *)

\* Only verdicts of calls other than the provider's get into it, and they agree.
LostInv ==
    /\ \A k \in DOMAIN emits :
        \/ CanReplay(log)
        \/ emits[k].event.kind = "run_created"
        \/ emits[k].event.kind = "run_completed" /\ emits[k].by # "provider"
    /\ log # <<>> /\ ~CanReplay(log) => Agrees

LEMMA LostKept ==
    ASSUME LifecycleInv, CreatedInv, LostInv, [Next]_vars
    PROVE  LostInv'
<1>1. /\ TypeOK /\ JournalInv /\ PendingInv
      /\ emits \in Seq(Emits) /\ log \in Seq(Entries)
  BY DEF LifecycleInv, JournalInv, TypeOK
<1>2. CanReplay(log) /\ (CallStep \/ Store) => CanReplay(log')
  BY LogGrows
<1>3. Agrees /\ (CallStep \/ Store) => Agrees'
  BY AgreesStays
<1> DEFINE Kept(x) == \/ CanReplay(log')
                      \/ x.event.kind = "run_created"
                      \/ x.event.kind = "run_completed" /\ x.by # "provider"
<1>4. CASE CallStep
  <2>1. \A k \in DOMAIN emits : Kept(emits[k])
    BY <1>2, <1>4 DEF LostInv
  <2>2. ASSUME NEW c, NEW e, Emit(c, e), Kept([by |-> c, event |-> e, seq |-> 0])
        PROVE  \A k \in DOMAIN emits' : Kept(emits'[k])
    <3>1. \A k \in DOMAIN emits' :
            \/ k \in DOMAIN emits /\ emits'[k] = emits[k]
            \/ k = Len(emits) + 1 /\ emits'[k] = [by |-> c, event |-> e, seq |-> 0]
      BY <1>1, <2>2, Appended
    <3> HIDE DEF Kept
    <3> QED
      BY <2>1, <2>2, <3>1
  <2>3. Served => CanReplay(log')
    BY <1>2, <1>4 DEF CreatedInv
  <2>4. \A k \in DOMAIN emits' : Kept(emits'[k])
    <3>1. CASE emits' = emits
      <4> HIDE DEF Kept
      <4> QED
        BY <2>1, <3>1
    <3>2. CASE CreateRun /\ Emit("enqueue", Event("run_created"))
      BY <2>2, <3>2 DEF Event
    <3>3. CASE (execute.pc # "none" \/ enqueue = "queued" \/ provider.pc # "none")
                  /\ \E c, e : Emit(c, e)
      BY <2>2, <2>3, <3>3 DEF Served
    <3>4. ASSUME NEW c \in Cancellers, Emit(c, Completed("cancelled"))
          PROVE  \A k \in DOMAIN emits' : Kept(emits'[k])
      BY <2>2, <3>4, LifecycleAssumption DEF LifecycleAssumption, Completed
    <3>5. ASSUME NEW i \in Inputs, input[i] = "sent", \E e : Emit(i, e)
          PROVE  \A k \in DOMAIN emits' : Kept(emits'[k])
      BY <2>2, <2>3, <3>5 DEF Served
    <3> HIDE DEF Kept
    <3> QED
      BY <1>1, <1>4, <3>1, <3>2, <3>3, <3>4, <3>5, CallEmitters DEF Emitters
  <2>5. log' = log
    BY <1>1, <1>4, CallQuiet DEF Quiet
  <2> QED
    BY <1>3, <1>4, <2>4, <2>5 DEF LostInv
<1>5. CASE Store
  <2>1. \A k \in DOMAIN emits : Kept(emits[k])
    BY <1>2, <1>5 DEF LostInv
  <2>2. \A k \in DOMAIN emits' : Kept(emits'[k])
    BY <1>5, <2>1, StoreChain
  <2>3. ASSUME log' # <<>>, ~CanReplay(log')
        PROVE  Agrees'
    <3>1. CASE log # <<>>
      BY <1>2, <1>3, <1>5, <2>3, <3>1 DEF LostInv
    <3>2. CASE log = <<>>
      <4> DEFINE e == Head(emits)
                 entry == [event |-> e.event, seq |-> e.seq]
      <4>1. log' = Append(<<>>, entry) /\ snap' = snap /\ emits # <<>>
        BY <1>5, <2>3, <3>2 DEF Store, EmitRead, EmitAppend, WriteSnapshot,
           WriteSnapshotFails, disk
      <4>2. 1 \in DOMAIN emits /\ e = emits[1]
        BY <1>1, <4>1
      <4>3. entry.event = e.event
        OBVIOUS
      <4> HIDE DEF e, entry
      <4>4. 1 \in DOMAIN log' /\ log'[1] = entry /\ log' # <<>>
        BY <4>1
      <4>5. e.event.kind = "run_completed" /\ e.by # "provider"
        BY <2>3, <4>2, <4>3, <4>4, <2>1 DEF CanReplay
      <4>6. e.event.state = snap.state
        BY <1>1, <4>2, <4>5 DEF PendingInv
      <4> QED
        BY <4>1, <4>3, <4>4, <4>5, <4>6 DEF Agrees, Verdicts
    <3> QED
      BY <3>1, <3>2
  <2> QED
    BY <2>2, <2>3 DEF LostInv
<1>6. CASE Restart
  <2>1. log' = log /\ emits' = <<>> /\ snap' = Recovered
    BY <1>6 DEF Restart, Fresh
  <2>2. ASSUME log # <<>>, ~CanReplay(log)
        PROVE  Agrees'
    <3>1. Recovered = snap
      BY <2>2, Zenon DEF Recovered
    <3> QED
      BY <2>1, <2>2, <3>1 DEF LostInv, Agrees, Verdicts
  <2> QED
    BY <2>1, <2>2 DEF LostInv
<1> QED
  BY <1>4, <1>5, <1>6, StepCases

-----------------------------------------------------------------------------
(* Where the provider stands *)

\* How the provider moves on: it starts but once.
LEMMA ProviderMoves ==
    ASSUME TypeOK, CallStep \/ Store
    PROVE  \/ /\ ProviderStarts /\ execute.pc = "launch"
              /\ execute'.pc = "running" /\ provider'.pc = "spawned"
           \/ /\ provider'.reports = provider.reports
              /\ provider'.pc = "none" <=> provider.pc = "none"
              /\ provider.pc = "settled" => provider'.pc = "settled"
              /\ provider'.pc = "reported" =>
                    \/ provider.pc = "reported"
                    \/ ~Emitting("provider") /\ reply'["provider"] = "none"
              /\ provider'.pc = "settled" =>
                    \/ provider.pc = "settled"
                    \/ provider.pc = "exited" /\ ~provider.reports
                    \/ provider.pc = "reported" /\ reply["provider"] = "ok"
<1> DEFINE P == [pc : ProviderPCs, outcome : Terminal, told : BOOLEAN,
                 asked : BOOLEAN, reports : BOOLEAN]
<1>1. /\ provider \in P
      /\ execute \in [pc : ExecutePCs, copy : Snapshots]
      /\ reply \in [Callers -> {"none", "ok", "failed"}] /\ "provider" \in Callers
  BY DEF TypeOK, Callers
<1>2. ASSUME NEW pc, provider' = [provider EXCEPT !.pc = pc]
      PROVE  provider'.pc = pc /\ provider'.reports = provider.reports
  BY <1>1, <1>2
<1>3. CASE provider' = provider
  BY <1>3
<1>4. CASE ProviderStarts
  <2>1. CASE \E reports \in Reporting :
                provider' = [provider EXCEPT !.pc = "spawned", !.reports = reports]
    BY <1>1, <1>4, <2>1 DEF ProviderStarts, ExecuteAt
  <2> QED
    BY <1>3, <1>4, <2>1 DEF ProviderStarts
<1>5. CASE ProviderBegins
  BY <1>2, <1>5 DEF ProviderBegins, ProviderAt
<1>6. CASE ProviderAsks
  <2>1. provider'.pc = "asking" /\ provider'.reports = provider.reports
    BY <1>1, <1>6 DEF ProviderAsks
  <2> QED
    BY <1>6, <2>1 DEF ProviderAsks
<1>7. CASE ProviderExits
  <2>1. provider'.pc = "exited" /\ provider'.reports = provider.reports
    BY <1>1, <1>7 DEF ProviderExits
  <2> QED
    BY <1>7, <2>1 DEF ProviderExits
<1>8. CASE ProviderReports
  <2>1. \/ /\ provider.reports /\ ProviderAt("reported")
           /\ Emit("provider", Completed(provider.outcome))
        \/ ProviderAt("broken")
        \/ ~provider.reports /\ ProviderAt("settled")
    BY <1>8, Zenon DEF ProviderReports
  <2>2. provider.pc = "exited" /\ ~Emitting("provider")
    BY <1>8 DEF ProviderReports
  <2> QED
    BY <1>1, <1>2, <2>1, <2>2 DEF ProviderAt, Emit
<1>9. CASE ProviderSettles
  <2>1. \/ reply["provider"] = "ok" /\ ProviderAt("settled")
        \/ ProviderAt("broken")
    BY <1>9, Zenon DEF ProviderSettles
  <2>2. provider.pc = "reported"
    BY <1>9 DEF ProviderSettles
  <2> QED
    BY <1>2, <2>1, <2>2 DEF ProviderAt
<1>10. CASE ProviderEventRefused \/ Store \/ Execute \/ CreateRun \/ AnnounceRun \/ Crash
                \/ UNCHANGED vars
  BY <1>3, <1>10, ExecuteKeeps DEF ProviderEventRefused, Store, EmitRead, EmitAppend,
     WriteSnapshot, WriteSnapshotFails, CreateRun, AnnounceRun, Crash, calls, vars
<1>11. ASSUME NEW c \in Cancellers, Cancel(c)
       PROVE  provider'.pc = provider.pc /\ provider'.reports = provider.reports
  <2>1. provider' \in {provider, Told}
    BY <1>11 DEF Cancel, CancelRead, CancelWaiting, CancelCompletes, CancelActive
  <2> QED
    BY <1>1, <2>1 DEF Told
<1>12. ASSUME NEW i \in Inputs, Input(i)
       PROVE  \/ provider' = provider
              \/ /\ provider.pc \in {"spawned", "up", "asking"}
                 /\ provider'.pc \in {"spawned", "up", "asking"}
                 /\ provider'.reports = provider.reports
  BY <1>1, <1>12 DEF Input, InputRead, InputSends, InputEmits, InputReturns, Alive
<1> QED
  BY <1>3, <1>4, <1>5, <1>6, <1>7, <1>8, <1>9, <1>10, <1>11, <1>12 DEF CallStep, Provider

\* How a cancel() moves on.
LEMMA CancelMoves ==
    ASSUME TypeOK, CallStep \/ Store, NEW c \in Cancellers
    PROVE  /\ cancel'[c].pc = "cancelled" =>
                \/ cancel'[c] = cancel[c]
                \/ /\ CallStep /\ cancel'[c].copy = snap
                   /\ snap.state \in {"queued", "orphaned"}
           /\ cancel'[c].pc = "completing" =>
                \/ cancel[c].pc = "completing"
                \/ CancelWaiting(c) /\ Emit(c, Completed("cancelled"))
           /\ cancel[c].pc = "completing" =>
                \/ cancel'[c].pc = "completing"
                \/ CancelCompletes(c)
<1>1. cancel \in [Cancellers ->
            [pc : {"idle", "cancelled", "cancelling", "completing", "done"}, copy : Snapshots]]
  BY DEF TypeOK
<1>2. CASE \E d \in Cancellers : Cancel(d)
  <2>1. PICK d \in Cancellers : Cancel(d)
    BY <1>2
  <2>2. CASE d # c
    <3>1. cancel'[c] = cancel[c]
      BY <1>1, <2>1, <2>2 DEF Cancel, CancelRead, CancelWaiting, CancelCompletes, CancelActive
    <3> QED
      BY <3>1
  <2>3. CASE d = c
    <3>1. CASE CancelRead(c)
      BY <1>1, <1>2, <3>1 DEF CancelRead, CallStep
    <3>2. CASE CancelWaiting(c)
      <4>1. /\ cancel[c].pc = "cancelled"
            /\ \/ /\ cancel' = [cancel EXCEPT ![c].pc = "completing"]
                  /\ Emit(c, Completed("cancelled"))
               \/ cancel' = [cancel EXCEPT ![c].pc = "done"]
        BY <3>2, Zenon DEF CancelWaiting
      <4> QED
        BY <1>1, <3>2, <4>1
    <3>3. CASE CancelCompletes(c)
      BY <1>1, <3>3 DEF CancelCompletes
    <3>4. CASE CancelActive(c)
      BY <1>1, <3>4 DEF CancelActive
    <3> QED
      BY <2>1, <2>3, <3>1, <3>2, <3>3, <3>4 DEF Cancel
  <2> QED
    BY <2>2, <2>3
<1>3. CASE ~(\E d \in Cancellers : Cancel(d))
  <2>1. CASE Store \/ Provider \/ CreateRun \/ AnnounceRun \/ Crash \/ UNCHANGED vars
    BY <2>1 DEF Store, EmitRead, EmitAppend, WriteSnapshot, WriteSnapshotFails,
       Provider, ProviderStarts, ProviderBegins, ProviderAsks, ProviderExits,
       ProviderReports, ProviderSettles, ProviderEventRefused, CreateRun, AnnounceRun,
       Crash, calls, vars
  <2>2. ASSUME NEW i \in Inputs, Input(i)
        PROVE  cancel' = cancel
    BY <2>2 DEF Input, InputRead, InputSends, InputEmits, InputReturns
  <2>3. cancel' = cancel
    BY <1>3, <2>1, <2>2, ExecuteKeeps DEF CallStep,
       Store, EmitRead, EmitAppend, WriteSnapshot, WriteSnapshotFails,
       Provider, ProviderStarts, ProviderBegins, ProviderAsks, ProviderExits,
       ProviderReports, ProviderSettles, ProviderEventRefused, CreateRun, AnnounceRun,
       Crash, calls, vars
  <2> QED
    BY <2>3
<1> QED
  BY <1>2, <1>3

\* The provider starts a run that has begun, execute() waits for what it reports, and
\* when it has reported the end the run is over.
ProcessInv ==
    /\ execute.pc \in {"none", "starting", "discover", "capabilities", "negotiated", "launch"}
        => provider.pc = "none"
    /\ provider.pc # "none" =>
        /\ snap.state \in Begun
        /\ \A c \in Cancellers : cancel[c].pc = "cancelled" => cancel[c].copy.seq < snap.seq
    /\ provider.pc = "reported" =>
        /\ \A k \in DOMAIN emits : emits[k].by = "provider" => emits[k].event.kind = "run_completed"
        /\ reply["provider"] = "ok" => snap.state \in Terminal
    /\ provider.pc = "settled" /\ provider.reports => snap.state \in Terminal
    /\ execute.pc = "outcome" => provider.pc = "settled" /\ ~provider.reports

\* The sequence of the snapshot never goes back while the server is up.
LEMMA SeqGrows ==
    ASSUME LifecycleInv, CallStep \/ Store
    PROVE  snap.seq \in Nat /\ snap'.seq \in {snap.seq, snap.seq + 1}
<1>1. snap.seq \in Nat /\ log \in Seq(Entries) /\ LogLeads /\ WritingLeads /\ JournalInv
  BY DEF LifecycleInv, JournalInv, TypeOK, Snapshots
<1>2. CASE CallStep
  BY <1>1, <1>2, CallQuiet DEF Quiet
<1>3. CASE EmitRead \/ EmitAppend \/ WriteSnapshotFails
  BY <1>1, <1>3 DEF EmitRead, EmitAppend, WriteSnapshotFails, disk
<1>4. CASE WriteSnapshot
  <2>1. Len(log) = snap.seq + 1 /\ log[Len(log)].seq = Len(log)
    BY <1>1, <1>4 DEF WriteSnapshot, WritingLeads, LogLeads
  <2> QED
    BY <1>1, <1>4, <2>1 DEF WriteSnapshot
<1> QED
  BY <1>2, <1>3, <1>4 DEF Store

LEMMA ProcessKept ==
    ASSUME LifecycleInv, ProcessInv, [Next]_vars
    PROVE  ProcessInv'
<1> DEFINE Early == {"none", "starting", "discover", "capabilities", "negotiated", "launch"}
<1>1. /\ TypeOK /\ JournalInv /\ PendingInv /\ ChainInv
      /\ emits \in Seq(Emits) /\ reply \in [Callers -> {"none", "ok", "failed"}]
      /\ execute \in [pc : ExecutePCs, copy : Snapshots]
      /\ "provider" \in Callers
  BY DEF LifecycleInv, JournalInv, TypeOK, Callers
<1>2. CASE Restart
  BY <1>2 DEF Restart, Fresh, NoProvider, ProcessInv, Terminal
<1>3. CASE ProviderStarts /\ execute.pc = "launch" /\ execute'.pc = "running"
                /\ provider'.pc = "spawned"
  <2>1. /\ snap' = snap /\ cancel' = cancel /\ snap.state \in Begun
        /\ \A c \in Cancellers : cancel[c].pc = "cancelled" => cancel[c].copy.seq < snap.seq
    BY <1>3 DEF ProviderStarts, disk, LifecycleInv, StartedInv
  <2> QED
    BY <1>3, <2>1 DEF ProcessInv
<1>4. CASE /\ CallStep \/ Store
           /\ ~(ProviderStarts /\ execute.pc = "launch" /\ execute'.pc = "running"
                    /\ provider'.pc = "spawned")
  <2>1. /\ provider'.reports = provider.reports
        /\ provider'.pc = "none" <=> provider.pc = "none"
        /\ provider.pc = "settled" => provider'.pc = "settled"
        /\ provider'.pc = "reported" =>
                    \/ provider.pc = "reported"
                    \/ ~Emitting("provider") /\ reply'["provider"] = "none"
        /\ provider'.pc = "settled" =>
                    \/ provider.pc = "settled"
                    \/ provider.pc = "exited" /\ ~provider.reports
                    \/ provider.pc = "reported" /\ reply["provider"] = "ok"
    BY <1>1, <1>4, ProviderMoves
  <2>2. snap.state \in Terminal => snap'.state \in Terminal
    BY <1>1, <1>4, VerdictStays
  <2>3. execute'.pc \in Early => provider'.pc = "none"
    <3>1. execute'.pc \in Early => execute.pc \in Early
      <4>1. CASE Execute
        <5>1. CASE ExecuteStart \/ ExecuteNegotiates \/ ExecuteEnds \/ ExecuteAborts
          <6>1. \/ execute.pc \in Early
                \/ ExecuteAt("finally") \/ ExecuteAt("catch")
                \/ ExecuteAt("error") \/ ExecuteAt("throws")
            BY <5>1, Zenon DEF ExecuteStart, ExecuteNegotiates, ExecuteEnds, ExecuteAborts,
               ExecuteUpdate
          <6> QED
            BY <1>1, <6>1 DEF ExecuteAt
        <5>2. CASE ExecuteRead \/ ExecuteDiscovers \/ ExecuteActivates
          BY <5>2 DEF ExecuteRead, ExecuteDiscovers, ExecuteActivates
        <5>3. CASE ExecuteWarned \/ ExecuteSettles \/ ExecuteCatches
          BY <1>1, <5>3 DEF ExecuteWarned, ExecuteSettles, ExecuteCatches, Transition,
             ExecuteAt, ExecuteWith
        <5>4. CASE ExecuteReports \/ ExecuteCompletes \/ ExecuteFinally
          BY <1>1, <5>4 DEF ExecuteReports, ExecuteCompletes, ExecuteFinally, ExecuteAt
        <5> QED
          BY <4>1, <5>1, <5>2, <5>3, <5>4 DEF Execute
      <4>2. CASE ~Execute
        BY <1>1, <1>4, <4>2, OthersKeepExecute
      <4> QED
        BY <4>1, <4>2
    <3> QED
      BY <2>1, <3>1 DEF ProcessInv
  <2>4. ASSUME provider'.pc # "none"
        PROVE  /\ snap'.state \in Begun
               /\ \A c \in Cancellers :
                    cancel'[c].pc = "cancelled" => cancel'[c].copy.seq < snap'.seq
    <3>1. /\ snap.state \in Begun
          /\ \A c \in Cancellers : cancel[c].pc = "cancelled" => cancel[c].copy.seq < snap.seq
      BY <2>1, <2>4 DEF ProcessInv
    <3>2. ASSUME NEW c \in Cancellers, cancel'[c].pc = "cancelled"
          PROVE  cancel'[c].copy.seq < snap'.seq
      <4>1. cancel'[c] = cancel[c]
        BY <1>1, <1>4, <3>1, <3>2, CancelMoves DEF Begun
      <4>2. cancel[c].copy.seq \in Nat
        BY <1>1 DEF TypeOK, Snapshots
      <4> QED
        BY <1>4, <3>1, <3>2, <4>1, <4>2, SeqGrows
    <3> QED
      BY <1>4, <3>1, <3>2, BegunStays
  <2>5. ASSUME provider'.pc = "reported", NEW k \in DOMAIN emits', emits'[k].by = "provider"
        PROVE  emits'[k].event.kind = "run_completed"
    <3>1. \A j \in DOMAIN emits :
            emits[j].by = "provider" => emits[j].event.kind = "run_completed"
      BY <2>1, <2>5 DEF ProcessInv, Emitting
    <3>2. CASE CallStep
      <4>1. CASE k \in DOMAIN emits
        BY <1>1, <2>5, <3>1, <3>2, <4>1, CallChain
      <4>2. ASSUME k \notin DOMAIN emits, NEW c, NEW e, Emit(c, e)
            PROVE  emits'[k] = [by |-> c, event |-> e, seq |-> 0]
        BY <1>1, <4>2, Appended
      <4>3. \A c \in Cancellers \cup Inputs \cup {"enqueue", "execute"} : c # "provider"
        BY LifecycleAssumption DEF LifecycleAssumption
      <4>4. CASE k \notin DOMAIN emits
        <5>1. \E e \in Events :
                Emit("provider", e) /\ (provider'.pc = "reported" => e.kind = "run_completed")
          BY <1>1, <2>5, <3>2, <4>2, <4>3, <4>4, CallEmitters DEF Emitters
        <5> QED
          BY <2>5, <4>2, <4>4, <5>1
      <4> QED
        BY <4>1, <4>4
    <3>3. CASE Store
      BY <2>5, <3>1, <3>3, StoreChain
    <3> QED
      BY <1>4, <3>2, <3>3
  <2>6. ASSUME provider'.pc = "reported", reply'["provider"] = "ok"
        PROVE  snap'.state \in Terminal
    <3>1. provider.pc = "reported"
      BY <2>1, <2>6
    <3>2. CASE reply["provider"] = "ok"
      BY <2>2, <3>1, <3>2 DEF ProcessInv
    <3>3. CASE reply["provider"] # "ok"
      <4>1. Store
        BY <1>1, <1>4, <2>6, <3>3, CallChain
      <4>2. CASE snap' = snap /\ snap.state \in Terminal
        BY <4>2
      <4>3. CASE snap'.state = StateAfterEvent(snap.state, emits[1].event)
        <5>1. 1 \in DOMAIN emits /\ emits[1].by = "provider"
          BY <1>1, <2>6, <3>3, <4>1, StoreAnswers
        <5>2. emits[1].event.kind = "run_completed" /\ emits[1] \in Emits
          BY <1>1, <3>1, <5>1 DEF ProcessInv
        <5>3. emits[1].event.state \in Terminal
          BY <5>2 DEF Emits, Events
        <5> QED
          BY <4>3, <5>2, <5>3 DEF StateAfterEvent
      <4> QED
        BY <1>1, <2>6, <3>3, <4>1, <4>2, <4>3, StoreAnswers
    <3> QED
      BY <3>2, <3>3
  <2>7. provider'.pc = "settled" /\ provider'.reports => snap'.state \in Terminal
    BY <2>1, <2>2 DEF ProcessInv
  <2>8. ASSUME execute'.pc = "outcome"
        PROVE  provider'.pc = "settled" /\ ~provider'.reports
    <3>1. CASE execute.pc = "outcome"
      BY <2>1, <3>1 DEF ProcessInv
    <3>2. CASE execute.pc # "outcome"
      <4>1. Execute
        BY <1>1, <1>4, <2>8, <3>2, OthersKeepExecute
      <4>2. ~ExecuteStart /\ ~ExecuteNegotiates /\ ~ExecuteEnds /\ ~ExecuteAborts
        <5>1. ASSUME ExecuteStart \/ ExecuteNegotiates \/ ExecuteEnds \/ ExecuteAborts
              PROVE  \E pc \in {"discover", "catch", "negotiated", "finally", "error", "throws"} :
                        ExecuteAt(pc)
          BY <5>1, Zenon DEF ExecuteStart, ExecuteNegotiates, ExecuteEnds, ExecuteAborts,
             ExecuteUpdate
        <5> QED
          BY <1>1, <2>8, <5>1 DEF ExecuteAt
      <4>3. ~ExecuteRead /\ ~ExecuteWarned /\ ~ExecuteDiscovers /\ ~ExecuteActivates
        BY <1>1, <2>8 DEF ExecuteRead, ExecuteWarned, ExecuteDiscovers, ExecuteActivates,
           Transition, ExecuteAt, ExecuteWith
      <4>4. ~ExecuteCatches /\ ~ExecuteReports /\ ~ExecuteCompletes /\ ~ExecuteFinally
        BY <1>1, <2>8 DEF ExecuteCatches, ExecuteReports, ExecuteCompletes, ExecuteFinally,
           ExecuteAt, ExecuteWith
      <4>5. ExecuteSettles
        BY <4>1, <4>2, <4>3, <4>4 DEF Execute
      <4>6. provider.pc = "settled" /\ snap.state \notin Terminal
        BY <1>1, <2>8, <4>5 DEF ExecuteSettles, ExecuteAt
      <4> QED
        BY <2>1, <4>6 DEF ProcessInv
    <3> QED
      BY <3>1, <3>2
  <2> QED
    BY <2>3, <2>4, <2>5, <2>6, <2>7, <2>8 DEF ProcessInv
<1> QED
  BY <1>1, <1>2, <1>3, <1>4, StepCases

-----------------------------------------------------------------------------
(* What execute() has reported *)

\* execute() has at most one event in the chain, waits for it, and the run_completed it
\* was told of is in the log.
ReportInv ==
    /\ \A j, k \in DOMAIN emits : emits[j].by = "execute" /\ emits[k].by = "execute" => j = k
    /\ Emitting("execute") => reply["execute"] = "none" /\ execute.pc \in EmittingPCs
    /\ execute.pc = "completed" =>
        /\ \A k \in DOMAIN emits : emits[k].by = "execute" => emits[k].event.kind = "run_completed"
        /\ reply["execute"] = "ok" => Agrees
    /\ execute.pc = "capabilities" /\ execute.copy.state \in Terminal => snap.state \in Terminal

\* The verdict of a call other than the provider's agrees once its line is in the log.
LEMMA LineAgrees ==
    ASSUME LifecycleInv, Len(log) \in DOMAIN log, 1 \in DOMAIN emits,
           log[Len(log)].event = emits[1].event,
           emits[1].by # "provider", emits[1].event.kind = "run_completed"
    PROVE  Agrees
<1>1. emits[1].event.state = snap.state
  BY DEF LifecycleInv, PendingInv
<1> QED
  BY <1>1 DEF Agrees, Verdicts

\* execute() leaves a place where it waits for an event only when it was answered, and
\* reaches `completed' only with a verdict.
LEMMA ExecuteAnswered ==
    ASSUME TypeOK, Execute
    PROVE  /\ execute.pc \in EmittingPCs => reply["execute"] # "none"
           /\ execute'.pc = "completed" => \E e : Emit("execute", e)
           /\ execute'.pc = "capabilities" =>
                execute'.copy = snap /\ snap' = snap
<1>1. execute \in [pc : ExecutePCs, copy : Snapshots]
  BY DEF TypeOK
<1>2. CASE ExecuteStart \/ ExecuteNegotiates \/ ExecuteEnds \/ ExecuteAborts
  <2>1. execute.pc \in {"starting", "capabilities", "outcome", "abort"}
    BY <1>2 DEF ExecuteStart, ExecuteNegotiates, ExecuteEnds, ExecuteAborts
  <2>2. \E pc \in {"discover", "catch", "negotiated", "finally", "error", "throws"} :
            ExecuteAt(pc)
    BY <1>2, Zenon DEF ExecuteStart, ExecuteNegotiates, ExecuteEnds, ExecuteAborts,
       ExecuteUpdate
  <2> QED
    BY <1>1, <2>1, <2>2 DEF ExecuteAt, EmittingPCs
<1>3. CASE ExecuteRead \/ ExecuteDiscovers \/ ExecuteSettles \/ ExecuteCatches
  BY <1>1, <1>3 DEF ExecuteRead, ExecuteDiscovers, ExecuteSettles, ExecuteCatches,
     Transition, ExecuteAt, ExecuteWith, EmittingPCs, disk
<1>4. CASE ExecuteWarned \/ ExecuteActivates \/ ExecuteCompletes \/ ExecuteFinally
  BY <1>1, <1>4 DEF ExecuteWarned, ExecuteActivates, ExecuteCompletes, ExecuteFinally,
     ExecuteAt, EmittingPCs
<1>5. CASE ExecuteReports
  BY <1>1, <1>5 DEF ExecuteReports, ExecuteAt, EmittingPCs
<1> QED
  BY <1>2, <1>3, <1>4, <1>5 DEF Execute

LEMMA ReportKept ==
    ASSUME LifecycleInv, ReportInv, [Next]_vars
    PROVE  ReportInv'
<1>1. /\ TypeOK /\ JournalInv
      /\ emits \in Seq(Emits) /\ reply \in [Callers -> {"none", "ok", "failed"}]
      /\ execute \in [pc : ExecutePCs, copy : Snapshots]
      /\ "execute" \in Callers /\ "provider" # "execute"
  BY DEF LifecycleInv, JournalInv, TypeOK, Callers
<1>2. CASE Restart
  BY <1>2 DEF Restart, Fresh, ReportInv, Emitting
<1>3. ASSUME CallStep \/ Store, snap.state \in Terminal
      PROVE  snap'.state \in Terminal
  BY <1>1, <1>3, VerdictStays
<1>4. CASE CallStep
  <2>1. execute'.pc = "capabilities" /\ execute'.copy.state \in Terminal => snap'.state \in Terminal
    BY <1>1, <1>3, <1>4, ExecuteAnswered, OthersKeepExecute DEF ReportInv
  <2>2. CASE \E e \in Events :
                /\ Emit("execute", e)
                /\ execute'.pc = "completed" => e.kind = "run_completed"
                /\ execute'.pc \in EmittingPCs
                /\ execute.pc \in EmittingPCs => reply["execute"] # "none"
    <3>1. PICK e \in Events :
                /\ Emit("execute", e)
                /\ execute'.pc = "completed" => e.kind = "run_completed"
      BY <2>2
    <3>2. ~Emitting("execute")
      BY <2>2 DEF ReportInv
    <3>3. \A k \in DOMAIN emits' :
                \/ k \in DOMAIN emits /\ emits'[k] = emits[k]
                \/ k = Len(emits) + 1 /\ emits'[k] = [by |-> "execute", event |-> e, seq |-> 0]
      BY <1>1, <3>1, Appended
    <3>4. reply'["execute"] = "none"
      BY <1>1, <3>1 DEF Emit
    <3> QED
      BY <2>1, <2>2, <3>1, <3>2, <3>3, <3>4 DEF ReportInv, Emitting
  <2>3. CASE \/ emits' = emits /\ reply' \in {reply, [reply EXCEPT !["provider"] = "none"]}
             \/ \E c \in Callers \ {"execute"} : \E e : Emit(c, e)
    <3>1. /\ reply'["execute"] = reply["execute"]
          /\ \A k \in DOMAIN emits' :
                emits'[k].by = "execute" => k \in DOMAIN emits /\ emits'[k] = emits[k]
      <4>1. ASSUME NEW c \in Callers \ {"execute"}, NEW e, Emit(c, e)
            PROVE  /\ reply'["execute"] = reply["execute"]
                   /\ \A k \in DOMAIN emits' :
                        emits'[k].by = "execute" => k \in DOMAIN emits /\ emits'[k] = emits[k]
        <5>1. \A k \in DOMAIN emits' :
                \/ k \in DOMAIN emits /\ emits'[k] = emits[k]
                \/ k = Len(emits) + 1 /\ emits'[k] = [by |-> c, event |-> e, seq |-> 0]
          BY <1>1, <4>1, Appended
        <5> QED
          BY <1>1, <4>1, <5>1 DEF Emit
      <4> QED
        BY <1>1, <2>3, <4>1
    <3>2. ASSUME NEW e, Emit("execute", e)
          PROVE  FALSE
      <4> DEFINE x == [by |-> "execute", event |-> e, seq |-> 0]
      <4>1. emits' = Append(emits, x) /\ x.by = "execute"
        BY <3>2 DEF Emit
      <4> HIDE DEF x
      <4>2. Len(emits) + 1 \in DOMAIN emits' /\ emits'[Len(emits) + 1] = x
            /\ Len(emits) + 1 \notin DOMAIN emits
        BY <1>1, <4>1
      <4> QED
        BY <3>1, <4>1, <4>2
    <3>3. Emitting("execute")' => Emitting("execute")
      BY <3>1 DEF Emitting
    <3>4. execute.pc \in EmittingPCs /\ reply["execute"] = "none" => execute'.pc \in EmittingPCs
      BY <1>1, <1>4, ExecuteAnswered, OthersKeepExecute DEF EmittingPCs
    <3>5. execute'.pc = "completed" => execute.pc = "completed"
      BY <1>1, <1>4, <3>2, ExecuteAnswered, OthersKeepExecute
    <3>6. Agrees => Agrees'
      BY <1>4, AgreesStays
    <3>7. \A j, k \in DOMAIN emits' :
                emits'[j].by = "execute" /\ emits'[k].by = "execute" => j = k
      BY <3>1 DEF ReportInv
    <3>8. Emitting("execute")' => reply'["execute"] = "none" /\ execute'.pc \in EmittingPCs
      BY <3>1, <3>3, <3>4 DEF ReportInv
    <3>9. execute'.pc = "completed" =>
            /\ \A k \in DOMAIN emits' :
                    emits'[k].by = "execute" => emits'[k].event.kind = "run_completed"
            /\ reply'["execute"] = "ok" => Agrees'
      BY <3>1, <3>5, <3>6 DEF ReportInv
    <3> QED
      BY <2>1, <3>7, <3>8, <3>9 DEF ReportInv, Emitting
  <2>4. \A c \in Cancellers \cup Inputs \cup {"enqueue", "provider"} : c \in Callers \ {"execute"}
    BY LifecycleAssumption DEF LifecycleAssumption, Callers
  <2> QED
    BY <1>1, <1>4, <2>2, <2>3, <2>4, CallEmitters DEF Emitters
<1>5. CASE Store
  <2>1. execute' = execute
    BY <1>5 DEF Store, EmitRead, EmitAppend, WriteSnapshot, WriteSnapshotFails, calls
  <2>2. /\ \A j, k \in DOMAIN emits' :
                emits'[j].by = "execute" /\ emits'[k].by = "execute" => j = k
        /\ Emitting("execute")' => Emitting("execute") /\ reply'["execute"] = reply["execute"]
        /\ execute.pc = "completed" => \A k \in DOMAIN emits' :
                emits'[k].by = "execute" => emits'[k].event.kind = "run_completed"
    <3>1. CASE /\ DOMAIN emits' = DOMAIN emits /\ reply' = reply
               /\ \A k \in DOMAIN emits : /\ emits'[k].by = emits[k].by
                                          /\ emits'[k].event = emits[k].event
      BY <3>1 DEF ReportInv, Emitting
    <3>2. CASE /\ 1 \in DOMAIN emits
               /\ \E r : reply' = [reply EXCEPT ![emits[1].by] = r]
               /\ \A k \in DOMAIN emits' :
                    k \in Nat /\ k # 0 /\ k + 1 \in DOMAIN emits /\ emits'[k] = emits[k + 1]
      <4>1. ASSUME NEW j \in DOMAIN emits', NEW k \in DOMAIN emits',
                   emits'[j].by = "execute", emits'[k].by = "execute"
            PROVE  j = k
        <5>1. j + 1 = k + 1
          BY <3>2, <4>1 DEF ReportInv
        <5> QED
          BY <3>2, <5>1
      <4>2. ASSUME NEW k \in DOMAIN emits', emits'[k].by = "execute"
            PROVE  /\ Emitting("execute") /\ reply'["execute"] = reply["execute"]
                   /\ execute.pc = "completed" => emits'[k].event.kind = "run_completed"
        <5>1. k + 1 \in DOMAIN emits /\ emits[k + 1].by = "execute" /\ k + 1 # 1
          BY <3>2, <4>2
        <5>2. emits[1].by # "execute"
          BY <3>2, <5>1 DEF ReportInv
        <5> QED
          BY <1>1, <3>2, <4>2, <5>1, <5>2 DEF ReportInv, Emitting
      <4> QED
        BY <4>1, <4>2 DEF Emitting
    <3> QED
      BY <1>5, <3>1, <3>2, StoreChain
  <2>3. ASSUME execute.pc = "completed", reply'["execute"] = "ok"
        PROVE  Agrees'
    <3>1. CASE reply["execute"] = "ok"
      BY <1>5, <2>3, <3>1, AgreesStays DEF ReportInv
    <3>2. CASE reply["execute"] # "ok"
      <4>1. /\ 1 \in DOMAIN emits /\ emits[1].by = "execute"
            /\ Len(log) \in DOMAIN log /\ log[Len(log)].event = emits[1].event
        BY <1>1, <1>5, <2>3, <3>2, StoreAnswers
      <4>2. Agrees
        BY <1>1, <2>3, <4>1, LineAgrees DEF ReportInv
      <4> QED
        BY <1>5, <4>2, AgreesStays
    <3> QED
      BY <3>1, <3>2
  <2> QED
    BY <1>3, <1>5, <2>1, <2>2, <2>3 DEF ReportInv
<1> QED
  BY <1>2, <1>4, <1>5, StepCases

-----------------------------------------------------------------------------
(* What cancel() has reported *)

\* A cancel() that ended the run waits for its run_completed, or the log agrees; and the
\* log is ahead of the snapshot only while a provider runs that was refused.
CancelInv ==
    /\ \A k \in DOMAIN emits : emits[k].by \in Cancellers => emits[k].event.kind = "run_completed"
    /\ \A c \in Cancellers :
        cancel[c].pc = "completing" /\ server.failures = 0 /\ server.up =>
            Agrees \/ (reply[c] = "none" /\ Emitting(c))
    /\ server.failures = 0 /\ server.up /\ ~writing /\ Len(log) = snap.seq + 1 =>
        \/ Agrees
        \/ provider.pc # "none" /\ \A k \in DOMAIN emits : emits[k].by \notin Cancellers

\* The snapshot takes every event but a verdict.
LEMMA EventAllowed ==
    ASSUME NEW s \in AgentStates \cup {"absent"}, NEW e \in Events,
           e.kind # "run_completed" \/ s \in Terminal
    PROVE  CanTransition(s, StateAfterEvent(s, e))
<1>1. CASE StateAfterEvent(s, e) = s
  BY <1>1 DEF CanTransition
<1>2. CASE StateAfterEvent(s, e) # s
  <2>1. \/ s = "starting" /\ StateAfterEvent(s, e) = "running"
        \/ s = "running" /\ StateAfterEvent(s, e) \in Waiting
        \/ s \in Waiting /\ StateAfterEvent(s, e) = "running"
    BY <1>2 DEF StateAfterEvent, Terminal, Waiting
  <2> QED
    BY <2>1 DEF CanTransition, Allowed, AgentStates, Waiting, Terminal
<1> QED
  BY <1>1, <1>2

\* Who is in the chain after a step of the store was in it before.
LEMMA StoreBys ==
    ASSUME LifecycleInv, Store, NEW k \in DOMAIN emits'
    PROVE  \E j \in DOMAIN emits : emits'[k].by = emits[j].by /\ emits'[k].event = emits[j].event
  BY StoreChain

\* A snapshot that refuses a line refuses the provider's verdict.
LEMMA RefusedLine ==
    ASSUME LifecycleInv, CancelInv, WriteSnapshot, snap'.seq # Len(log)
    PROVE  /\ provider.pc # "none" /\ provider' = provider
           /\ \A k \in DOMAIN emits : emits[k].by \notin Cancellers
<1>1. /\ emits # <<>> /\ emits \in Seq(Emits) /\ log \in Seq(Entries) /\ snap.seq \in Nat
      /\ snap.state \in AgentStates \cup {"absent"}
      /\ PendingInv /\ ChainInv /\ LogLeads /\ Len(log) = snap.seq + 1
  BY DEF LifecycleInv, JournalInv, WritingLeads, TypeOK, Snapshots, WriteSnapshot
<1>2. /\ 1 \in DOMAIN emits /\ Head(emits) = emits[1]
      /\ Len(log) \in DOMAIN log /\ log[Len(log)].seq = Len(log)
  BY <1>1 DEF LogLeads
<1>3. log[Len(log)].event = emits[1].event /\ emits[1].seq # 0
  BY <1>1, <1>2 DEF ChainInv, WriteSnapshot
<1>4. log[Len(log)].event \in Events
  <2>1. log[Len(log)] \in Entries
    BY <1>1, <1>2
  <2> QED
    BY <2>1 DEF Entries
<1>5. ~CanTransition(snap.state, StateAfterEvent(snap.state, log[Len(log)].event))
  BY <1>2 DEF WriteSnapshot
<1>6. log[Len(log)].event.kind = "run_completed" /\ snap.state \notin Terminal
  BY <1>1, <1>4, <1>5, EventAllowed
<1>7. emits[1].by = "provider"
  BY <1>1, <1>2, <1>3, <1>6 DEF PendingInv
<1>8. provider.pc # "none"
  BY <1>1, <1>2, <1>7 DEF ChainInv, Emitting, Reports
<1>9. \A k \in DOMAIN emits : emits[k].by \notin Cancellers
  BY <1>1, <1>6, LifecycleAssumption DEF LifecycleAssumption, CancelInv, PendingInv
<1> QED
  BY <1>8, <1>9 DEF WriteSnapshot, calls

LEMMA WaitingKept ==
    ASSUME LifecycleInv, CreatedInv, CancelInv, [Next]_vars,
           NEW c \in Cancellers, cancel'[c].pc = "completing",
           server'.failures = 0, server'.up
    PROVE  Agrees' \/ (reply'[c] = "none" /\ Emitting(c)')
<1>1. /\ TypeOK /\ JournalInv /\ ChainInv
      /\ emits \in Seq(Emits) /\ log \in Seq(Entries)
      /\ reply \in [Callers -> {"none", "ok", "failed"}]
      /\ c \in Callers /\ c # "provider"
  BY LifecycleAssumption DEF LifecycleAssumption, LifecycleInv, JournalInv, TypeOK, Callers
<1>2. CASE Restart
  BY <1>2 DEF Restart, Fresh
<1>3. CASE CallStep
  <2>1. server.failures = 0 /\ server.up
    BY <1>1, <1>3, ServerKept
  <2>2. CASE Emit(c, Completed("cancelled"))
    <3> DEFINE x == [by |-> c, event |-> Completed("cancelled"), seq |-> 0]
    <3>1. emits' = Append(emits, x) /\ x.by = c
      BY <2>2 DEF Emit
    <3>2. reply'[c] = "none"
      BY <1>1, <2>2 DEF Emit
    <3> HIDE DEF x
    <3>3. Len(emits) + 1 \in DOMAIN emits' /\ emits'[Len(emits) + 1] = x
      BY <1>1, <3>1
    <3> QED
      BY <3>1, <3>2, <3>3 DEF Emitting
  <2>3. CASE cancel[c].pc = "completing"
    <3>1. CASE Agrees
      BY <1>3, <3>1, AgreesStays
    <3>2. CASE reply[c] = "none" /\ Emitting(c)
      BY <1>1, <1>3, <3>2, CallChain DEF Emitting
    <3> QED
      BY <2>1, <2>3, <3>1, <3>2 DEF CancelInv
  <2> QED
    BY <1>1, <1>3, <2>2, <2>3, CancelMoves
<1>4. CASE Store
  <2>1. cancel' = cancel /\ server.failures = 0 /\ server.up
    BY <1>1, <1>4, ServerKept DEF Store, EmitRead, EmitAppend, WriteSnapshot,
       WriteSnapshotFails, calls
  <2>2. Agrees => Agrees'
    BY <1>4, AgreesStays
  <2>3. CASE ~Agrees
    <3>1. reply[c] = "none" /\ Emitting(c)
      BY <2>1, <2>3 DEF CancelInv
    <3>2. PICK k \in DOMAIN emits : emits[k].by = c
      BY <3>1 DEF Emitting
    <3>3. 1 \in DOMAIN emits /\ Head(emits) = emits[1] /\ emits # <<>>
      BY <1>1, <3>2
    <3>4. CASE emits[1].by # c
      BY <1>1, <1>4, <3>1, <3>2, <3>3, <3>4, StoreChain DEF Emitting
    <3>5. CASE emits[1].by = c
      <4>1. CASE EmitRead
        <5>1. emits' = [emits EXCEPT ![1].seq = snap.seq + 1] /\ reply' = reply
          BY <1>1, <3>3, <3>5, <4>1 DEF EmitRead
        <5>2. emits[1] \in Emits
          BY <1>1, <3>3
        <5>3. 1 \in DOMAIN emits' /\ emits'[1].by = emits[1].by
          BY <1>1, <3>3, <5>1, <5>2 DEF Emits
        <5> QED
          BY <3>1, <3>5, <5>1, <5>3 DEF Emitting
      <4>2. CASE EmitAppend
        <5>1. CASE Fits(Head(emits).seq)
          BY <3>1, <4>2, <5>1 DEF EmitAppend, Emitting
        <5>2. CASE ~Fits(Head(emits).seq)
          <6>1. Len(log) = snap.seq + 1 /\ ~writing
            BY <4>2, <5>2, RefusedBehind DEF EmitAppend, Running
          <6> QED
            BY <2>1, <2>3, <3>3, <3>5, <6>1 DEF CancelInv
        <5> QED
          BY <5>1, <5>2
      <4>3. CASE WriteSnapshot
        <5>1. Len(log) \in DOMAIN log /\ log[Len(log)].event = emits[1].event
          BY <1>1, <3>3, <4>3 DEF WriteSnapshot, JournalInv, WritingLeads, ChainInv, TypeOK,
             Snapshots
        <5> QED
          BY <1>1, <2>3, <3>3, <3>5, <5>1, LineAgrees DEF CancelInv
      <4>4. CASE WriteSnapshotFails
        <5>1. server.failures \in Nat
          BY <1>1 DEF TypeOK
        <5>2. server'.failures = server.failures + 1
          BY <1>1, <4>4, Zenon DEF WriteSnapshotFails, Fails, TypeOK
        <5> QED
          BY <2>1, <5>1, <5>2
      <4> QED
        BY <1>4, <4>1, <4>2, <4>3, <4>4 DEF Store
    <3> QED
      BY <3>4, <3>5
  <2> QED
    BY <2>2, <2>3
<1> QED
  BY <1>2, <1>3, <1>4, StepCases

LEMMA CancelKept ==
    ASSUME LifecycleInv, CreatedInv, LostInv, ProcessInv, CancelInv, [Next]_vars
    PROVE  CancelInv'
<1>1. /\ TypeOK /\ JournalInv /\ ChainInv /\ LogLeads
      /\ emits \in Seq(Emits) /\ log \in Seq(Entries) /\ snap.seq \in Nat
      /\ reply \in [Callers -> {"none", "ok", "failed"}]
  BY DEF LifecycleInv, JournalInv, TypeOK, Snapshots
<1>2. \A c \in Inputs \cup {"enqueue", "execute", "provider"} : c \notin Cancellers
  BY LifecycleAssumption DEF LifecycleAssumption
<1>3. \A k \in DOMAIN emits' : emits'[k].by \in Cancellers => emits'[k].event.kind = "run_completed"
  <2>1. CASE CallStep
    <3>1. CASE emits' = emits
      BY <3>1 DEF CancelInv
    <3>2. ASSUME NEW c, NEW e, Emit(c, e), c \in Cancellers => e.kind = "run_completed"
          PROVE  \A k \in DOMAIN emits' :
                    emits'[k].by \in Cancellers => emits'[k].event.kind = "run_completed"
      <4>1. \A k \in DOMAIN emits' :
                \/ k \in DOMAIN emits /\ emits'[k] = emits[k]
                \/ k = Len(emits) + 1 /\ emits'[k] = [by |-> c, event |-> e, seq |-> 0]
        BY <1>1, <3>2, Appended
      <4> QED
        BY <3>2, <4>1 DEF CancelInv
    <3>3. Completed("cancelled").kind = "run_completed"
      BY DEF Completed
    <3> QED
      BY <1>1, <1>2, <2>1, <3>1, <3>2, <3>3, CallEmitters DEF Emitters
  <2>2. CASE Store
    BY <2>2, StoreBys DEF CancelInv
  <2>3. CASE Restart
    BY <2>3 DEF Restart, Fresh
  <2> QED
    BY <2>1, <2>2, <2>3, StepCases
<1>4. ASSUME server'.failures = 0, server'.up, ~writing', Len(log') = snap'.seq + 1, ~Agrees'
      PROVE  provider'.pc # "none" /\ \A k \in DOMAIN emits' : emits'[k].by \notin Cancellers
  <2>1. ASSUME CallStep \/ Store, ~writing, Len(log) = snap.seq + 1
        PROVE  provider.pc # "none" /\ \A k \in DOMAIN emits : emits[k].by \notin Cancellers
    BY <1>1, <1>4, <2>1, ServerKept, AgreesStays DEF CancelInv
  <2>2. CASE CallStep
    <3>1. log' = log /\ snap'.seq = snap.seq /\ writing' = writing
      BY <1>1, <2>2, CallQuiet DEF Quiet
    <3>2. provider.pc # "none" /\ \A k \in DOMAIN emits : emits[k].by \notin Cancellers
      BY <1>4, <2>1, <2>2, <3>1
    <3>3. provider'.pc # "none"
      BY <1>1, <2>2, <3>2, ProviderMoves
    <3>4. CASE emits' = emits
      BY <3>2, <3>3, <3>4
    <3>5. ASSUME NEW c, NEW e, Emit(c, e), c \notin Cancellers
          PROVE  \A k \in DOMAIN emits' : emits'[k].by \notin Cancellers
      <4>1. \A k \in DOMAIN emits' :
                \/ k \in DOMAIN emits /\ emits'[k] = emits[k]
                \/ k = Len(emits) + 1 /\ emits'[k] = [by |-> c, event |-> e, seq |-> 0]
        BY <1>1, <3>5, Appended
      <4> QED
        BY <3>2, <3>5, <4>1
    <3>6. ASSUME NEW c \in Cancellers, CancelWaiting(c), Emit(c, Completed("cancelled"))
          PROVE  FALSE
      <4>1. emits' # emits
        <5> DEFINE x == [by |-> c, event |-> Completed("cancelled"), seq |-> 0]
        <5>1. emits' = Append(emits, x)
          BY <3>6 DEF Emit
        <5> HIDE DEF x
        <5> QED
          BY <1>1, <5>1
      <4>2. cancel[c].pc = "cancelled" /\ UpdateAccepted(cancel[c].copy, "cancelled")
        BY <3>6, <4>1, Zenon DEF CancelWaiting
      <4>3. cancel[c].copy.seq < snap.seq
        BY <3>2, <4>2 DEF ProcessInv
      <4> QED
        BY <1>1, <4>2, <4>3 DEF UpdateAccepted
    <3> QED
      BY <1>1, <1>2, <2>2, <3>3, <3>4, <3>5, <3>6, CallEmitters DEF Emitters
  <2>3. CASE Store
    <3>1. ASSUME ~writing, Len(log) = snap.seq + 1, UNCHANGED provider
          PROVE  provider'.pc # "none" /\ \A k \in DOMAIN emits' : emits'[k].by \notin Cancellers
      BY <2>1, <2>3, <3>1, StoreBys
    <3>2. CASE EmitRead
      BY <1>4, <3>1, <3>2 DEF EmitRead, Running, disk, calls
    <3>3. CASE EmitAppend
      <4>1. ~Fits(Head(emits).seq) /\ log' = log
        BY <1>4, <3>3 DEF EmitAppend
      <4> QED
        BY <1>4, <3>1, <3>3, <4>1 DEF EmitAppend, Running, calls
    <3>4. CASE WriteSnapshot
      <4>1. log' = log /\ snap'.seq # Len(log)
        <5>1. snap'.seq \in Nat
          BY <2>3, SeqGrows
        <5> QED
          BY <1>4, <3>4, <5>1 DEF WriteSnapshot
      <4> QED
        BY <2>3, <3>4, <4>1, RefusedLine, StoreBys
    <3>5. CASE WriteSnapshotFails
      <4>1. server.failures \in Nat
        BY <1>1 DEF TypeOK
      <4>2. server'.failures = server.failures + 1
        BY <1>1, <3>5, Zenon DEF WriteSnapshotFails, Fails, TypeOK
      <4> QED
        BY <1>4, <4>1, <4>2
    <3> QED
      BY <2>3, <3>2, <3>3, <3>4, <3>5 DEF Store
  <2>4. CASE Restart
    <3>1. log' = log /\ snap' = Recovered /\ snap'.seq \in Nat
      BY <1>1, <2>4, TypesKept DEF Restart, TypeOK, Snapshots
    <3>2. ~CanReplay(log)
      <4>1. ASSUME CanReplay(log)
            PROVE  FALSE
        <5>1. Len(log) \in DOMAIN log
          BY <1>1, <4>1 DEF CanReplay
        <5>2. Recovered.seq = Len(log)
          BY <1>1, <4>1, <5>1 DEF Recovered, LogLeads
        <5> QED
          BY <1>4, <3>1, <5>2
      <4> QED
        BY <4>1
    <3>3. log # <<>>
      BY <1>4, <3>1
    <3>4. Recovered = snap
      BY <3>2, <3>3, Zenon DEF Recovered
    <3> QED
      BY <1>4, <3>1, <3>2, <3>3, <3>4 DEF LostInv, Agrees, Verdicts
  <2> QED
    BY <2>2, <2>3, <2>4, StepCases
<1> QED
  BY <1>3, <1>4, WaitingKept DEF CancelInv, Emitting

-----------------------------------------------------------------------------
(* What the replay makes of the log *)

\* A replay that ends in a verdict has found it in the log.
LEMMA ReplayTerminal ==
    ASSUME LifecycleInv, Replay(log) \in Terminal
    PROVE  \E k \in Verdicts : log[k].event.state = Replay(log)
<1>1. log \in Seq(Entries) /\ VerdictInv
  BY DEF LifecycleInv, JournalInv, TypeOK
<1> DEFINE last == CHOOSE l \in DOMAIN log : IsLastSetting(log, l)
           s == StateSet(log[last].event)
<1>2. ~(\A k \in DOMAIN log : ~Sets(log[k].event))
  BY DEF Replay, Terminal
<1>3. last \in DOMAIN log /\ IsLastSetting(log, last)
  BY <1>1, <1>2 DEF VerdictInv
<1> HIDE DEF last
<1>4. Replay(log) = "running" \/ Replay(log) = s
  BY <1>2 DEF Replay, last, s
<1>5. Replay(log) = s
  BY <1>4 DEF Terminal
<1>6. Sets(log[last].event)
  BY <1>3 DEF IsLastSetting
<1>7. log[last].event.kind = "run_completed" /\ s = log[last].event.state
  BY <1>5, <1>6 DEF Sets, StateSet, Terminal, s
<1> QED
  BY <1>3, <1>5, <1>7 DEF Verdicts

-----------------------------------------------------------------------------
(* A run that is over *)

\* Somebody who ended the run has still to report it.
ToReport ==
    \/ execute.pc \in {"error", "completed", "throws"}
    \/ \E c \in Cancellers : cancel[c].pc = "completing"

\* Unless a write has failed or an adapter reports no end, a run that is over has its
\* verdict in the log, or somebody is about to report it.
OverInv ==
    /\ server.failures = 0 /\ server.up
    /\ snap.state \in Terminal
    /\ provider.pc = "none" \/ provider.reports
    => Agrees \/ ToReport

\* A call that ends the run has to report it, unless the adapter does not.
LEMMA EndedBy ==
    ASSUME LifecycleInv, ReportInv, CallStep, snap.state \notin Terminal, snap'.state \in Terminal
    PROVE  ToReport' \/ execute.pc = "outcome"
<1>1. /\ execute \in [pc : ExecutePCs, copy : Snapshots]
      /\ cancel \in [Cancellers ->
            [pc : {"idle", "cancelled", "cancelling", "completing", "done"}, copy : Snapshots]]
  BY DEF LifecycleInv, JournalInv, TypeOK
<1>2. snap'.state # snap.state
  OBVIOUS
<1>3. CASE CreateRun \/ AnnounceRun \/ Crash \/ UNCHANGED vars
  BY <1>2, <1>3 DEF CreateRun, AnnounceRun, Crash, vars, disk, Terminal
<1>4. CASE Execute
  <2>1. CASE ExecuteStart
    <3>1. snap' = snap \/ Update(execute.copy, "starting")
      BY <2>1, Zenon DEF ExecuteStart, ExecuteUpdate
    <3> QED
      BY <3>1 DEF Update, Terminal
  <2>2. CASE ExecuteNegotiates
    <3>1. execute.pc = "capabilities"
      BY <2>2 DEF ExecuteNegotiates
    <3>2. snap' = snap \/ Update(execute.copy, execute.copy.state)
      BY <2>2, Zenon DEF ExecuteNegotiates, ExecuteUpdate
    <3> QED
      BY <3>1, <3>2 DEF Update, ReportInv
  <2>3. CASE ExecuteEnds
    BY <2>3 DEF ExecuteEnds
  <2>4. CASE ExecuteAborts
    <3>1. snap' = snap \/ ExecuteAt("error")
      BY <2>4, Zenon DEF ExecuteAborts, ExecuteUpdate
    <3> QED
      BY <1>1, <3>1 DEF ExecuteAt, ToReport
  <2>5. CASE ExecuteRead \/ ExecuteWarned \/ ExecuteDiscovers \/ ExecuteActivates
                \/ ExecuteSettles \/ ExecuteCatches \/ ExecuteReports \/ ExecuteCompletes
                \/ ExecuteFinally
    BY <1>2, <2>5 DEF ExecuteRead, ExecuteWarned, ExecuteDiscovers, ExecuteActivates,
       ExecuteSettles, ExecuteCatches, ExecuteReports, ExecuteCompletes, ExecuteFinally, disk
  <2> QED
    BY <1>4, <2>1, <2>2, <2>3, <2>4, <2>5 DEF Execute
<1>5. CASE Provider
  BY <1>2, <1>5 DEF Provider, ProviderStarts, ProviderBegins, ProviderAsks, ProviderExits,
     ProviderReports, ProviderSettles, ProviderEventRefused, disk
<1>6. ASSUME NEW c \in Cancellers, Cancel(c)
      PROVE  ToReport'
  <2>1. CASE CancelWaiting(c)
    <3>1. snap' = snap \/ cancel' = [cancel EXCEPT ![c].pc = "completing"]
      BY <2>1, Zenon DEF CancelWaiting
    <3> QED
      BY <1>1, <3>1 DEF ToReport
  <2>2. CASE CancelActive(c)
    <3>1. snap' = snap \/ Update(cancel[c].copy, "cancelling")
      BY <2>2, Zenon DEF CancelActive
    <3> QED
      BY <3>1 DEF Update, Terminal
  <2>3. CASE CancelRead(c) \/ CancelCompletes(c)
    BY <1>2, <2>3 DEF CancelRead, CancelCompletes, disk
  <2> QED
    BY <1>6, <2>1, <2>2, <2>3 DEF Cancel
<1>7. ASSUME NEW i \in Inputs, Input(i)
      PROVE  FALSE
  BY <1>2, <1>7 DEF Input, InputRead, InputSends, InputEmits, InputReturns, disk
<1> QED
  BY <1>3, <1>4, <1>5, <1>6, <1>7 DEF CallStep

\* Who has to report the end does, or the server goes down.
LEMMA EndReported ==
    ASSUME LifecycleInv, ReportInv, CancelInv, CallStep, ToReport,
           server.failures = 0, server.up, server'.up
    PROVE  Agrees' \/ ToReport'
<1>1. /\ TypeOK /\ JournalInv
      /\ execute \in [pc : ExecutePCs, copy : Snapshots]
      /\ server \in [up : BOOLEAN, crashes : Nat, restarts : Nat, failures : Nat]
  BY DEF LifecycleInv, JournalInv, TypeOK
<1>2. Agrees => Agrees'
  BY AgreesStays
<1>3. CASE execute.pc \in {"error", "completed", "throws"} /\ Execute
  <2>1. ExecuteReports \/ ExecuteCompletes \/ ExecuteFinally
    BY <1>3 DEF Execute, ExecuteRead, ExecuteWarned, ExecuteStart, ExecuteDiscovers,
       ExecuteNegotiates, ExecuteActivates, ExecuteSettles, ExecuteEnds, ExecuteCatches,
       ExecuteAborts
  <2>2. CASE ExecuteReports
    BY <1>1, <2>2 DEF ExecuteReports, ExecuteAt, ToReport
  <2>3. CASE ExecuteCompletes
    BY <1>1, <1>2, <2>3 DEF ExecuteCompletes, ExecuteAt, ToReport, ReportInv
  <2>4. CASE ExecuteFinally
    <3>1. server' = [server EXCEPT !.up = FALSE]
      BY <1>3, <2>4 DEF ExecuteFinally, Dies
    <3>2. ~server'.up
      BY <1>1, <3>1, Zenon
    <3> QED
      BY <3>2
  <2> QED
    BY <2>1, <2>2, <2>3, <2>4
<1>4. CASE execute.pc \in {"error", "completed", "throws"} /\ ~Execute
  BY <1>1, <1>4, OthersKeepExecute DEF ToReport
<1>5. ASSUME NEW c \in Cancellers, cancel[c].pc = "completing"
      PROVE  Agrees' \/ ToReport'
  <2>1. CASE cancel'[c].pc = "completing"
    BY <2>1 DEF ToReport
  <2>2. CASE CancelCompletes(c)
    BY <1>2, <1>5, <2>2 DEF CancelCompletes, CancelInv
  <2> QED
    BY <1>1, <1>5, <2>1, <2>2, CancelMoves
<1> QED
  BY <1>3, <1>4, <1>5 DEF ToReport

LEMMA OverKept ==
    ASSUME LifecycleInv, LostInv, ProcessInv, ReportInv, CancelInv, OverInv, [Next]_vars
    PROVE  OverInv'
<1>1. /\ TypeOK /\ JournalInv /\ log \in Seq(Entries)
  BY DEF LifecycleInv, JournalInv, TypeOK
<1> SUFFICES ASSUME server'.failures = 0, server'.up, snap'.state \in Terminal,
                    provider'.pc = "none" \/ provider'.reports
             PROVE  Agrees' \/ ToReport'
  BY DEF OverInv
<1>2. ASSUME CallStep \/ Store
      PROVE  /\ server.failures = 0 /\ server.up
             /\ provider.pc = "none" \/ provider.reports
  <2>1. server.failures = 0 /\ server.up
    BY <1>1, <1>2, ServerKept
  <2>2. execute.pc = "launch" => provider.pc = "none"
    BY DEF ProcessInv
  <2>3. provider.pc = "none" \/ provider.reports
    BY <1>1, <1>2, <2>2, ProviderMoves
  <2> QED
    BY <2>1, <2>3
<1>3. CASE CallStep
  <2>1. CASE snap.state \in Terminal
    <3>1. Agrees \/ ToReport
      BY <1>2, <1>3, <2>1 DEF OverInv
    <3> QED
      BY <1>2, <1>3, <3>1, AgreesStays, EndReported
  <2>2. CASE snap.state \notin Terminal
    <3>1. ToReport' \/ execute.pc = "outcome"
      BY <1>3, <2>2, EndedBy
    <3>2. execute.pc # "outcome"
      BY <1>2, <1>3 DEF ProcessInv
    <3> QED
      BY <3>1, <3>2
  <2> QED
    BY <2>1, <2>2
<1>4. CASE Store
  <2>1. execute' = execute /\ cancel' = cancel
    BY <1>4 DEF Store, EmitRead, EmitAppend, WriteSnapshot, WriteSnapshotFails, calls
  <2>2. CASE snap.state \in Terminal
    <3>1. Agrees \/ ToReport
      BY <1>2, <1>4, <2>2 DEF OverInv
    <3> QED
      BY <1>4, <2>1, <3>1, AgreesStays DEF ToReport
  <2>3. CASE snap.state \notin Terminal
    <3> DEFINE e == log[Len(log)].event
    <3>1. /\ WriteSnapshot /\ log' = log
          /\ snap'.state = StateAfterEvent(snap.state, e)
      BY <1>4, <2>3 DEF Store, EmitRead, EmitAppend, WriteSnapshot, WriteSnapshotFails, disk
    <3>2. Len(log) \in DOMAIN log
      BY <1>1, <3>1 DEF WriteSnapshot, JournalInv, WritingLeads, TypeOK, Snapshots
    <3> HIDE DEF e
    <3>3. e.kind = "run_completed" /\ snap'.state = e.state
      BY <2>3, <3>1 DEF StateAfterEvent, Terminal, Waiting
    <3> QED
      BY <3>1, <3>2, <3>3 DEF Agrees, Verdicts, e
  <2> QED
    BY <2>2, <2>3
<1>5. CASE Restart
  <2>1. log' = log /\ snap' = Recovered
    BY <1>5 DEF Restart
  <2>2. CASE CanReplay(log)
    <3>1. Recovered.state = IF Replay(log) \in Terminal THEN Replay(log) ELSE "orphaned"
      BY <2>2 DEF Recovered, CanReplay
    <3>2. Replay(log) \in Terminal /\ snap'.state = Replay(log)
      BY <2>1, <3>1 DEF Terminal
    <3> QED
      BY <2>1, <3>2, ReplayTerminal DEF Agrees, Verdicts
  <2>3. CASE ~CanReplay(log) /\ log # <<>>
    <3>1. Recovered = snap
      BY <2>3, Zenon DEF Recovered
    <3> QED
      BY <2>1, <2>3, <3>1 DEF LostInv, Agrees, Verdicts
  <2>4. CASE log = <<>>
    <3>1. snap.seq = 0
      BY <1>1, <2>4 DEF JournalInv, LogLeads, TypeOK, Snapshots
    <3>2. Recovered \in {[state |-> "orphaned", seq |-> 0], Absent}
      BY <2>4, <3>1, Zenon DEF Recovered, CanReplay
    <3> QED
      BY <2>1, <3>2 DEF Absent, Terminal
  <2> QED
    BY <2>2, <2>3, <2>4
<1> QED
  BY <1>3, <1>4, <1>5, StepCases

ReplayInv ==
    LifecycleInv /\ CreatedInv /\ LostInv /\ ProcessInv /\ ReportInv /\ CancelInv /\ OverInv

LEMMA ReplayInvariant == Spec => []ReplayInv
<1>1. Init => ReplayInv
  <2> SUFFICES ASSUME Init
               PROVE  ReplayInv
    OBVIOUS
  <2>1. LifecycleInv
    BY LifecycleInit
  <2>2. CreatedInv /\ LostInv
    BY DEF Init, NoProvider, CreatedInv, LostInv, Served
  <2>3. ProcessInv /\ ReportInv
    BY DEF Init, NoProvider, Absent, Terminal, ProcessInv, ReportInv, Emitting
  <2>4. CancelInv /\ OverInv
    BY DEF Init, Absent, Terminal, CancelInv, OverInv
  <2> QED
    BY <2>1, <2>2, <2>3, <2>4 DEF ReplayInv
<1>2. ReplayInv /\ [Next]_vars => ReplayInv'
  BY LifecycleKept, CreatedKept, LostKept, ProcessKept, ReportKept, CancelKept, OverKept
     DEF ReplayInv
<1> QED
  BY <1>1, <1>2, PTL DEF Spec

-----------------------------------------------------------------------------
(* The theorems *)

\* Every variable keeps its type, however the calls, the provider, crashes, restarts
\* and failing writes interleave.
THEOREM LifecycleTypeCorrect == Spec => []TypeOK
<1>1. JournalInv => TypeOK
  BY DEF JournalInv
<1> QED
  BY <1>1, JournalInvariant, PTL

\* AgentRunStore.append: the log has no gap, the snapshot is never ahead of it and at
\* most one event behind, for any number of calls, crashes and failing writes.
THEOREM LogLeadsHolds == Spec => []LogLeads
<1>1. JournalInv => LogLeads
  BY DEF JournalInv
<1> QED
  BY <1>1, JournalInvariant, PTL

\* transitionRun and applyEventToSnapshot: while the server is up, nothing that calls,
\* providers and late events do changes the state of a run that is over.
THEOREM TerminalIsFinalHolds == Spec => TerminalIsFinal
<1>1. ASSUME JournalInv, [Next]_vars, server.up, server'.up, snap.state \in Terminal
      PROVE  snap'.state = snap.state
  <2>1. ~Restart
    BY <1>1 DEF Restart
  <2> QED
    BY <1>1, <2>1, StepCases, VerdictStays
<1> QED
  BY <1>1, JournalInvariant, PTL DEF Spec, TerminalIsFinal

\* AgentRunStore.append, cancel() and the catch block of execute(): the log of a run
\* never holds two verdicts that disagree, whoever reports the end, in whatever order
\* the reports get through, and wherever the server stops in between.
THEOREM OneVerdictHolds == Spec => []OneVerdict
<1>1. LifecycleInv => OneVerdict
  BY DEF LifecycleInv, VerdictInv
<1> QED
  BY <1>1, LifecycleInvariant, PTL

\* recover() and the retention believe the log: however execute(), cancel(), the provider,
\* restarts and refused events interleave, at rest the log of a run that is over begins
\* with run_created unless the server crashed, and its replay gives the state the run has.
THEOREM ReproducibleHolds == Spec => []Reproducible
<1>1. ReplayInv => Reproducible
  <2> SUFFICES ASSUME ReplayInv, AtRest, snap.state \in Terminal, server.failures = 0,
                      provider.pc = "none" \/ provider.reports
               PROVE  /\ server.crashes = 0 => CanReplay(log)
                      /\ Replay(log) = snap.state
    BY DEF Reproducible
  <2>1. Agrees
    BY DEF ReplayInv, OverInv, AtRest, ToReport
  <2>2. PICK k \in Verdicts : log[k].event.state = snap.state
    BY <2>1 DEF Agrees
  <2>3. Replay(log) = snap.state
    BY <2>2, VerdictReplays DEF ReplayInv
  <2>4. CanReplay(log) \/ server.crashes # 0
    <3>1. snap # Absent
      BY DEF Absent, Terminal
    <3>2. enqueue # "new"
      BY <3>1 DEF ReplayInv, LifecycleInv, JournalInv, Untouched
    <3>3. emits = <<>>
      BY DEF AtRest
    <3> QED
      BY <3>2, <3>3 DEF ReplayInv, CreatedInv
  <2> QED
    BY <2>3, <2>4
<1> QED
  BY <1>1, ReplayInvariant, PTL

=============================================================================
