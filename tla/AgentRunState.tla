--------------------------- MODULE AgentRunState ---------------------------
(***************************************************************************)
(* The life cycle of an agent run (src/server/src/agents/state-machine.ts):*)
(* the states, the table of permitted transitions and the meaning of an    *)
(* event for the state of a run.  The other modules share these operators. *)
(***************************************************************************)

Terminal == {"cancelled", "succeeded", "failed", "timed_out"}

Waiting == {"waiting_for_input", "waiting_for_approval"}

AgentStates ==
    {"queued", "starting", "running", "cancelling", "orphaned", "recovering"}
        \cup Waiting \cup Terminal

\* ALLOWED_TRANSITIONS
Allowed ==
    [ s \in AgentStates |->
        CASE s = "queued"     -> {"starting", "cancelling", "cancelled"}
          [] s = "starting"   -> {"running", "cancelling", "failed",
                                  "timed_out", "orphaned"}
          [] s = "running"    -> Waiting \cup {"cancelling", "succeeded", "failed",
                                               "timed_out", "orphaned"}
          [] s \in Waiting    -> {"running", "cancelling", "failed",
                                  "timed_out", "orphaned"}
          [] s = "cancelling" -> {"cancelled", "failed", "orphaned"}
          [] s = "orphaned"   -> {"recovering", "cancelled"}
          [] s = "recovering" -> {"queued", "starting", "running", "failed",
                                  "cancelled", "orphaned"}
          [] s \in Terminal   -> {} ]

CanTransition(from, to) == from = to \/ to \in Allowed[from]

Events ==
    [kind : {"run_created", "capabilities_negotiated", "process_started",
             "approval_requested", "approval_resolved",
             "user_input_requested", "user_input_received", "error", "warning"}]
        \cup [kind : {"run_completed"}, state : Terminal]

\* What an event makes of the state; a terminal state absorbs every event.
StateAfterEvent(s, e) ==
    CASE s \in Terminal -> s
      [] s \notin Terminal /\ e.kind = "run_completed" -> e.state
      [] e.kind = "process_started"      /\ s = "starting"             -> "running"
      [] e.kind = "approval_requested"   /\ s = "running"              -> "waiting_for_approval"
      [] e.kind = "approval_resolved"    /\ s = "waiting_for_approval" -> "running"
      [] e.kind = "user_input_requested" /\ s = "running"              -> "waiting_for_input"
      [] e.kind = "user_input_received"  /\ s = "waiting_for_input"    -> "running"
      [] OTHER -> s

=============================================================================
