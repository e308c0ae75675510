------------------------------ MODULE Workflow ------------------------------
(***************************************************************************)
(* The pure finite-state machine that decides every move of an ops case    *)
(* (llm-ops-agent/workflow/workflow.go).  The transition table is a set of *)
(* edges and the guards say which facts of the caller's Context an edge    *)
(* requires; Decide is the set of edges a call may take, which is empty    *)
(* when the code returns ErrIllegal or ErrGuard.                           *)
(***************************************************************************)

State == {"NEW", "ANALYZING", "PLANNING", "WAIT_GATE",
          "EXECUTING", "VERIFYING", "CLOSED", "PARKED"}

Event == {"start_analysis", "analysis_done", "analysis_failed",
          "plan_ready", "plan_failed", "gate_approved", "gate_rejected",
          "exec_done", "exec_failed", "verify_pass", "verify_failed",
          "force_park"}

\* The boolean fields of workflow.Context: a Context is the set of its true ones.
Fact == {"PlanComplete", "GateApproved", "ChangeWindow", "VerifyPassed"}

Edge == [from : State, event : Event, to : State]

Moves(from, event, to) == [from |-> from, event |-> event, to |-> to]

(* The failure event of each working state. *)
FailureEvent ==
  { <<"ANALYZING", "analysis_failed">>, <<"PLANNING", "plan_failed">>,
    <<"WAIT_GATE", "gate_rejected">>,   <<"EXECUTING", "exec_failed">>,
    <<"VERIFYING", "verify_failed">> }

\* Mutation: a closed case can be parked.
tableReopens ==
  { Moves("NEW", "start_analysis", "ANALYZING"),
    Moves("ANALYZING", "analysis_done", "PLANNING"),
    Moves("PLANNING", "plan_ready", "WAIT_GATE"),
    Moves("WAIT_GATE", "gate_approved", "EXECUTING"),
    Moves("EXECUTING", "exec_done", "VERIFYING"),
    Moves("VERIFYING", "verify_pass", "CLOSED"),
    Moves("CLOSED", "force_park", "PARKED") }

table ==
  { Moves("NEW", "start_analysis", "ANALYZING"),
    Moves("ANALYZING", "analysis_done", "PLANNING"),
    Moves("PLANNING", "plan_ready", "WAIT_GATE"),
    Moves("WAIT_GATE", "gate_approved", "EXECUTING"),
    Moves("EXECUTING", "exec_done", "VERIFYING"),
    Moves("VERIFYING", "verify_pass", "CLOSED"),
    Moves("PARKED", "start_analysis", "ANALYZING"),
    Moves("PARKED", "plan_ready", "WAIT_GATE") }
  \cup { Moves(f[1], f[2], "PARKED") : f \in FailureEvent }
  \cup { Moves(s, "force_park", "PARKED") : s \in State \ {"CLOSED", "PARKED"} }

\* Mutation: the approval guard forgets the change window.
guardsNoWindow(edge) ==
  {fact \in Fact :
     \/ edge.event = "gate_approved" /\ fact = "GateApproved"
     \/ edge.event = "verify_pass" /\ fact = "VerifyPassed"}

(* The facts that the guard of an edge requires; an edge without a guard
   function requires none. *)
guards(edge) ==
  {fact \in Fact :
     \/ /\ edge.from = "PLANNING" /\ edge.event = "plan_ready"
        /\ fact = "PlanComplete"
     \/ /\ edge.from = "WAIT_GATE" /\ edge.event = "gate_approved"
        /\ fact \in {"GateApproved", "ChangeWindow"}
     \/ /\ edge.from = "VERIFYING" /\ edge.event = "verify_pass"
        /\ fact = "VerifyPassed"}

EdgesOf(from, event) == {edge \in table : edge.from = from /\ edge.event = event}

ErrIllegal(from, event) == EdgesOf(from, event) = {}

ErrGuard(from, event, ctx) ==
  \E edge \in EdgesOf(from, event) : ~(guards(edge) \subseteq ctx)

(* The intents a call may get: at most one edge, none when it is refused. *)
Decide(from, event, ctx) ==
  {edge \in EdgesOf(from, event) : guards(edge) \subseteq ctx}
=============================================================================
