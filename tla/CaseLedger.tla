----------------------------- MODULE CaseLedger -----------------------------
(***************************************************************************)
(* What the case service promises (llm-ops-agent/internal/services/        *)
(* orchestrator): every call takes effect at most once and atomically, on  *)
(* the current row of its case, together with its timeline row and its     *)
(* idempotency record; a refused call leaves no trace.  There are no       *)
(* statements, locks or connections here: CaseRepository implements this.  *)
(***************************************************************************)
EXTENDS CaseTypes

CONSTANTS
  NoCall,     \* the request has not arrived
  Accepts     \* [Request -> SUBSET Args]: the calls each request may make

ASSUME LedgerAssumption ==
  /\ NoCall \notin Args
  /\ Accepts \in [Request -> SUBSET Args]

VARIABLES
  call,       \* the call of each request
  status,     \* ops_case.status
  version,    \* ops_case.version
  timeline,   \* rows of case_timeline, in order, per case
  registry,   \* the idempotency table: key -> stored response
  outcome     \* what the service returned to each request

vars == <<call, status, version, timeline, registry, outcome>>
store == <<status, version, timeline, registry>>

Init ==
  /\ call = [r \in Request |-> NoCall]
  /\ status = [c \in CaseId |-> Absent]
  /\ version = [c \in CaseId |-> 0]
  /\ timeline = [c \in CaseId |-> <<>>]
  /\ registry = [k \in Key |-> NoRow]
  /\ outcome = [r \in Request |-> NoOutcome]

Pending(r) == call[r] # NoCall /\ outcome[r] = NoOutcome

Registered(k) == k \in Key /\ registry[k] # NoRow

Return(r, result) ==
  /\ outcome' = [outcome EXCEPT ![r] = result]
  /\ UNCHANGED call

Submit(r) ==
  /\ call[r] = NoCall
  /\ \E args \in Accepts[r] :
       /\ args.op = "transition" => args.case = UnknownId \/ status[args.case] # Absent
       /\ call' = [call EXCEPT ![r] = args]
  /\ UNCHANGED <<status, version, timeline, registry, outcome>>

(* The atomic effect of an accepted call. The caller learns the row, or an
   error when the confirmation of the commit does not arrive, or nothing. *)
Write(r, row, event) ==
  /\ ~Registered(call[r].key)
  /\ status' = [status EXCEPT ![row.case] = row.status]
  /\ version' = [version EXCEPT ![row.case] = row.version]
  /\ timeline' = [timeline EXCEPT
                    ![row.case] = Append(@, [actor |-> r, event |-> event])]
  /\ registry' = [k \in Key |-> IF k = call[r].key THEN row ELSE registry[k]]
  /\ \E result \in {Ok(row), Err("error")} : Return(r, result)

Create(r) ==
  /\ Pending(r) /\ call[r].op = "create"
  /\ \E c \in CaseId \ {UnknownId} :
       /\ status[c] = Absent
       /\ Write(r, [case |-> c, status |-> "NEW", version |-> 1], "case_created")

Move(r) ==
  /\ Pending(r) /\ call[r].op = "transition"
  /\ LET args == call[r]
         c == args.case
     IN  /\ status[c] # Absent
         /\ Matches(args, version[c])
         /\ \E edge \in Decide(status[c], args.event, args.ctx) :
              Write(r, [case |-> c, status |-> edge.to, version |-> version[c] + 1],
                    args.event)

Replay(r) ==
  /\ Pending(r)
  /\ Registered(call[r].key)
  /\ Return(r, Ok(registry[call[r].key]))
  /\ UNCHANGED store

(* A refusal is justified by the row of the case at that moment. *)
Refuse(r) ==
  /\ Pending(r) /\ call[r].op = "transition"
  /\ LET args == call[r]
         c == args.case
     IN  \/ /\ status[c] = Absent \/ ~Matches(args, version[c])
            /\ Return(r, Err("norows"))
         \/ /\ status[c] # Absent /\ Matches(args, version[c])
            /\ \/ ErrIllegal(status[c], args.event) /\ Return(r, Err("illegal"))
               \/ ErrGuard(status[c], args.event, args.ctx) /\ Return(r, Err("guard"))
  /\ UNCHANGED store

Fail(r) ==
  /\ Pending(r)
  /\ Return(r, Err("error"))
  /\ UNCHANGED store

(* The process dies: every call in progress is lost. *)
Lose ==
  /\ \E r \in Request : Pending(r)
  /\ outcome' = [r \in Request |-> IF Pending(r) THEN Err("lost") ELSE outcome[r]]
  /\ UNCHANGED <<call, store>>

Next ==
  \/ \E r \in Request :
       Submit(r) \/ Create(r) \/ Move(r) \/ Replay(r) \/ Refuse(r) \/ Fail(r)
  \/ Lose

Spec == Init /\ [][Next]_vars

-----------------------------------------------------------------------------
(* Properties. *)

(* Row i of case c records the event, and its writer vouched for the facts. *)
Happened(c, i, event) == i \in DOMAIN timeline[c] /\ timeline[c][i].event = event
Vouched(c, i, facts) == facts \subseteq call[timeline[c][i].actor].ctx

ParkEvent == {"force_park"} \cup {f[2] : f \in FailureEvent}
Parked(c, i) == \E event \in ParkEvent : Happened(c, i, event)

(* Nothing executes without an approval inside a change window, and no approval
   outlives a park: the history of a case that executes, is verified or is closed
   holds an approval with both facts and, after it, no event that parks.  What was
   approved is a plan: the row before is a plan_ready whose caller vouched that the
   plan is complete, unless the case was parked just before it, where the code asks
   for no such fact (workflow.go:48, 96). *)
Planned(c, i) ==
  Happened(c, i, "plan_ready") /\ (Vouched(c, i, {"PlanComplete"}) \/ Parked(c, i - 1))

Approved(c, i) ==
  Happened(c, i, "gate_approved") /\ Vouched(c, i, {"GateApproved", "ChangeWindow"})

ExecutionIsApproved ==
  \A c \in CaseId :
    status[c] \in {"EXECUTING", "VERIFYING", "CLOSED"} =>
      \E i \in DOMAIN timeline[c] :
        Approved(c, i) /\ Planned(c, i - 1) /\ \A j \in DOMAIN timeline[c] : Parked(c, j) => j < i

(* A case is closed by a verify_pass and stays closed: the last row of a closed case is
   one, by a caller that vouched for the verification, and wherever such a row
   stands, the case is closed and nothing follows (workflow.go:46). *)
ClosedIsFinal ==
  \A c \in CaseId :
    /\ status[c] = "CLOSED" => Happened(c, Len(timeline[c]), "verify_pass")
    /\ \A i \in DOMAIN timeline[c] :
         Happened(c, i, "verify_pass") =>
           status[c] = "CLOSED" /\ i = Len(timeline[c]) /\ Vouched(c, i, {"VerifyPassed"})
=============================================================================
