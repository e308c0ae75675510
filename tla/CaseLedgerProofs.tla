-------------------------- MODULE CaseLedgerProofs --------------------------
(***************************************************************************)
(* The workflow's safety properties as the ledger promises them, for every *)
(* number of calls, whatever facts the callers claim.                      *)
(***************************************************************************)
EXTENDS CaseLedger, TLAPS

-----------------------------------------------------------------------------
(* Whoever wrote a row has called, and his call stays what it was. *)

Typing ==
  /\ call \in [Request -> Args \cup {NoCall}]
  /\ status \in [CaseId -> Status]
  /\ timeline \in [CaseId -> Seq(TimelineRow)]

Called == \A c \in CaseId : \A i \in DOMAIN timeline[c] : call[timeline[c][i].actor] # NoCall

(* A case that waits at the gate has its plan in the last row, a parked one its park. *)
Waits ==
  \A c \in CaseId :
    /\ status[c] = "WAIT_GATE" => Planned(c, Len(timeline[c]))
    /\ status[c] = "PARKED" => Parked(c, Len(timeline[c]))

Inv == Typing /\ Called /\ Waits /\ ExecutionIsApproved /\ ClosedIsFinal

-----------------------------------------------------------------------------
(* The table: where the intents of an event lead, and what they ask for. *)

Leads(from, event, ctx, to) ==
  /\ from # "CLOSED"
  /\ to = "WAIT_GATE" => event = "plan_ready" /\ (from = "PARKED" \/ "PlanComplete" \in ctx)
  /\ to = "PARKED" => event \in ParkEvent
  /\ to = "EXECUTING" => /\ from = "WAIT_GATE" /\ event = "gate_approved"
                         /\ {"GateApproved", "ChangeWindow"} \subseteq ctx
  /\ to = "VERIFYING" => from = "EXECUTING" /\ event = "exec_done"
  /\ to = "CLOSED" => from = "VERIFYING" /\ event = "verify_pass"
  /\ event = "verify_pass" => to = "CLOSED" /\ "VerifyPassed" \in ctx

LEMMA IntentLeads ==
  ASSUME NEW from, NEW event, NEW ctx, NEW edge \in Decide(from, event, ctx)
  PROVE  edge.to \in State /\ event \in Event /\ Leads(from, event, ctx, edge.to)
<1>1. edge \in table /\ edge.from = from /\ edge.event = event /\ guards(edge) \subseteq ctx
  BY DEF Decide, EdgesOf
<1>2. /\ edge.to \in State /\ edge.from \in State \ {"CLOSED"} /\ edge.event \in Event
      /\ edge.to = "WAIT_GATE" =>
           edge.from \in {"PLANNING", "PARKED"} /\ edge.event = "plan_ready"
      /\ edge.to = "PARKED" => edge.event \in ParkEvent
      /\ edge.to = "EXECUTING" => edge.from = "WAIT_GATE" /\ edge.event = "gate_approved"
      /\ edge.to = "VERIFYING" => edge.from = "EXECUTING" /\ edge.event = "exec_done"
      /\ edge.to = "CLOSED" => edge.from = "VERIFYING" /\ edge.event = "verify_pass"
      /\ edge.event = "verify_pass" => edge.from = "VERIFYING" /\ edge.to = "CLOSED"
  <2>1. CASE \E f \in FailureEvent : edge = Moves(f[1], f[2], "PARKED")
    BY <2>1 DEF FailureEvent, Moves, State, Event, ParkEvent
  <2>2. CASE \E s \in State \ {"CLOSED", "PARKED"} : edge = Moves(s, "force_park", "PARKED")
    BY <2>2 DEF Moves, State, Event, ParkEvent
  <2> QED
    BY <1>1, <2>1, <2>2 DEF table, Moves, State, Event
<1>3. edge.from = "WAIT_GATE" /\ edge.event = "gate_approved" =>
        guards(edge) = {"GateApproved", "ChangeWindow"}
  BY DEF guards, Fact
<1>4. edge.from = "VERIFYING" /\ edge.event = "verify_pass" => guards(edge) = {"VerifyPassed"}
  BY DEF guards, Fact
<1>5. edge.from = "PLANNING" /\ edge.event = "plan_ready" => guards(edge) = {"PlanComplete"}
  BY DEF guards, Fact
<1> QED
  BY <1>1, <1>2, <1>3, <1>4, <1>5 DEF Leads

-----------------------------------------------------------------------------
(* Steps that write nothing. *)

LEMMA InitInv == Init => Inv
<1> SUFFICES ASSUME Init PROVE Inv
  OBVIOUS
<1>1. \A c \in CaseId : timeline[c] = <<>> /\ status[c] = Absent
  BY DEF Init
<1>2. Typing
  BY DEF Init, Typing, Status
<1>3. Called /\ Waits /\ ExecutionIsApproved /\ ClosedIsFinal
  BY <1>1 DEF Called, Waits, ExecutionIsApproved, ClosedIsFinal, Absent
<1> QED
  BY <1>2, <1>3 DEF Inv

LEMMA RowType ==
  ASSUME Typing, NEW c \in CaseId, NEW i \in DOMAIN timeline[c]
  PROVE  timeline[c][i].actor \in Request /\ timeline[c][i].event \in TimelineEvent
<1>1. timeline[c] \in Seq(TimelineRow)
  BY DEF Typing
<1>2. timeline[c][i] \in TimelineRow
  BY <1>1
<1> QED
  BY <1>2 DEF TimelineRow

(* What a history that is not written to says of its case stays. *)
Kept(c) ==
  /\ status'[c] = status[c] /\ timeline'[c] = timeline[c]
  /\ \A i \in DOMAIN timeline[c] :
       call'[timeline[c][i].actor] = call[timeline[c][i].actor]

LEMMA KeptSays ==
  ASSUME NEW c \in CaseId, Kept(c)
  PROVE  \A i : /\ \A event : Happened(c, i, event)' <=> Happened(c, i, event)
                /\ Parked(c, i)' <=> Parked(c, i)
                /\ Planned(c, i) => Planned(c, i)'
                /\ Approved(c, i) => Approved(c, i)'
                /\ \A facts : i \in DOMAIN timeline[c] /\ Vouched(c, i, facts)
                                => Vouched(c, i, facts)'
<1> SUFFICES ASSUME NEW i
             PROVE  /\ \A event : Happened(c, i, event)' <=> Happened(c, i, event)
                    /\ Parked(c, i)' <=> Parked(c, i)
                    /\ Planned(c, i) => Planned(c, i)'
                    /\ Approved(c, i) => Approved(c, i)'
                    /\ \A facts : i \in DOMAIN timeline[c] /\ Vouched(c, i, facts)
                                    => Vouched(c, i, facts)'
  OBVIOUS
<1>1. \A j, event : Happened(c, j, event)' <=> Happened(c, j, event)
  BY DEF Kept, Happened
<1>2. \A j : Parked(c, j)' <=> Parked(c, j)
  BY <1>1 DEF Parked
<1>3. \A facts : i \in DOMAIN timeline[c] /\ Vouched(c, i, facts) => Vouched(c, i, facts)'
  BY DEF Kept, Vouched
<1>4. \A event : Happened(c, i, event) => i \in DOMAIN timeline[c]
  BY DEF Happened
<1> QED
  BY <1>1, <1>2, <1>3, <1>4 DEF Planned, Approved

(* What Waits, ExecutionIsApproved and ClosedIsFinal say of one case. *)
CaseOK(c) ==
  /\ status[c] = "WAIT_GATE" => Planned(c, Len(timeline[c]))
  /\ status[c] = "PARKED" => Parked(c, Len(timeline[c]))
  /\ status[c] \in {"EXECUTING", "VERIFYING", "CLOSED"} =>
       \E i \in DOMAIN timeline[c] :
         Approved(c, i) /\ Planned(c, i - 1) /\ \A j \in DOMAIN timeline[c] : Parked(c, j) => j < i
  /\ status[c] = "CLOSED" => Happened(c, Len(timeline[c]), "verify_pass")
  /\ \A i \in DOMAIN timeline[c] :
       Happened(c, i, "verify_pass") =>
         status[c] = "CLOSED" /\ i = Len(timeline[c]) /\ Vouched(c, i, {"VerifyPassed"})

LEMMA CasesOK == Waits /\ ExecutionIsApproved /\ ClosedIsFinal <=> \A c \in CaseId : CaseOK(c)
BY DEF Waits, ExecutionIsApproved, ClosedIsFinal, CaseOK

LEMMA KeptOK ==
  ASSUME NEW c \in CaseId, Kept(c), CaseOK(c)
  PROVE  CaseOK(c)'
<1>1. status'[c] = status[c] /\ timeline'[c] = timeline[c]
  BY DEF Kept
<1>2. CASE status[c] \in {"EXECUTING", "VERIFYING", "CLOSED"}
  <2>1. PICK i \in DOMAIN timeline[c] :
          Approved(c, i) /\ Planned(c, i - 1) /\ \A j \in DOMAIN timeline[c] : Parked(c, j) => j < i
    BY <1>2 DEF CaseOK
  <2>2. Approved(c, i)' /\ Planned(c, i - 1)'
        /\ \A j \in DOMAIN timeline'[c] : Parked(c, j)' => j < i
    BY <1>1, <2>1, KeptSays
  <2> QED
    BY <1>1, <1>2, <2>2, KeptSays DEF CaseOK
<1>3. CASE status[c] \notin {"EXECUTING", "VERIFYING", "CLOSED"}
  BY <1>1, <1>3, KeptSays DEF CaseOK
<1> QED
  BY <1>2, <1>3

(* A submission changes no call that was made, so no claim about a writer. *)
LEMMA ReadsKeepInv ==
  ASSUME Inv, UNCHANGED <<status, timeline>>, Typing',
         \A r \in Request : call[r] # NoCall => call'[r] = call[r]
  PROVE  Inv'
<1>1. \A c \in CaseId : \A i \in DOMAIN timeline[c] :
        call'[timeline[c][i].actor] = call[timeline[c][i].actor]
        /\ call[timeline[c][i].actor] # NoCall
  BY RowType DEF Inv, Called
<1>2. Called'
  BY <1>1 DEF Called
<1>3. \A c \in CaseId : Kept(c)
  BY <1>1 DEF Kept
<1>4. \A c \in CaseId : CaseOK(c)'
  BY <1>3, CasesOK, KeptOK DEF Inv
<1>5. (Waits /\ ExecutionIsApproved /\ ClosedIsFinal)'
  BY <1>4 DEF Waits, ExecutionIsApproved, ClosedIsFinal, CaseOK
<1> QED
  BY <1>2, <1>5 DEF Inv

-----------------------------------------------------------------------------
(* A write appends a row to one history. *)

LEMMA WriteKeepsInv ==
  ASSUME Inv, NEW r \in Request, NEW c \in CaseId, NEW to \in State, NEW n,
         NEW event \in TimelineEvent, call[r] # NoCall,
         Write(r, [case |-> c, status |-> to, version |-> n], event),
         Leads(status[c], event, call[r].ctx, to)
  PROVE  Inv'
<1>0. PICK end \in Nat : end = Len(timeline[c])
  BY DEF Inv, Typing
<1> DEFINE row == [actor |-> r, event |-> event]
           last == end + 1
<1>1. /\ call' = call
      /\ status' = [status EXCEPT ![c] = to]
      /\ timeline' = [timeline EXCEPT ![c] = Append(timeline[c], row)]
  BY DEF Write, Return, Inv, Typing
<1>2. row \in TimelineRow /\ timeline[c] \in Seq(TimelineRow)
  BY DEF TimelineRow, Inv, Typing
<1>3. /\ Append(timeline[c], row) \in Seq(TimelineRow)
      /\ DOMAIN timeline[c] = 1..end /\ end \in Nat
      /\ DOMAIN Append(timeline[c], row) = 1..last /\ Len(Append(timeline[c], row)) = last
      /\ \A i \in DOMAIN timeline[c] : Append(timeline[c], row)[i] = timeline[c][i]
      /\ Append(timeline[c], row)[last] = row
  BY <1>0, <1>2
<1>4. Typing'
  BY <1>1, <1>3 DEF Inv, Typing, Status
<1>5. \A d \in CaseId \ {c} : Kept(d)
  BY <1>1 DEF Inv, Typing, Kept
<1>6. /\ timeline'[c] = Append(timeline[c], row) /\ status'[c] = to
      /\ DOMAIN timeline'[c] = 1..last /\ Len(timeline'[c]) = last
      /\ \A i \in DOMAIN timeline[c] : timeline'[c][i] = timeline[c][i]
      /\ timeline'[c][last].actor = r /\ timeline'[c][last].event = event
  BY <1>1, <1>3 DEF Inv, Typing
<1>7. \A d \in CaseId \ {c} : \A i \in DOMAIN timeline'[d] :
        timeline'[d] = timeline[d] /\ call'[timeline'[d][i].actor] # NoCall
  BY <1>1, <1>5 DEF Inv, Called, Kept
<1>8. \A i \in DOMAIN timeline'[c] : call'[timeline'[c][i].actor] # NoCall
  BY <1>1, <1>3, <1>6 DEF Inv, Called
<1>9. Called'
  BY <1>7, <1>8 DEF Called
(* The rows of before say what they said; the last says what the call does. *)
<1>10. ASSUME NEW i \in 1..end
       PROVE  /\ \A e : Happened(c, i, e)' <=> Happened(c, i, e)
              /\ Parked(c, i)' <=> Parked(c, i)
              /\ Approved(c, i) => Approved(c, i)'
              /\ \A facts : Vouched(c, i, facts)' <=> Vouched(c, i, facts)
  <2>1. timeline'[c][i] = timeline[c][i] /\ i \in DOMAIN timeline[c] /\ i \in DOMAIN timeline'[c]
    BY <1>3, <1>6
  <2>2. \A e : Happened(c, i, e)' <=> Happened(c, i, e)
    BY <2>1 DEF Happened
  <2>3. \A facts : Vouched(c, i, facts)' <=> Vouched(c, i, facts)
    BY <1>1, <2>1 DEF Vouched
  <2> QED
    BY <2>2, <2>3 DEF Parked, Approved
<1>11. ~Parked(c, 0)
  BY <1>3 DEF Parked, Happened
<1>12. \A i \in 1..end : Planned(c, i) => Planned(c, i)'
  <2> SUFFICES ASSUME NEW i \in 1..end, Planned(c, i) PROVE Planned(c, i)'
    OBVIOUS
  <2>1. Happened(c, i, "plan_ready")'
    BY <1>10 DEF Planned
  <2>2. CASE Vouched(c, i, {"PlanComplete"})
    BY <1>10, <2>1, <2>2 DEF Planned
  <2>3. CASE Parked(c, i - 1)
    <3>1. i - 1 \in 1..end
      BY <1>3, <1>11, <2>3 DEF Parked, Happened
    <3> QED
      BY <1>10, <2>1, <2>3, <3>1 DEF Planned
  <2> QED
    BY <2>2, <2>3 DEF Planned
<1>13. /\ \A e : Happened(c, last, e)' <=> e = event
       /\ \A facts : Vouched(c, last, facts)' <=> facts \subseteq call[r].ctx
       /\ Parked(c, last)' <=> event \in ParkEvent
  BY <1>1, <1>3, <1>6 DEF Happened, Vouched, Parked
<1>14. CaseOK(c) /\ Len(timeline[c]) = end
  BY <1>0, CasesOK DEF Inv
<1>15. CaseOK(c)'
  <2>1. to = "WAIT_GATE" => Planned(c, last)'
    <3> SUFFICES ASSUME to = "WAIT_GATE" PROVE Planned(c, last)'
      OBVIOUS
    <3>1. Happened(c, last, "plan_ready")'
      BY <1>13 DEF Leads
    <3>2. CASE "PlanComplete" \in call[r].ctx
      <4>1. Vouched(c, last, {"PlanComplete"})'
        BY <1>13, <3>2
      <4> QED
        BY <3>1, <4>1 DEF Planned
    <3>3. CASE status[c] = "PARKED"
      <4>1. Parked(c, end) /\ end \in 1..end
        BY <1>3, <1>14, <3>3 DEF CaseOK, Parked, Happened
      <4>2. Parked(c, last - 1)'
        BY <1>3, <1>10, <4>1
      <4> QED
        BY <3>1, <4>2 DEF Planned
    <3> QED
      BY <3>2, <3>3 DEF Leads
  <2>2. to = "PARKED" => Parked(c, last)'
    BY <1>13 DEF Leads
  <2>3. ASSUME to \in {"EXECUTING", "VERIFYING", "CLOSED"}
        PROVE  \E i \in DOMAIN timeline'[c] :
                 /\ Approved(c, i)' /\ Planned(c, i - 1)'
                 /\ \A j \in DOMAIN timeline'[c] : Parked(c, j)' => j < i
    <3>1. event \notin ParkEvent
      BY <2>3 DEF Leads, ParkEvent, FailureEvent
    <3>2. ~Parked(c, last)'
      BY <1>13, <3>1
    <3>3. CASE to = "EXECUTING"
      <4>1. Planned(c, end) /\ end \in 1..end
        BY <1>3, <1>14, <3>3 DEF CaseOK, Planned, Happened, Leads
      <4>2. Planned(c, last - 1)'
        BY <1>3, <1>12, <4>1
      <4>3. Approved(c, last)'
        <5>1. Happened(c, last, "gate_approved")'
              /\ Vouched(c, last, {"GateApproved", "ChangeWindow"})'
          BY <1>13, <3>3 DEF Leads
        <5> QED
          BY <5>1 DEF Approved
      <4>4. \A j \in DOMAIN timeline'[c] : Parked(c, j)' => j < last
        BY <1>3, <1>6, <3>2
      <4> QED
        BY <1>3, <1>6, <4>2, <4>3, <4>4
    <3>4. CASE to # "EXECUTING"
      <4>1. status[c] \in {"EXECUTING", "VERIFYING"}
        BY <2>3, <3>4 DEF Leads
      <4>2. PICK i \in 1..end :
              /\ Approved(c, i) /\ Planned(c, i - 1)
              /\ \A j \in DOMAIN timeline[c] : Parked(c, j) => j < i
        BY <1>3, <1>14, <4>1 DEF CaseOK
      <4>3. i - 1 \in 1..end
        BY <1>3, <4>2 DEF Planned, Happened
      <4>4. Approved(c, i)' /\ Planned(c, i - 1)'
        BY <1>10, <1>12, <4>2, <4>3
      <4>5. \A j \in DOMAIN timeline'[c] : Parked(c, j)' => j < i
        BY <1>3, <1>6, <1>10, <3>2, <4>2
      <4> QED
        BY <1>3, <1>6, <4>4, <4>5
    <3> QED
      BY <3>3, <3>4
  <2>4. to = "CLOSED" => Happened(c, last, "verify_pass")'
    BY <1>13 DEF Leads
  <2>5. ASSUME NEW i \in DOMAIN timeline'[c], Happened(c, i, "verify_pass")'
        PROVE  to = "CLOSED" /\ i = last /\ Vouched(c, i, {"VerifyPassed"})'
    <3>1. i = last
      BY <1>3, <1>6, <1>10, <1>14, <2>5 DEF CaseOK, Leads
    <3> QED
      BY <1>13, <2>5, <3>1 DEF Leads
  <2> QED
    BY <1>6, <2>1, <2>2, <2>3, <2>4, <2>5 DEF CaseOK
<1>16. \A d \in CaseId : CaseOK(d)'
  BY <1>5, <1>15, CasesOK, KeptOK DEF Inv
<1>17. (Waits /\ ExecutionIsApproved /\ ClosedIsFinal)'
  BY <1>16 DEF Waits, ExecutionIsApproved, ClosedIsFinal, CaseOK
<1> QED
  BY <1>4, <1>9, <1>17 DEF Inv

LEMMA NextKeepsInv == Inv /\ [Next]_vars => Inv'
<1> SUFFICES ASSUME Inv, [Next]_vars PROVE Inv'
  OBVIOUS
<1>1. ASSUME NEW r \in Request, Submit(r) PROVE Inv'
  <2>1. PICK args \in Accepts[r] : call' = [call EXCEPT ![r] = args]
    BY <1>1 DEF Submit
  <2>2. UNCHANGED <<status, timeline>> /\ call[r] = NoCall
    BY <1>1 DEF Submit
  <2>3. Typing'
    BY <2>1, <2>2, LedgerAssumption DEF Inv, Typing
  <2>4. \A q \in Request : call[q] # NoCall => call'[q] = call[q]
    BY <2>1, <2>2 DEF Inv, Typing
  <2> QED
    BY <2>2, <2>3, <2>4, ReadsKeepInv
<1>2. ASSUME NEW r \in Request, Create(r) PROVE Inv'
  <2>1. PICK c \in CaseId :
          /\ status[c] = Absent
          /\ Write(r, [case |-> c, status |-> "NEW", version |-> 1], "case_created")
    BY <1>2 DEF Create
  <2>2. "NEW" \in State /\ "case_created" \in TimelineEvent
    BY DEF State, TimelineEvent
  <2>3. call[r] # NoCall
    BY <1>2 DEF Create, Pending
  <2>4. Leads(status[c], "case_created", call[r].ctx, "NEW")
    BY <2>1 DEF Leads, Absent
  <2> QED
    BY <2>1, <2>2, <2>3, <2>4, WriteKeepsInv
<1>3. ASSUME NEW r \in Request, Move(r) PROVE Inv'
  <2> DEFINE c == call[r].case
  <2>1. PICK edge \in Decide(status[c], call[r].event, call[r].ctx) :
          Write(r, [case |-> c, status |-> edge.to, version |-> version[c] + 1], call[r].event)
    BY <1>3 DEF Move
  <2>2. call[r] # NoCall /\ c \in CaseId
    BY <1>3 DEF Move, Pending, Inv, Typing, Args
  <2>3. /\ edge.to \in State /\ call[r].event \in TimelineEvent
        /\ Leads(status[c], call[r].event, call[r].ctx, edge.to)
    BY IntentLeads DEF TimelineEvent
  <2> QED
    BY <2>1, <2>2, <2>3, WriteKeepsInv
<1>4. ASSUME NEW r \in Request, Replay(r) \/ Refuse(r) \/ Fail(r) PROVE Inv'
  <2>1. UNCHANGED <<call, status, timeline>>
    BY <1>4 DEF Replay, Refuse, Fail, Return, store
  <2> QED
    BY <2>1, ReadsKeepInv DEF Inv, Typing
<1>5. CASE Lose
  BY <1>5, ReadsKeepInv DEF Lose, store, Inv, Typing
<1>6. CASE UNCHANGED vars
  BY <1>6, ReadsKeepInv DEF vars, Inv, Typing
<1> QED
  BY <1>1, <1>2, <1>3, <1>4, <1>5, <1>6 DEF Next

LEMMA InvHolds == Spec => []Inv
  BY InitInv, NextKeepsInv, PTL DEF Spec

-----------------------------------------------------------------------------
(* The theorems. *)

(* Whatever calls arrive, in whatever order: a case that executes was approved inside
   a change window and was not parked since; the row before the approval is a
   plan_ready by a caller that vouched for the plan, or one right after a park. *)
THEOREM LedgerApprovesExecution == Spec => []ExecutionIsApproved
<1>1. Inv => ExecutionIsApproved
  BY DEF Inv
<1> QED
  BY InvHolds, <1>1, PTL

(* Whatever calls arrive: a case is closed by a verify_pass of a caller that vouched
   for the verification, and no call reopens it. *)
THEOREM LedgerClosesForGood == Spec => []ClosedIsFinal
<1>1. Inv => ClosedIsFinal
  BY DEF Inv
<1> QED
  BY InvHolds, <1>1, PTL
=============================================================================
