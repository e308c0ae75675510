---------------------------- MODULE MCCaseLedger ----------------------------
(***************************************************************************)
(* One case and callers of orchestrator.Service that may set the facts of  *)
(* the Context: histories long enough to close a case, also after a park.  *)
(* CaseRepository's runs cover concurrent calls; here the calls come one   *)
(* after the other, and a history ends at the first call that fails.       *)
(***************************************************************************)
EXTENDS CaseLedger

CONSTANTS c1, k1

PostArgs ==
  [op |-> "create", case |-> UnknownId, event |-> "force_park", ctx |-> {},
   ifMatch |-> 0, key |-> NoKey]
PatchArgs(event, ctx, key) ==
  [op |-> "transition", case |-> c1, event |-> event, ctx |-> ctx,
   ifMatch |-> 0, key |-> key]

(* Any event, with no fact or with those its guard asks for; the approval also
   outside the change window; a park that is repeated with its key. *)
Callers ==
  {PostArgs, PatchArgs("gate_approved", {"GateApproved"}, NoKey),
   PatchArgs("force_park", {}, k1)}
  \cup {PatchArgs(e, {}, NoKey) : e \in Event}
  \cup {PatchArgs(edge.event, guards(edge), NoKey) : edge \in table}

Anything == [r \in Request |-> Callers]

OneByOne ==
  \A r \in Request :
    call[r] # NoCall =>
      /\ outcome[r].kind \in {"none", "ok"}
      /\ \A q \in Request : q < r => outcome[q].kind = "ok"
=============================================================================
