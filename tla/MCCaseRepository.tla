-------------------------- MODULE MCCaseRepository --------------------------
(***************************************************************************)
(* Small instances of CaseRepository.  A scenario says which requests each *)
(* client may send; the id of the created case is c1 or c2.                *)
(***************************************************************************)
EXTENDS CaseRepository, TLC

CONSTANTS r1, r2, r3, r4, c1, c2, k1, k2

NoHeader == [form |-> "absent", n |-> 0]
Number(n) == [form |-> "number", n |-> n]
WeakTag(n) == [form |-> "text", n |-> n]

Post(key) ==
  [op |-> "create", case |-> UnknownId, event |-> "force_park",
   ifMatch |-> NoHeader, key |-> key]
Patch(c, event, header, key) ==
  [op |-> "transition", case |-> c, event |-> event, ifMatch |-> header, key |-> key]

(* A case is created and moved by three more clients: repeated keys (of a create
   and of a transition), versions that are current, stale, early or unreadable,
   an unknown id, illegal events and, after a park, an unsatisfied guard. *)
Mixed ==
  r1 :> {Post(k1)} @@
  r2 :> {Post(k1), Patch(c1, "start_analysis", NoHeader, k2),
         Patch(c1, "force_park", WeakTag(1), NoKey),
         Patch(UnknownId, "force_park", NoHeader, k2)} @@
  r3 :> {Patch(c1, "start_analysis", Number(1), k2),
         Patch(c1, "plan_ready", Number(2), NoKey)} @@
  r4 :> {Patch(c1, "force_park", Number(1), NoKey),
         Patch(c1, "gate_approved", NoHeader, NoKey),
         Patch(c1, "analysis_done", WeakTag(2), k1)}

(* One case, two clients that move it, one pool connection less than clients. *)
Contention ==
  r1 :> {Post(k1)} @@
  r2 :> {Post(k1), Patch(c1, "start_analysis", NoHeader, k2)} @@
  r3 :> {Patch(c1, "start_analysis", Number(1), k2), Patch(c1, "force_park", NoHeader, k1)}

(* A create and its repetition. *)
Repeat == r1 :> {Post(k1)} @@ r2 :> {Post(k1)}

(* A transition that names a version the case does not have: orchestrator-test.md
   sends If-Match: 0, the Guide recommends the weak tag. *)
StaleTags ==
  r1 :> {Post(NoKey)} @@
  r2 :> {Patch(c1, "start_analysis", NoHeader, NoKey)} @@
  r3 :> {Patch(c1, "force_park", Number(0), NoKey), Patch(c1, "force_park", WeakTag(1), NoKey)}

(* The shortest way to WAIT_GATE over HTTP, then the approval. *)
Approval ==
  r1 :> {Post(NoKey)} @@
  r2 :> {Patch(c1, "force_park", NoHeader, NoKey)} @@
  r3 :> {Patch(c1, "plan_ready", NoHeader, NoKey)} @@
  r4 :> {Patch(c1, "gate_approved", NoHeader, NoKey)}
=============================================================================
