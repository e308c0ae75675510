----------------------------- MODULE CaseTypes -----------------------------
(***************************************************************************)
(* Vocabulary shared by the case ledger (the abstract service) and the     *)
(* case repository (its implementation on Postgres): the calls clients     *)
(* send, the rows the tables hold and the outcomes the service returns.    *)
(***************************************************************************)
EXTENDS Integers, Sequences, FiniteSets, Workflow

CONSTANTS
  Request,    \* requests clients send; each is handled once, a retry is another one
  NoRequest,  \* not a request
  CaseId,     \* case identifiers (UUIDs)
  UnknownId,  \* a well-formed identifier that no insert ever draws
  Key,        \* values of the Idempotency-Key header
  NoKey       \* the header is absent

ASSUME ConstantsAssumption ==
  /\ NoRequest \notin Request
  /\ UnknownId \in CaseId
  /\ NoKey \notin Key

Absent == "absent"               \* status of an identifier that names no row
Status == State \cup {Absent}

(* What a write returns, and what the idempotency table stores: the case row
   after the write. *)
Row == [case : CaseId, status : Status, version : Nat]
NoRow == [case |-> UnknownId, status |-> Absent, version |-> 0]

(* ports.CreateCaseArgs and ports.TransitionArgs as one record; a create call
   carries no case, event, context or version. *)
Args == [op : {"create", "transition"}, case : CaseId, event : Event,
         ctx : SUBSET Fact, ifMatch : Int, key : Key \cup {NoKey}]

(* One line of case_timeline; the actor tells who asked. *)
TimelineEvent == Event \cup {"case_created"}
TimelineRow == [actor : Request, event : TimelineEvent]

(* What the service returns: the row, or which error. "lost" means that the
   process died before it returned. *)
OutcomeKind == {"none", "ok", "illegal", "guard", "norows", "error", "lost"}
Outcome == [kind : OutcomeKind, row : Row]
NoOutcome == [kind |-> "none", row |-> NoRow]
Ok(row) == [kind |-> "ok", row |-> row]
Err(kind) == [kind |-> kind, row |-> NoRow]

\* Mutation: only a version from the future is refused.
MatchesOlder(args, version) == args.ifMatch <= version

(* IfMatch = 0 disables the version check. *)
Matches(args, version) == args.ifMatch = 0 \/ args.ifMatch = version
=============================================================================
