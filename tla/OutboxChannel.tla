--------------------------- MODULE OutboxChannel ---------------------------
(***************************************************************************)
(* What the outbox and its publishers promise a consumer, whatever         *)
(* batches, transactions, buffers and restarts do: committed rows come out *)
(* on the bus, a row comes again only after something went wrong, nothing  *)
(* is lost unless something went wrong, and a publisher that runs alone    *)
(* keeps the order of the rows of a case.                                  *)
(***************************************************************************)
EXTENDS Integers, Sequences, FiniteSets

CONSTANTS CaseId, MaxRows    \* MaxRows bounds the ids

VARIABLES
  caseOf,     \* the committed rows: id -> case
  bus,        \* the ids in the order consumers see them
  lost,       \* the rows that may never come out, or not again
  troubles,   \* how much went wrong
  alone       \* one publisher runs; never changes

channel == <<caseOf, bus, lost, troubles, alone>>

RowId == 1..MaxRows

Rows == DOMAIN caseOf
Delivered == {bus[n] : n \in DOMAIN bus}
Times(i) == Cardinality({n \in DOMAIN bus : bus[n] = i})
Before(i) == {k \in Rows : k < i /\ caseOf[k] = caseOf[i]}

InitChannel ==
  /\ caseOf = <<>>
  /\ bus = <<>>
  /\ lost = {}
  /\ troubles = 0
  /\ alone \in BOOLEAN

(* A row appears behind the rows of its case. *)
AddRow(c, i) ==
  /\ i \notin Rows
  /\ \A k \in Rows : caseOf[k] = c => k < i
  /\ caseOf' = [k \in Rows \cup {i} |-> IF k \in Rows THEN caseOf[k] ELSE c]
  /\ UNCHANGED <<bus, lost, troubles, alone>>

Deliver(i) ==
  /\ i \in Rows
  /\ Times(i) <= troubles
  /\ alone => Before(i) \subseteq Delivered \cup lost
  /\ bus' = Append(bus, i)
  /\ UNCHANGED <<caseOf, lost, troubles, alone>>

(* Something goes wrong, or what went wrong has its effect. *)
Trouble ==
  /\ troubles' \in {troubles, troubles + 1} /\ troubles' > 0
  /\ \E S \in SUBSET Rows : lost' = lost \cup S
  /\ UNCHANGED <<caseOf, bus, alone>>

NextChannel ==
  \/ \E c \in CaseId, i \in RowId : AddRow(c, i)
  \/ \E i \in RowId : Deliver(i)
  \/ Trouble

ChannelSpec == InitChannel /\ [][NextChannel]_channel

-----------------------------------------------------------------------------
(* Properties. *)

(* A publisher that runs alone delivers no row of a case before an earlier one,
   unless that one was lost. *)
InOrderUnlessLost ==
  alone => \A n \in DOMAIN bus :
             Before(bus[n]) \subseteq lost \cup {bus[m] : m \in 1..(n - 1)}

(* Every repetition of a row is explained by a trouble of its own. *)
RepetitionsExplained == \A i \in Rows : Times(i) <= 1 + troubles
=============================================================================
