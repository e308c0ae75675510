--------------------------- MODULE OutboxWriters ---------------------------
(***************************************************************************)
(* What the publisher relies on from the transactions that fill the outbox *)
(* (CreateCase and Transition of internal/ports/postgres/case_repo.go):    *)
(* the id of a row is drawn by its insert, the row appears at the commit,  *)
(* and the row lock of a case lets one transaction at a time write for it. *)
(* OutboxPublisher runs against these writers; CaseRepository is shown to  *)
(* implement them.                                                         *)
(***************************************************************************)
EXTENDS Integers

CONSTANTS
  CaseId,
  MaxRows       \* bound on the ids that writers draw

ASSUME WritersAssumption == MaxRows \in Nat

VARIABLES
  caseOf,       \* the committed rows: id -> case
  drawn,        \* the id drawn by the open transaction of each case
  nextId        \* the sequence; an id is never given back

writers == <<caseOf, drawn, nextId>>

RowId == 1..MaxRows
NoId == 0

Rows == DOMAIN caseOf

InitWriters ==
  /\ caseOf = <<>>
  /\ drawn = [c \in CaseId |-> NoId]
  /\ nextId = 1

InsertOutbox(c) ==
  /\ drawn[c] = NoId /\ nextId \in RowId
  /\ drawn' = [drawn EXCEPT ![c] = nextId]
  /\ nextId' = nextId + 1
  /\ UNCHANGED caseOf

WriterEnds(c) ==
  /\ drawn[c] # NoId
  /\ drawn' = [drawn EXCEPT ![c] = NoId]
  /\ UNCHANGED nextId

WriterCommits(c) ==
  /\ WriterEnds(c)
  /\ caseOf' = [i \in Rows \cup {drawn[c]} |-> IF i \in Rows THEN caseOf[i] ELSE c]

WriterRollsBack(c) == WriterEnds(c) /\ UNCHANGED caseOf

(* The process of the writers dies: Postgres rolls all of them back. *)
WritersDie ==
  /\ \E c \in CaseId : drawn[c] # NoId
  /\ drawn' = [c \in CaseId |-> NoId]
  /\ UNCHANGED <<caseOf, nextId>>

Write(c) == InsertOutbox(c) \/ WriterCommits(c) \/ WriterRollsBack(c)

NextWriters == WritersDie \/ \E c \in CaseId : Write(c)

WritersSpec == InitWriters /\ [][NextWriters]_writers
=============================================================================
