-------------------------- MODULE OutboxPublisher --------------------------
(***************************************************************************)
(* The outbox publisher (llm-ops-agent/internal/outbox/publisher.go): on   *)
(* every tick, flush lists the first unpublished rows in a transaction,    *)
(* hands each to the NATS client, marks them published, commits and        *)
(* flushes the client.  A deployment runs one publisher or several side by *)
(* side, against the writers of OutboxWriters.                             *)
(*                                                                         *)
(* External: Postgres (FOR UPDATE SKIP LOCKED, failing statements) and the *)
(* NATS client, whose Publish appends to a buffer that the client sends in *)
(* order, later; the buffer is gone when the process dies or when the      *)
(* connection breaks.                                                      *)
(***************************************************************************)
EXTENDS OutboxWriters, Sequences, FiniteSets, SequencesExt

CONSTANTS
  Publisher,    \* publisher processes
  Deployments,  \* what may be deployed: publishers, busy cases, and the bounds on
                \* rows (at most MaxRows) and on failing statements and publish
                \* calls, deaths, broken connections and stops
  BatchLimit    \* LIMIT of the listing, 10 in the code

ASSUME PublisherAssumption ==
  /\ IsFiniteSet(Publisher)
  /\ \A d \in Deployments :
       d.publishers \subseteq Publisher /\ d.cases \subseteq CaseId
         /\ d.maxRows \in 0..MaxRows /\ d.maxTroubles \in Nat
  /\ BatchLimit \in Nat \ {0}

VARIABLES
  deployed,     \* an element of Deployments; never changes
  marked,       \* the rows with published = TRUE
  \* the publishers
  pc, batch, handed, cancelled,
  \* NATS: the buffer of each client, what reached the server, what got lost
  buffer, bus, lost,
  troubles      \* how much went wrong

table == <<writers, deployed, marked>>
nats == <<buffer, bus, lost>>
vars == <<caseOf, drawn, nextId, deployed, marked, pc, batch, handed, cancelled,
          buffer, bus, lost, troubles>>

PC == {"idle", "list", "publish", "mark", "commit", "flush", "down"}
InTx == {"list", "publish", "mark", "commit"}

Init ==
  /\ InitWriters
  /\ deployed \in Deployments
  /\ marked = {}
  /\ pc = [p \in Publisher |-> "idle"]
  /\ batch = [p \in Publisher |-> <<>>]
  /\ handed = [p \in Publisher |-> 0]
  /\ cancelled = {}
  /\ buffer = [p \in Publisher |-> <<>>]
  /\ bus = <<>>
  /\ lost = {}
  /\ troubles = 0

Goto(p, label) == pc' = [pc EXCEPT ![p] = label]

-----------------------------------------------------------------------------
(* Writers of the cases that are busy in this deployment. *)

Writers ==
  /\ \/ \E c \in deployed.cases : Write(c)
     \/ WritersDie
  /\ nextId' <= deployed.maxRows + 1
  /\ UNCHANGED <<deployed, marked, pc, batch, handed, cancelled, nats, troubles>>

-----------------------------------------------------------------------------
(* flush *)

(* Rows that the transactions of the other publishers have locked. *)
Locked == UNION {ToSet(batch[p]) : p \in Publisher}

(* The ids, smallest first. *)
Ascending(ids) ==
  [n \in 1..Cardinality(ids) |-> CHOOSE i \in ids : Cardinality({k \in ids : k <= i}) = n]

\* Mutation: SELECT without FOR UPDATE SKIP LOCKED.
UnpublishedUnlocked ==
  LET ids == Ascending(Rows \ marked)
  IN  SubSeq(ids, 1, IF Len(ids) < BatchLimit THEN Len(ids) ELSE BatchLimit)

\* Mutation: the listing has no ORDER BY.
UnpublishedUnordered ==
  LET ids == Reverse(Ascending((Rows \ marked) \ Locked))
  IN  SubSeq(ids, 1, IF Len(ids) < BatchLimit THEN Len(ids) ELSE BatchLimit)

(* SELECT ... WHERE published = FALSE ORDER BY id LIMIT n FOR UPDATE SKIP LOCKED *)
Unpublished == LET ids == Ascending((Rows \ marked) \ Locked)
               IN  SubSeq(ids, 1, IF Len(ids) < BatchLimit THEN Len(ids) ELSE BatchLimit)

(* The transaction of p ends and flush returns or goes on to nc.Flush. *)
EndTx(p, label) ==
  /\ batch' = [batch EXCEPT ![p] = <<>>]
  /\ handed' = [handed EXCEPT ![p] = 0]
  /\ Goto(p, label)

(* The ticker fires, unless ctx.Done() is ready too and select takes it. *)
BeginTx(p) ==
  /\ pc[p] = "idle" /\ p \notin cancelled
  /\ Goto(p, "list")
  /\ UNCHANGED <<table, batch, handed, cancelled, nats, troubles>>

ListUnpublishedOutbox(p) ==
  /\ pc[p] = "list" /\ p \notin cancelled
  /\ IF Unpublished = <<>>
     THEN EndTx(p, "idle")
     ELSE /\ batch' = [batch EXCEPT ![p] = Unpublished]
          /\ Goto(p, "publish")
          /\ UNCHANGED handed
  /\ UNCHANGED <<table, cancelled, nats, troubles>>

(* nc.Publish of the next row: it goes into the client's buffer. *)
Publish(p) ==
  /\ pc[p] = "publish"
  /\ handed[p] < Len(batch[p])
  /\ handed' = [handed EXCEPT ![p] = @ + 1]
  /\ buffer' = [buffer EXCEPT ![p] = Append(@, batch[p][handed[p] + 1])]
  /\ Goto(p, IF handed[p] + 1 = Len(batch[p]) THEN "mark" ELSE "publish")
  /\ UNCHANGED <<table, batch, cancelled, bus, lost, troubles>>

MarkOutboxPublished(p) ==
  /\ pc[p] = "mark" /\ p \notin cancelled
  /\ Goto(p, "commit")
  /\ UNCHANGED <<table, batch, handed, cancelled, nats, troubles>>

Commit(p) ==
  /\ pc[p] = "commit" /\ p \notin cancelled
  /\ marked' = marked \cup ToSet(batch[p])
  /\ EndTx(p, "flush")
  /\ UNCHANGED <<writers, deployed, cancelled, nats, troubles>>

(* nc.Flush waits until the server has everything, or times out; its error is
   dropped. *)
Flush(p) ==
  /\ pc[p] = "flush" /\ buffer[p] = <<>>
  /\ Goto(p, "idle")
  /\ UNCHANGED <<table, batch, handed, cancelled, nats, troubles>>

FlushTimeout(p) ==
  /\ pc[p] = "flush" /\ buffer[p] # <<>>
  /\ Goto(p, "idle")
  /\ UNCHANGED <<table, batch, handed, cancelled, nats, troubles>>

Trouble == troubles < deployed.maxTroubles /\ troubles' = troubles + 1

(* A statement fails: flush rolls back and returns. (When BeginTx fails, flush
   returns at once and nothing has changed.) *)
StatementError(p) ==
  /\ pc[p] \in {"list", "mark"}
  /\ Trouble
  /\ EndTx(p, "idle")
  /\ UNCHANGED <<table, cancelled, nats>>

\* Mutation: the failed row is skipped, as if it had been handed over.
PublishErrorSkips(p) ==
  /\ pc[p] = "publish"
  /\ Trouble
  /\ Goto(p, "mark")
  /\ UNCHANGED <<table, batch, handed, cancelled, nats>>

\* Mutation: the return forgets tx.Rollback.
PublishErrorKeepsTx(p) ==
  /\ pc[p] = "publish"
  /\ Trouble
  /\ Goto(p, "idle")
  /\ UNCHANGED <<table, batch, handed, cancelled, nats>>

(* nc.Publish refuses a row: the rows before it stay in the buffer. *)
PublishError(p) ==
  /\ pc[p] = "publish"
  /\ Trouble
  /\ EndTx(p, "idle")
  /\ UNCHANGED <<table, cancelled, nats>>

(* A failed commit is logged and flush goes on; it may have taken effect. *)
CommitError(p) ==
  /\ pc[p] = "commit"
  /\ Trouble
  /\ marked' \in {marked, marked \cup ToSet(batch[p])}
  /\ EndTx(p, "flush")
  /\ UNCHANGED <<writers, deployed, cancelled, nats>>

(* With a cancelled context every statement fails. *)
ContextDone(p) ==
  /\ p \in cancelled
  /\ \/ pc[p] \in {"list", "mark"} /\ EndTx(p, "idle")
     \/ pc[p] = "commit" /\ EndTx(p, "flush")
  /\ UNCHANGED <<table, cancelled, nats, troubles>>

-----------------------------------------------------------------------------
(* The process and its NATS client. *)

(* The client's own goroutine sends the buffer, in order. *)
Send(p) ==
  /\ buffer[p] # <<>>
  /\ bus' = Append(bus, Head(buffer[p]))
  /\ buffer' = [buffer EXCEPT ![p] = Tail(@)]
  /\ UNCHANGED <<table, pc, batch, handed, cancelled, lost, troubles>>

LoseBuffer(p) ==
  /\ Trouble
  /\ lost' = lost \cup ToSet(buffer[p])
  /\ buffer' = [buffer EXCEPT ![p] = <<>>]
  /\ UNCHANGED <<table, bus>>

Disconnect(p) ==
  /\ buffer[p] # <<>>
  /\ LoseBuffer(p)
  /\ UNCHANGED <<pc, batch, handed, cancelled>>

Crash(p) ==
  /\ pc[p] # "down"
  /\ LoseBuffer(p)
  /\ EndTx(p, "down")
  /\ UNCHANGED cancelled

(* The service is told to stop: statements fail and Run returns at its select. *)
Cancel(p) ==
  /\ Trouble
  /\ pc[p] # "down" /\ p \notin cancelled
  /\ cancelled' = cancelled \cup {p}
  /\ UNCHANGED <<table, pc, batch, handed, nats>>

RunReturns(p) ==
  /\ pc[p] = "idle" /\ p \in cancelled
  /\ lost' = lost \cup ToSet(buffer[p])
  /\ buffer' = [buffer EXCEPT ![p] = <<>>]
  /\ Goto(p, "down")
  /\ UNCHANGED <<table, batch, handed, cancelled, bus, troubles>>

Restart(p) ==
  /\ pc[p] = "down"
  /\ Goto(p, "idle")
  /\ cancelled' = cancelled \ {p}
  /\ UNCHANGED <<table, batch, handed, nats, troubles>>

Run(p) ==
  \/ BeginTx(p) \/ ListUnpublishedOutbox(p) \/ Publish(p)
  \/ MarkOutboxPublished(p) \/ Commit(p) \/ Flush(p) \/ ContextDone(p)
  \/ RunReturns(p)

Fault(p) ==
  \/ FlushTimeout(p) \/ StatementError(p) \/ PublishError(p) \/ CommitError(p)
  \/ Disconnect(p) \/ Crash(p) \/ Cancel(p)

Next ==
  \/ Writers
  \/ \E p \in deployed.publishers : Run(p) \/ Send(p) \/ Fault(p) \/ Restart(p)

Spec == Init /\ [][Next]_vars

(* The ticker, the client's goroutine and the supervisor of the process go on;
   nothing makes a statement fail, so a failure cannot end a wait. *)
FairSpec ==
  /\ Spec
  /\ \A p \in Publisher :
       /\ WF_vars(p \in deployed.publishers /\ Run(p))
       /\ WF_vars(p \in deployed.publishers /\ Send(p))
       /\ WF_vars(p \in deployed.publishers /\ Restart(p))

-----------------------------------------------------------------------------
(* Properties. *)

Delivered == ToSet(bus)
InBuffers == UNION {ToSet(buffer[p]) : p \in Publisher}
Times(seq, i) == Cardinality({n \in DOMAIN seq : seq[n] = i})

TypeOK ==
  /\ Rows \subseteq RowId /\ \A i \in Rows : caseOf[i] \in CaseId
  /\ drawn \in [CaseId -> RowId \cup {NoId}]
  /\ nextId \in 1..(MaxRows + 1)
  /\ pc \in [Publisher -> PC]
  /\ \A p \in Publisher :
       /\ pc[p] \notin InTx => batch[p] = <<>>
       /\ handed[p] \in 0..Len(batch[p])
       /\ pc[p] \in {"mark", "commit"} => handed[p] = Len(batch[p])
  /\ cancelled \subseteq Publisher
  /\ troubles \in 0..deployed.maxTroubles

(* Only what a writer committed is ever published, and published = TRUE is only
   set on a row that was handed to a client: it is on the bus, in a buffer or was
   lost with one. *)
MarkedWasHanded ==
  /\ marked \subseteq Delivered \cup InBuffers \cup lost
  /\ Delivered \cup InBuffers \cup lost \subseteq Rows

(* A consumer sees a row twice only when something went wrong in between: with
   several publishers side by side, every trouble explains at most
   one repetition. *)
RepetitionsExplained ==
  \A i \in RowId :
    Times(bus, i) + Cardinality({p \in Publisher : i \in ToSet(buffer[p])})
      <= 1 + troubles

(* Two publishers may send the rows of a case out of order, but as long as
   nothing fails a row is only overtaken while another publisher has it in hand,
   locked in its transaction or in its buffer: no row that waits in the table is
   passed by (SKIP LOCKED, ops_case.sql.go:190). *)
InHand == UNION {ToSet(batch[p]) \cup ToSet(buffer[p]) : p \in Publisher}

OvertakenIsInHand ==
  troubles = 0 =>
    \A j \in Delivered : \A i \in Rows :
      i < j /\ caseOf[i] = caseOf[j] => i \in Delivered \cup InHand

(* The table and its publishers are one channel (OutboxChannel): no more
   repetitions of a row than troubles, losses only after a trouble, and, with a
   single publisher, the rows of a case in their order but for those it lost:
   commits that overtake each other, the batch limit, a failed batch and a restart
   never let a later row go first. *)
Channel == INSTANCE OutboxChannel WITH
             alone <- Cardinality(deployed.publishers) = 1

ImplementsChannel == Channel!ChannelSpec

(* Every committed row reaches the bus, unless its buffer was lost: also when the
   batch that held it failed, its publisher died or there were more rows than one
   batch takes. *)
EveryRowSent ==
  \A i \in RowId : i \in Rows ~> i \in Delivered \cup lost

(* The Guide (section 1) promises delivery at least once: a row is marked only
   when nothing can keep it from the bus any more.  flush commits before it
   flushes the client (publisher.go:70), so a crash in between loses the row. *)
MarkedReachesBus ==
  marked \subseteq Delivered \cup InBuffers
=============================================================================
