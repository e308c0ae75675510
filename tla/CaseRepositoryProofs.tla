------------------------ MODULE CaseRepositoryProofs ------------------------
(***************************************************************************)
(* CaseRepository keeps its types and its safety invariants, for every set *)
(* of requests, cases, keys and offers, any pool size and any bound on     *)
(* crashes.  The inductive invariant says what a request in flight may     *)
(* rely on (Local) and what the committed rows say about their writers.    *)
(***************************************************************************)
EXTENDS CaseRepository, TLAPS

-----------------------------------------------------------------------------
(* Data: the values the actions build are of the declared types. *)

LEMMA NullValues == NoRow \in Row /\ NoTx \in Tx /\ OpenTx \in Tx /\ NoOutcome \in Outcome
  BY ConstantsAssumption
  DEF NoRow, Row, NoTx, Tx, OpenTx, NoOutcome, Outcome, OutcomeKind, Status, TimelineEvent

LEMMA OkOutcome == \A row \in Row : Ok(row) \in Outcome
  BY DEF Ok, Outcome, OutcomeKind

LEMMA ErrOutcome == \A kind \in OutcomeKind : Err(kind) \in Outcome
  BY NullValues DEF Err, Outcome

(* An intent leaves the state it was asked about and ends in a state. *)
LEMMA IntentType ==
  ASSUME NEW from, NEW event, NEW ctx, NEW edge \in Decide(from, event, ctx)
  PROVE  /\ edge.from = from /\ edge.event = event
         /\ edge.from \in State /\ edge.to \in State /\ edge.event \in Event
<1>1. edge \in table /\ edge.from = from /\ edge.event = event
  BY DEF Decide, EdgesOf
<1>2. \A e \in table : e.from \in State /\ e.to \in State /\ e.event \in Event
  <2> USE DEF Moves, State, Event
  <2>1. SUFFICES ASSUME NEW e \in table
                 PROVE  e.from \in State /\ e.to \in State /\ e.event \in Event
    OBVIOUS
  <2>2. CASE \E f \in FailureEvent : e = Moves(f[1], f[2], "PARKED")
    BY <2>2 DEF FailureEvent
  <2>3. CASE \E t \in State \ {"CLOSED", "PARKED"} : e = Moves(t, "force_park", "PARKED")
    BY <2>3
  <2>4. QED
    BY <2>1, <2>2, <2>3 DEF table
<1>3. QED
  BY <1>1, <1>2

LEMMA StateIsStatus == State \subseteq Status /\ Absent \in Status /\ Absent \notin State
  BY DEF Status, State, Absent

-----------------------------------------------------------------------------
(* Type correctness. *)

LEMMA TypeInit == Init => TypeOK
<1> SUFFICES ASSUME Init PROVE TypeOK
  OBVIOUS
<1>1. http \in [Request -> HttpRequest]
  BY RepositoryAssumption DEF Init
<1>2. timeline \in [CaseId -> Seq(TimelineRow)]
  BY DEF Init
<1>3. QED
  BY <1>1, <1>2, ConstantsAssumption, RepositoryAssumption, NullValues, StateIsStatus
  DEF Init, TypeOK, PC, Answer, Unanswered

(* A successful statement keeps the types when its new transaction, its label
   and the locks and identifiers it sets are typed. *)
LEMMA StepType ==
  ASSUME TypeOK, NEW r \in Request, NEW t \in Tx, NEW label \in PC \ {"idle"},
         pc[r] # "idle", Step(r, t, label), nextId' \in Nat \ {0},
         rowLock' \in [CaseId -> Request \cup {NoRequest}],
         keyLock' \in [Key -> Request \cup {NoRequest}]
  PROVE  TypeOK'
  BY DEF TypeOK, Step, Goto, committed

LEMMA UnlockType ==
  ASSUME NEW S, NEW lock \in [S -> Request \cup {NoRequest}], NEW r \in Request
  PROVE  Unlock(lock, r) \in [S -> Request \cup {NoRequest}]
  BY DEF Unlock

LEMMA ReturnType ==
  ASSUME TypeOK, NEW r \in Request, pc[r] # "idle",
         NEW result \in Outcome, Return(r, result)
  PROVE  /\ pc' \in [Request -> PC] /\ http' \in [Request -> HttpRequest]
         /\ call' = [q \in Request |-> IF pc'[q] = "idle" THEN NoCall
                                                        ELSE HttpArgs(http'[q])]
         /\ outcome' \in [Request -> Outcome]
         /\ answer' \in [Request -> Answer] /\ crashes' \in 0..MaxCrashes
  BY DEF TypeOK, Return, Goto, PC

LEMMA EndTxType ==
  ASSUME TypeOK, NEW r \in Request, EndTx(r)
  PROVE  /\ tx' \in [Request -> Tx]
         /\ rowLock' \in [CaseId -> Request \cup {NoRequest}]
         /\ keyLock' \in [Key -> Request \cup {NoRequest}]
  BY UnlockType, NullValues DEF TypeOK, EndTx

LEMMA RollbackType ==
  ASSUME TypeOK, NEW r \in Request, pc[r] # "idle",
         NEW result \in Outcome, RollbackAndReturn(r, result)
  PROVE  TypeOK'
<1>1. UNCHANGED <<status, version, timeline, outbox, registry, nextId>>
  BY DEF RollbackAndReturn, committed
<1>2. QED
  BY <1>1, ReturnType, EndTxType DEF RollbackAndReturn, TypeOK

LEMMA TypeNext == TypeOK /\ [Next]_vars => TypeOK'
<1> SUFFICES ASSUME TypeOK, [Next]_vars PROVE TypeOK'
  OBVIOUS
<1> USE ErrOutcome, NullValues DEF OutcomeKind
<1>1. ASSUME NEW r \in Request, Receive(r) PROVE TypeOK'
  BY <1>1 DEF Receive, Goto, committed, locks, TypeOK, PC
<1>2. ASSUME NEW r \in Request, LookupHit(r) PROVE TypeOK'
  <2>1. pc[r] # "idle" /\ Return(r, Ok(registry[call[r].key])) /\ call[r].key \in Key
    BY <1>2 DEF LookupHit, Registered
  <2>2. Ok(registry[call[r].key]) \in Outcome
    BY <2>1, OkOutcome DEF TypeOK
  <2>3. QED
    BY <1>2, <2>1, <2>2, ReturnType DEF LookupHit, committed, locks, TypeOK
<1>3. ASSUME NEW r \in Request, LookupMiss(r) \/ LookupError(r) PROVE TypeOK'
  BY ZenonT(60), <1>3 DEF LookupMiss, LookupError, Goto, committed, locks, TypeOK, PC
<1>4. ASSUME NEW r \in Request, BeginTx(r) PROVE TypeOK'
  BY <1>4, StepType DEF BeginTx, locks, TypeOK, PC
<1>5. ASSUME NEW r \in Request, CreateCase(r) PROVE TypeOK'
  <2>1. PICK c \in CaseId \ {UnknownId} :
          /\ rowLock' = [rowLock EXCEPT ![c] = r]
          /\ Step(r, [tx[r] EXCEPT !.case = c, !.to = "NEW", !.version = 1], "timeline")
    BY <1>5 DEF CreateCase
  <2>2. [tx[r] EXCEPT !.case = c, !.to = "NEW", !.version = 1] \in Tx
    BY StateIsStatus DEF TypeOK, Tx, State
  <2>3. QED
    BY <1>5, <2>1, <2>2, StepType DEF CreateCase, TypeOK, PC
<1>6. ASSUME NEW r \in Request, CaseNotFound(r) \/ VersionMismatch(r) PROVE TypeOK'
  BY <1>6, RollbackType DEF CaseNotFound, VersionMismatch, RowAvailable
<1>7. ASSUME NEW r \in Request, DecideRefuses(r) PROVE TypeOK'
  BY <1>7, RollbackType DEF DecideRefuses, RowAvailable
<1>8. ASSUME NEW r \in Request, GetCaseForUpdate(r) PROVE TypeOK'
  <2> DEFINE c == call[r].case
  <2>1. PICK edge \in Decide(status[c], call[r].event, call[r].ctx) :
          Step(r, [tx[r] EXCEPT !.case = c, !.from = edge.from, !.to = edge.to,
                                !.version = version[c], !.event = edge.event],
               "update")
    BY <1>8 DEF GetCaseForUpdate
  <2>2. c \in CaseId /\ pc[r] = "select"
    <3>1. pc[r] = "select"
      BY <1>8 DEF GetCaseForUpdate, RowAvailable
    <3>2. call[r] = HttpArgs(http[r]) /\ http[r].case \in CaseId
      BY <3>1 DEF TypeOK, HttpRequest
    <3>3. QED
      BY <3>1, <3>2 DEF HttpArgs
  <2>3. [tx[r] EXCEPT !.case = c, !.from = edge.from, !.to = edge.to,
                      !.version = version[c], !.event = edge.event] \in Tx
    <3>1. tx[r] \in Tx /\ version[c] \in Nat
      BY <2>2 DEF TypeOK
    <3>2. edge.from \in Status /\ edge.to \in Status /\ edge.event \in TimelineEvent
      BY IntentType, StateIsStatus DEF TimelineEvent
    <3>3. QED
      BY <2>2, <3>1, <3>2 DEF Tx
  <2>4. /\ rowLock' \in [CaseId -> Request \cup {NoRequest}]
        /\ keyLock' \in [Key -> Request \cup {NoRequest}]
        /\ nextId' \in Nat \ {0}
    BY <1>8 DEF GetCaseForUpdate, TypeOK
  <2>5. "update" \in PC \ {"idle"}
    BY DEF PC
  <2>6. QED
    BY <2>1, <2>2, <2>3, <2>4, <2>5, StepType
<1>9. ASSUME NEW r \in Request, UpdateCaseStatus(r) PROVE TypeOK'
  <2>1. [tx[r] EXCEPT !.version = @ + 1] \in Tx /\ tx[r].case \in CaseId
    <3>1. tx[r] \in Tx
      BY DEF TypeOK
    <3>2. tx[r].version + 1 \in Nat
      BY <3>1 DEF Tx
    <3>3. QED
      BY <3>1, <3>2 DEF Tx
  <2>2. CASE version[tx[r].case] = tx[r].version
    <3>1. /\ rowLock' \in [CaseId -> Request \cup {NoRequest}]
          /\ keyLock' \in [Key -> Request \cup {NoRequest}]
          /\ nextId' \in Nat \ {0}
      BY <1>9, <2>2 DEF UpdateCaseStatus, TypeOK
    <3>2. "timeline" \in PC \ {"idle"} /\ pc[r] # "idle"
      BY <1>9 DEF PC, UpdateCaseStatus
    <3>3. Step(r, [tx[r] EXCEPT !.version = @ + 1], "timeline")
      BY <1>9, <2>2 DEF UpdateCaseStatus
    <3>4. QED
      BY <2>1, <3>1, <3>2, <3>3, StepType
  <2>3. CASE version[tx[r].case] # tx[r].version
    BY <1>9, <2>3, RollbackType DEF UpdateCaseStatus
  <2>4. QED
    BY <2>2, <2>3
<1>10. ASSUME NEW r \in Request, InsertTimeline(r) PROVE TypeOK'
  <2>1. [tx[r] EXCEPT !.entry = TRUE] \in Tx
    BY DEF TypeOK, Tx
  <2>2. QED
    BY <1>10, <2>1, StepType DEF InsertTimeline, locks, TypeOK, PC
<1>11. ASSUME NEW r \in Request, TimelineErrorIgnored(r) PROVE TypeOK'
  <2>1. [tx[r] EXCEPT !.aborted = TRUE] \in Tx
    BY DEF TypeOK, Tx
  <2>2. QED
    BY <1>11, <2>1, StepType DEF TimelineErrorIgnored, locks, TypeOK, PC
<1>12. ASSUME NEW r \in Request, InsertOutbox(r) PROVE TypeOK'
  <2>1. [tx[r] EXCEPT !.msg = nextId] \in Tx
    BY DEF TypeOK, Tx
  <2>2. CASE tx[r].aborted
    BY <1>12, <2>2, RollbackType DEF InsertOutbox
  <2>3. CASE ~tx[r].aborted
    <3>1. nextId' \in Nat \ {0} /\ UNCHANGED <<rowLock, keyLock>> /\ pc[r] # "idle"
      BY <1>12, <2>3 DEF InsertOutbox, locks, TypeOK
    <3>2. PICK label \in PC \ {"idle"} : Step(r, [tx[r] EXCEPT !.msg = nextId], label)
      <4>1. "idem" \in PC \ {"idle"} /\ "commit" \in PC \ {"idle"}
        BY DEF PC
      <4>2. QED
        BY <1>12, <2>3, <4>1 DEF InsertOutbox
    <3>3. QED
      BY <2>1, <3>1, <3>2, StepType DEF TypeOK
  <2>4. QED
    BY <2>2, <2>3
<1>13. ASSUME NEW r \in Request, InsertIdempotency(r) PROVE TypeOK'
  <2>1. CASE RequestRejected \/ Registered(call[r].key)
    BY <1>13, <2>1, RollbackType DEF InsertIdempotency
  <2>2. CASE ~(RequestRejected \/ Registered(call[r].key))
    <3>1. /\ rowLock' \in [CaseId -> Request \cup {NoRequest}]
          /\ keyLock' \in [Key -> Request \cup {NoRequest}]
          /\ nextId' \in Nat \ {0}
      BY <1>13, <2>2 DEF InsertIdempotency, TypeOK
    <3>2. "commit" \in PC \ {"idle"} /\ pc[r] # "idle" /\ tx[r] \in Tx
      BY <1>13 DEF PC, InsertIdempotency, TypeOK
    <3>3. Step(r, tx[r], "commit")
      BY <1>13, <2>2 DEF InsertIdempotency
    <3>4. QED
      BY <3>1, <3>2, <3>3, StepType
  <2>3. QED
    BY <2>1, <2>2
<1>14. ASSUME NEW r \in Request, Commit(r) PROVE TypeOK'
  <2> DEFINE t == tx[r]
  <2>1. /\ t.case \in CaseId /\ t.from \in Status /\ t.to \in Status
        /\ t.version \in Nat /\ t.event \in TimelineEvent /\ t.msg \in Nat
    BY DEF TypeOK, Tx
  <2>2. CommittedRow(r) \in Row
    BY <2>1 DEF CommittedRow, Row
  <2>3. status' \in [CaseId -> Status] /\ version' \in [CaseId -> Nat]
    BY <1>14, <2>1 DEF Commit, TypeOK
  <2>4. timeline' \in [CaseId -> Seq(TimelineRow)]
    <3>1. [actor |-> r, event |-> t.event] \in TimelineRow
      BY <2>1 DEF TimelineRow
    <3>2. Append(timeline[t.case], [actor |-> r, event |-> t.event]) \in Seq(TimelineRow)
      BY <2>1, <3>1 DEF TypeOK
    <3>3. QED
      BY <1>14, <2>1, <3>2 DEF Commit, TypeOK
  <2>5. outbox' \in SUBSET OutboxRow
    BY <1>14, <2>1 DEF Commit, TypeOK, OutboxRow
  <2>6. registry' \in [Key -> Row]
    BY <1>14, <2>2 DEF Commit, TypeOK
  <2>7. PICK result \in Outcome : Return(r, result)
    BY <1>14, <2>2, OkOutcome DEF Commit
  <2>8. QED
    BY <1>14, <2>3, <2>4, <2>5, <2>6, <2>7, ReturnType, EndTxType DEF Commit, TypeOK
<1>15. ASSUME NEW r \in Request, DatabaseError(r) PROVE TypeOK'
  BY <1>15, RollbackType DEF DatabaseError, InTx
<1>16. ASSUME NEW r \in Request, Respond(r) PROVE TypeOK'
  <2>1. StatusCode(outcome[r]) \in Answer
    BY DEF StatusCode, Answer
  <2>2. QED
    BY <1>16, <2>1 DEF Respond, Goto, committed, locks, TypeOK, PC
<1>17. CASE Crash
  <2>1. UNCHANGED <<status, version, timeline, outbox, registry, nextId, http, call>>
    BY <1>17 DEF Crash, committed
  <2>2. /\ tx' \in [Request -> Tx]
        /\ rowLock' \in [CaseId -> Request \cup {NoRequest}]
        /\ keyLock' \in [Key -> Request \cup {NoRequest}]
    BY <1>17 DEF Crash
  <2>3. pc' \in [Request -> PC] /\ \A r \in Request : pc'[r] = "idle" <=> pc[r] = "idle"
    BY <1>17 DEF Crash, Active, TypeOK, PC
  <2>4. call' = [r \in Request |-> IF pc'[r] = "idle" THEN NoCall ELSE HttpArgs(http'[r])]
    BY <2>1, <2>3 DEF TypeOK
  <2>5. Err("lost") \in Outcome
    OBVIOUS
  <2>6. outcome' \in [Request -> Outcome]
    BY <1>17, <2>5 DEF Crash, TypeOK
  <2>7. answer' \in [Request -> Answer]
    BY <1>17 DEF Crash, TypeOK, Answer, ConnectionLost
  <2>8. crashes' \in 0..MaxCrashes
    BY <1>17, RepositoryAssumption DEF Crash, TypeOK
  <2>9. QED
    BY <2>1, <2>2, <2>3, <2>4, <2>6, <2>7, <2>8 DEF TypeOK
<1>18. CASE UNCHANGED vars
  BY <1>18 DEF vars, TypeOK
<1>19. QED
  BY <1>1, <1>2, <1>3, <1>4, <1>5, <1>6, <1>7, <1>8, <1>9, <1>10, <1>11, <1>12,
     <1>13, <1>14, <1>15, <1>16, <1>17, <1>18
  DEF Next, Handle, Fault, Quiescent

(* Every variable of the repository keeps its domain in every behaviour. *)
THEOREM TypeCorrect == Spec => []TypeOK
  BY TypeInit, TypeNext, PTL DEF Spec

-----------------------------------------------------------------------------
(* The inductive invariant. *)

Writing == {"timeline", "outbox", "idem", "commit"}
Returned == {"respond", "done"}

(* Between its SELECT ... FOR UPDATE and the end of its transaction a request
   holds the row lock, and what it read is still the committed row. *)
RowHeld(r) ==
  /\ pc[r] \in {"update"} \cup Writing => rowLock[tx[r].case] = r /\ tx[r].to # Absent
  /\ pc[r] = "update" => tx[r].version = version[tx[r].case]
  /\ pc[r] \in Writing => tx[r].version = version[tx[r].case] + 1

(* A transaction that is not aborted has written its timeline row when it reaches
   the idempotency insert or the commit. *)
EntryWritten(r) ==
  /\ pc[r] = "outbox" => tx[r].entry \/ tx[r].aborted
  /\ pc[r] \in {"idem", "commit"} => tx[r].entry

(* The version check of a transition still holds when it writes. *)
VersionChecked(r) ==
  /\ pc[r] = "insert_case" => http[r].op = "create"
  /\ http[r].op = "transition" =>
       /\ pc[r] = "update" => Matches(HttpArgs(http[r]), tx[r].version)
       /\ pc[r] \in Writing => Matches(HttpArgs(http[r]), tx[r].version - 1)

(* A request about to commit a keyed effect owns its key, which nobody has
   registered. *)
KeyOwned(r) ==
  /\ pc[r] = "commit" /\ http[r].key \in Key =>
       keyLock[http[r].key] = r /\ registry[http[r].key] = NoRow
  /\ \A k \in Key : keyLock[k] = r => pc[r] = "commit" /\ http[r].key = k

Local(r) == RowHeld(r) /\ EntryWritten(r) /\ VersionChecked(r) /\ KeyOwned(r)

(* The request that wrote a row has returned and registered its key. *)
WriterDone ==
  \A c \in CaseId : \A i \in DOMAIN timeline[c] :
    /\ pc[Writer(c, i)] \in Returned
    /\ http[Writer(c, i)].key \in Key => registry[http[Writer(c, i)].key] # NoRow

IInv ==
  /\ TypeOK
  /\ VersionCountsTimeline
  /\ \A r \in Request : Local(r)
  /\ WriterDone
  /\ KeyedEffectOnce
  /\ NoLostUpdate

-----------------------------------------------------------------------------
(* Every step but a commit and a crash touches one request and no committed row. *)

(* A step of r leaves the transaction, the label and the locks of q alone. *)
LeavesAlone(r, q) ==
  /\ tx'[q] = tx[q] /\ pc'[q] = pc[q] /\ http'[q] = http[q]
  /\ \A c \in CaseId : rowLock[c] = q => rowLock'[c] = q
  /\ \A k \in Key : keyLock'[k] = q <=> keyLock[k] = q

(* What q relies on is kept by a step that leaves q alone and does not change the
   row or the key that q holds. *)
LEMMA LocalKept ==
  ASSUME TypeOK, NEW r \in Request, NEW q \in Request, Local(q), LeavesAlone(r, q),
         rowLock[tx[q].case] = q => version'[tx[q].case] = version[tx[q].case],
         \A k \in Key : keyLock[k] = q => registry'[k] = registry[k]
  PROVE  Local(q)'
<1>0. tx[q].case \in CaseId
  BY DEF TypeOK, Tx
<1>1. RowHeld(q)'
  BY <1>0 DEF Local, RowHeld, LeavesAlone
<1>2. EntryWritten(q)'
  BY DEF Local, EntryWritten, LeavesAlone
<1>3. VersionChecked(q)'
  BY DEF Local, VersionChecked, LeavesAlone
<1>4. KeyOwned(q)'
  BY DEF Local, KeyOwned, LeavesAlone
<1>5. QED
  BY <1>1, <1>2, <1>3, <1>4 DEF Local

LEMMA WriterType ==
  ASSUME TypeOK, NEW c \in CaseId, NEW i \in DOMAIN timeline[c]
  PROVE  Writer(c, i) \in Request
<1>1. timeline[c] \in Seq(TimelineRow)
  BY DEF TypeOK
<1>2. timeline[c][i] \in TimelineRow
  BY <1>1
<1>3. QED
  BY <1>2 DEF Writer, TimelineRow

OnlyMoves(r) ==
  /\ UNCHANGED <<committed, http>>
  /\ \A q \in Request \ {r} : LeavesAlone(r, q)
  /\ pc[r] \in Returned => pc'[r] \in Returned

LEMMA MovesKeeps ==
  ASSUME IInv, TypeOK', NEW r \in Request, OnlyMoves(r), Local(r)'
  PROVE  IInv'
<1>1. UNCHANGED <<status, version, timeline, outbox, registry, http>>
  BY DEF OnlyMoves, committed
<1>2. \A q \in Request : Local(q)'
  BY <1>1, LocalKept DEF IInv, OnlyMoves
<1>3. WriterDone'
  <2>1. \A c \in CaseId : \A i \in DOMAIN timeline[c] : Writer(c, i) \in Request
    BY WriterType DEF IInv
  <2>2. \A q \in Request : pc[q] \in Returned => pc'[q] \in Returned
    BY DEF OnlyMoves, LeavesAlone
  <2>3. QED
    BY <1>1, <2>1, <2>2 DEF IInv, WriterDone, Writer
<1>4. VersionCountsTimeline' /\ KeyedEffectOnce' /\ NoLostUpdate'
  BY <1>1 DEF IInv, VersionCountsTimeline, KeyedEffectOnce, NoLostUpdate, Writer
<1>5. QED
  BY <1>2, <1>3, <1>4 DEF IInv

LEMMA StepMoves ==
  ASSUME TypeOK, NEW r \in Request, pc[r] \notin Returned, NEW t, NEW label,
         Step(r, t, label),
         \A q \in Request \ {r} : /\ \A c \in CaseId : rowLock[c] = q => rowLock'[c] = q
                                 /\ \A k \in Key : keyLock'[k] = q <=> keyLock[k] = q
  PROVE  /\ OnlyMoves(r) /\ tx'[r] = t /\ pc'[r] = label
         /\ UNCHANGED <<version, registry, http>>
  BY DEF TypeOK, Step, Goto, OnlyMoves, LeavesAlone, committed

(* A request that has returned holds nothing, so nothing is asked of it. *)
LEMMA ReturnedLocal ==
  ASSUME NEW r \in Request, pc'[r] \in Returned \cup {"idle", "lookup", "begin"},
         \A k \in Key : keyLock'[k] # r
  PROVE  Local(r)'
  BY DEF Local, RowHeld, EntryWritten, VersionChecked, KeyOwned, Returned, Writing

LEMMA RollbackKeeps ==
  ASSUME IInv, TypeOK', NEW r \in Request, NEW result, RollbackAndReturn(r, result)
  PROVE  IInv'
<1>1. pc' = [pc EXCEPT ![r] = "respond"] /\ tx' = [tx EXCEPT ![r] = NoTx] /\ http' = http
  BY DEF RollbackAndReturn, Return, Goto, EndTx
<1>2. /\ \A c \in CaseId : rowLock'[c] = IF rowLock[c] = r THEN NoRequest ELSE rowLock[c]
      /\ \A k \in Key : keyLock'[k] = IF keyLock[k] = r THEN NoRequest ELSE keyLock[k]
  BY DEF RollbackAndReturn, EndTx, Unlock, IInv, TypeOK
<1>3. OnlyMoves(r)
  <2>1. \A q \in Request \ {r} : LeavesAlone(r, q)
    BY <1>1, <1>2, ConstantsAssumption DEF LeavesAlone, IInv, TypeOK
  <2>2. pc'[r] \in Returned
    BY <1>1 DEF IInv, TypeOK, Returned
  <2>3. QED
    BY <1>1, <2>1, <2>2 DEF OnlyMoves, RollbackAndReturn
<1>4. Local(r)'
  <2>1. \A k \in Key : keyLock'[k] # r
    BY <1>2, ConstantsAssumption
  <2>2. pc'[r] = "respond"
    BY <1>1 DEF IInv, TypeOK
  <2>3. QED
    BY <2>1, <2>2, ReturnedLocal DEF Returned
<1>5. QED
  BY <1>3, <1>4, MovesKeeps

-----------------------------------------------------------------------------
(* A commit: the row that r holds gets the next version and one more timeline
   entry, whose writer had written none. *)

LEMMA CommitRows ==
  ASSUME IInv, NEW r \in Request, Commit(r)
  PROVE  /\ tx[r].case \in CaseId /\ tx[r].to \in State
         /\ tx[r].version = version[tx[r].case] + 1
         /\ \A c \in CaseId :
              IF c = tx[r].case
              THEN /\ version'[c] = version[c] + 1 /\ status'[c] = tx[r].to
                   /\ timeline'[c] = Append(timeline[c], [actor |-> r, event |-> tx[r].event])
              ELSE /\ version'[c] = version[c] /\ status'[c] = status[c]
                   /\ timeline'[c] = timeline[c]
         /\ http' = http /\ pc'[r] = "respond"
         /\ \A q \in Request \ {r} : tx'[q] = tx[q] /\ pc'[q] = pc[q]
<1>1. tx[r] \in Tx /\ pc[r] = "commit" /\ Local(r)
  BY DEF IInv, TypeOK, Commit
<1>2. tx[r].case \in CaseId /\ tx[r].to \in Status
  BY <1>1 DEF Tx
<1>3. tx[r].to # Absent /\ tx[r].version = version[tx[r].case] + 1 /\ tx[r].entry
  BY <1>1 DEF Local, RowHeld, EntryWritten, Writing
<1>4. /\ version' = [version EXCEPT ![tx[r].case] = tx[r].version]
      /\ status' = [status EXCEPT ![tx[r].case] = tx[r].to]
      /\ timeline' = [timeline EXCEPT ![tx[r].case] =
                        Append(@, [actor |-> r, event |-> tx[r].event])]
      /\ tx' = [tx EXCEPT ![r] = NoTx] /\ http' = http /\ pc' = [pc EXCEPT ![r] = "respond"]
  BY <1>3 DEF Commit, Return, Goto, EndTx
<1>5. tx[r].to \in State
  BY <1>2, <1>3 DEF Status
<1>6. \A c \in CaseId : IF c = tx[r].case
                        THEN /\ version'[c] = tx[r].version /\ status'[c] = tx[r].to
                             /\ timeline'[c] = Append(timeline[c], [actor |-> r, event |-> tx[r].event])
                        ELSE /\ version'[c] = version[c] /\ status'[c] = status[c]
                             /\ timeline'[c] = timeline[c]
  BY <1>4 DEF IInv, TypeOK
<1>7. pc'[r] = "respond" /\ \A q \in Request \ {r} : tx'[q] = tx[q] /\ pc'[q] = pc[q]
  BY <1>4 DEF IInv, TypeOK
<1>8. QED
  BY <1>2, <1>3, <1>4, <1>5, <1>6, <1>7

(* Every row after the commit is an old one or the new one. *)
LEMMA CommitNewRow ==
  ASSUME IInv, NEW r \in Request, Commit(r),
         NEW c \in CaseId, NEW i \in DOMAIN timeline'[c]
  PROVE  \/ /\ c = tx[r].case /\ i = tx[r].version /\ Writer(c, i)' = r
         \/ /\ i \in DOMAIN timeline[c] /\ Writer(c, i)' = Writer(c, i)
            /\ Writer(c, i) \in Request /\ Writer(c, i) # r
<1>1. timeline[c] \in Seq(TimelineRow) /\ Len(timeline[c]) = version[c]
  BY DEF IInv, TypeOK, VersionCountsTimeline
<1>2. \A j \in DOMAIN timeline[c] : Writer(c, j) \in Request /\ Writer(c, j) # r
  <2>1. pc[r] = "commit"
    BY DEF Commit
  <2>2. QED
    BY <2>1, WriterType DEF IInv, WriterDone, Returned
<1>3. CASE c # tx[r].case
  BY <1>2, <1>3, CommitRows DEF Writer
<1>4. CASE c = tx[r].case
  <2> DEFINE e == [actor |-> r, event |-> tx[r].event]
  <2>1. timeline'[c] = Append(timeline[c], e)
    BY <1>4, CommitRows
  <2>2. CASE i = Len(timeline[c]) + 1
    <3>1. timeline'[c][i] = e
      BY <1>1, <2>1, <2>2
    <3>2. Writer(c, i)' = r
      BY <3>1 DEF Writer
    <3>3. QED
      BY ZenonT(60), <1>1, <1>4, <2>2, <3>2, CommitRows
  <2>3. CASE i # Len(timeline[c]) + 1
    <3>1. i \in DOMAIN timeline[c] /\ timeline'[c][i] = timeline[c][i]
      BY <1>1, <2>1, <2>3
    <3>2. QED
      BY <1>2, <3>1 DEF Writer
  <2>4. QED
    BY <2>2, <2>3
<1>5. QED
  BY <1>3, <1>4

LEMMA CommitKeys ==
  ASSUME IInv, NEW r \in Request, Commit(r)
  PROVE  /\ \A k \in Key : registry'[k] = IF keyLock[k] = r THEN CommittedRow(r)
                                                            ELSE registry[k]
         /\ \A k \in Key : keyLock'[k] = IF keyLock[k] = r THEN NoRequest ELSE keyLock[k]
         /\ \A c \in CaseId : rowLock'[c] = IF rowLock[c] = r THEN NoRequest ELSE rowLock[c]
         /\ CommittedRow(r) # NoRow
<1>1. tx[r].to # Absent
  BY CommitRows, StateIsStatus
<1>2. QED
  BY <1>1 DEF Commit, EndTx, Unlock, IInv, TypeOK, CommittedRow, NoRow

LEMMA CommitKeeps ==
  ASSUME IInv, TypeOK', NEW r \in Request, Commit(r)
  PROVE  IInv'
<1> DEFINE key == http[r].key
<1>1. pc[r] = "commit" /\ Local(r) /\ http' = http
  BY DEF Commit, IInv, Return
<1>2. VersionCountsTimeline'
  <2>1. SUFFICES ASSUME NEW c \in CaseId
                 PROVE  /\ version'[c] = Len(timeline'[c])
                        /\ status'[c] = Absent <=> version'[c] = 0
    BY DEF VersionCountsTimeline
  <2>2. /\ version[c] = Len(timeline[c]) /\ version[c] \in Nat
        /\ status[c] = Absent <=> version[c] = 0
        /\ timeline[c] \in Seq(TimelineRow)
    BY DEF IInv, VersionCountsTimeline, TypeOK
  <2>3. CASE c # tx[r].case
    BY <2>2, <2>3, CommitRows
  <2>4. CASE c = tx[r].case
    <3>1. /\ version'[c] = version[c] + 1 /\ status'[c] \in State
          /\ timeline'[c] = Append(timeline[c], [actor |-> r, event |-> tx[r].event])
      <4>1. tx[r].case \in CaseId /\ tx[r].to \in State
        BY CommitRows
      <4>2. /\ version'[tx[r].case] = version[tx[r].case] + 1
            /\ status'[tx[r].case] = tx[r].to
            /\ timeline'[tx[r].case] = Append(timeline[tx[r].case],
                                              [actor |-> r, event |-> tx[r].event])
        BY <4>1, CommitRows
      <4>3. QED
        BY <2>4, <4>1, <4>2
    <3>2. Len(timeline'[c]) = Len(timeline[c]) + 1
      BY <2>2, <3>1
    <3>3. QED
      BY <2>2, <3>1, <3>2, StateIsStatus
  <2>5. QED
    BY <2>3, <2>4
<1>3. \A q \in Request : Local(q)'
  <2>1. Local(r)'
    <3>1. pc'[r] \in Returned
      BY CommitRows DEF Returned
    <3>2. \A k \in Key : keyLock'[k] # r
      BY CommitKeys, ConstantsAssumption
    <3>3. QED
      BY <3>1, <3>2, ReturnedLocal
  <2>2. ASSUME NEW q \in Request \ {r} PROVE Local(q)'
    <3>1. LeavesAlone(r, q)
      <4>1. tx'[q] = tx[q] /\ pc'[q] = pc[q] /\ http'[q] = http[q]
        BY CommitRows
      <4>2. QED
        BY <4>1, CommitKeys, ConstantsAssumption DEF LeavesAlone
    <3>2. rowLock[tx[q].case] = q => version'[tx[q].case] = version[tx[q].case]
      <4>1. rowLock[tx[r].case] = r
        BY <1>1 DEF Local, RowHeld, Writing
      <4>2. tx[q].case \in CaseId
        BY DEF IInv, TypeOK, Tx
      <4>3. QED
        BY <4>1, <4>2, CommitRows
    <3>3. \A k \in Key : keyLock[k] = q => registry'[k] = registry[k]
      BY CommitKeys
    <3>4. QED
      BY <3>1, <3>2, <3>3, LocalKept DEF IInv
  <2>3. QED
    BY <2>1, <2>2
<1>4. WriterDone'
  <2>1. SUFFICES ASSUME NEW c \in CaseId, NEW i \in DOMAIN timeline'[c]
                 PROVE  /\ pc'[Writer(c, i)'] \in Returned
                        /\ http[Writer(c, i)'].key \in Key =>
                             registry'[http[Writer(c, i)'].key] # NoRow
    BY <1>1 DEF WriterDone
  <2>2. CASE Writer(c, i)' = r
    <3>1. pc'[r] = "respond"
      BY CommitRows
    <3>2. key \in Key => keyLock[key] = r
      BY <1>1 DEF Local, KeyOwned
    <3>3. QED
      BY <2>2, <3>1, <3>2, CommitKeys DEF Returned
  <2>3. CASE /\ i \in DOMAIN timeline[c] /\ Writer(c, i)' = Writer(c, i)
             /\ Writer(c, i) \in Request /\ Writer(c, i) # r
    <3>1. pc'[Writer(c, i)] = pc[Writer(c, i)]
      <4>1. \A q \in Request \ {r} : pc'[q] = pc[q]
        BY CommitRows
      <4>2. QED
        BY <2>3, <4>1
    <3>2. QED
      BY <2>3, <3>1, CommitKeys DEF IInv, WriterDone
  <2>4. QED
    BY <2>2, <2>3, CommitNewRow
(* An old row was written by somebody else, and under another key than the one
   that r still owns. *)
<1>5. ASSUME NEW c \in CaseId, NEW i \in DOMAIN timeline[c]
      PROVE  http[Writer(c, i)].key = key => key = NoKey
  <2>1. key \in Key \cup {NoKey}
    BY DEF IInv, TypeOK, HttpRequest
  <2>2. key \in Key => registry[key] = NoRow
    BY <1>1 DEF Local, KeyOwned
  <2>3. QED
    BY <1>5, <2>1, <2>2 DEF IInv, WriterDone
<1>6. KeyedEffectOnce'
  <2>1. SUFFICES ASSUME NEW c \in CaseId, NEW d \in CaseId,
                        NEW i \in DOMAIN timeline'[c], NEW j \in DOMAIN timeline'[d],
                        <<c, i>> # <<d, j>>
                 PROVE  /\ Writer(c, i)' # Writer(d, j)'
                        /\ http[Writer(c, i)'].key = http[Writer(d, j)'].key
                             => http[Writer(c, i)'].key = NoKey
    BY <1>1 DEF KeyedEffectOnce
  <2> DEFINE Old(x, n) == /\ n \in DOMAIN timeline[x] /\ Writer(x, n)' = Writer(x, n)
                          /\ Writer(x, n) # r
             New(x, n) == x = tx[r].case /\ n = tx[r].version /\ Writer(x, n)' = r
  <2>2. (Old(c, i) \/ New(c, i)) /\ (Old(d, j) \/ New(d, j))
    BY CommitNewRow
  <2>3. CASE Old(c, i) /\ Old(d, j)
    BY <2>1, <2>3 DEF IInv, KeyedEffectOnce
  <2>4. CASE Old(c, i) /\ New(d, j)
    BY <1>5, <2>4
  <2>5. CASE New(c, i) /\ Old(d, j)
    BY <1>5, <2>5
  <2>6. CASE New(c, i) /\ New(d, j)
    BY <2>1, <2>6
  <2>7. QED
    BY <2>2, <2>3, <2>4, <2>5, <2>6
<1>7. NoLostUpdate'
  <2>1. SUFFICES ASSUME NEW c \in CaseId, NEW i \in DOMAIN timeline'[c],
                        http[Writer(c, i)'].op = "transition",
                        http[Writer(c, i)'].ifMatch.form = "number",
                        http[Writer(c, i)'].ifMatch.n # 0
                 PROVE  i = http[Writer(c, i)'].ifMatch.n + 1
    BY <1>1 DEF NoLostUpdate
  <2>2. CASE i \in DOMAIN timeline[c] /\ Writer(c, i)' = Writer(c, i)
    BY <2>1, <2>2 DEF IInv, NoLostUpdate
  <2>3. CASE i = tx[r].version /\ Writer(c, i)' = r
    <3>1. Matches(HttpArgs(http[r]), tx[r].version - 1)
      BY <1>1, <2>1, <2>3 DEF Local, VersionChecked, Writing
    <3>2. HttpArgs(http[r]).ifMatch = http[r].ifMatch.n
      BY <2>1, <2>3 DEF HttpArgs, ParseIfMatch
    <3>3. tx[r].version - 1 = http[r].ifMatch.n
      BY <2>1, <2>3, <3>1, <3>2 DEF Matches
    <3>4. tx[r].version \in Nat
      BY DEF IInv, TypeOK, Tx
    <3>5. QED
      BY <2>3, <3>3, <3>4
  <2>4. QED
    BY <2>2, <2>3, CommitNewRow
<1>8. QED
  BY <1>2, <1>3, <1>4, <1>6, <1>7 DEF IInv

-----------------------------------------------------------------------------
(* The invariant is inductive. *)

LEMMA IInvInit == Init => IInv
<1> SUFFICES ASSUME Init PROVE IInv
  OBVIOUS
<1>1. TypeOK
  BY TypeInit
<1>2. \A c \in CaseId : timeline[c] = <<>> /\ version[c] = 0 /\ status[c] = Absent
  BY DEF Init
<1>3. VersionCountsTimeline /\ WriterDone /\ KeyedEffectOnce /\ NoLostUpdate
  BY <1>2 DEF VersionCountsTimeline, WriterDone, KeyedEffectOnce, NoLostUpdate
<1>4. \A r \in Request : Local(r)
  BY ConstantsAssumption
  DEF Init, Local, RowHeld, EntryWritten, VersionChecked, KeyOwned, Writing
<1>5. QED
  BY <1>1, <1>3, <1>4 DEF IInv

LEMMA CreateKeeps ==
  ASSUME IInv, TypeOK', NEW r \in Request, CreateCase(r)
  PROVE  IInv'
<1>1. PICK c \in CaseId \ {UnknownId} :
        /\ status[c] = Absent /\ rowLock[c] = NoRequest
        /\ rowLock' = [rowLock EXCEPT ![c] = r]
        /\ Step(r, [tx[r] EXCEPT !.case = c, !.to = "NEW", !.version = 1], "timeline")
  BY DEF CreateCase
<1>2. /\ OnlyMoves(r) /\ tx'[r] = [tx[r] EXCEPT !.case = c, !.to = "NEW", !.version = 1]
      /\ pc'[r] = "timeline" /\ UNCHANGED <<version, registry, http>>
  <2>1. \A q \in Request \ {r} : /\ \A d \in CaseId : rowLock[d] = q => rowLock'[d] = q
                                 /\ \A k \in Key : keyLock'[k] = q <=> keyLock[k] = q
    BY <1>1, ConstantsAssumption DEF IInv, TypeOK, CreateCase
  <2>2. TypeOK /\ pc[r] \notin Returned
    BY DEF IInv, Returned, CreateCase
  <2>3. QED
    BY <1>1, <2>1, <2>2, StepMoves
<1>3. tx[r] \in Tx /\ pc[r] = "insert_case" /\ Local(r) /\ version[c] = 0
  BY <1>1 DEF IInv, TypeOK, CreateCase, VersionCountsTimeline
<1>4. tx'[r].case = c /\ tx'[r].to = "NEW" /\ tx'[r].version = 1
  BY <1>2, <1>3 DEF Tx
<1>5. RowHeld(r)'
  <2>1. rowLock'[c] = r
    BY <1>1 DEF IInv, TypeOK
  <2>2. QED
    BY <1>2, <1>3, <1>4, <2>1 DEF RowHeld, Absent, Writing
<1>6. EntryWritten(r)' /\ VersionChecked(r)'
  BY <1>2, <1>3 DEF Local, EntryWritten, VersionChecked
<1>7. KeyOwned(r)'
  BY <1>2, <1>3 DEF Local, KeyOwned, CreateCase
<1>8. QED
  BY <1>2, <1>5, <1>6, <1>7, MovesKeeps DEF Local

LEMMA SelectKeeps ==
  ASSUME IInv, TypeOK', NEW r \in Request, GetCaseForUpdate(r)
  PROVE  IInv'
<1> DEFINE c == call[r].case
<1>1. /\ pc[r] = "select" /\ rowLock[c] = NoRequest
      /\ Matches(call[r], version[c]) /\ rowLock' = [rowLock EXCEPT ![c] = r]
      /\ UNCHANGED keyLock
  BY DEF GetCaseForUpdate, RowAvailable
<1>2. call[r] = HttpArgs(http[r]) /\ c \in CaseId
  <2>1. call[r] = HttpArgs(http[r]) /\ http[r] \in HttpRequest
    BY <1>1 DEF IInv, TypeOK
  <2>2. QED
    BY <2>1 DEF HttpArgs, HttpRequest
<1>3. PICK edge \in Decide(status[c], call[r].event, call[r].ctx) :
        Step(r, [tx[r] EXCEPT !.case = c, !.from = edge.from, !.to = edge.to,
                              !.version = version[c], !.event = edge.event], "update")
  BY DEF GetCaseForUpdate
<1>4. /\ OnlyMoves(r) /\ pc'[r] = "update" /\ UNCHANGED <<version, registry, http>>
      /\ tx'[r] = [tx[r] EXCEPT !.case = c, !.from = edge.from, !.to = edge.to,
                                !.version = version[c], !.event = edge.event]
  <2>1. \A q \in Request \ {r} : /\ \A d \in CaseId : rowLock[d] = q => rowLock'[d] = q
                                 /\ \A k \in Key : keyLock'[k] = q <=> keyLock[k] = q
    BY <1>1, ConstantsAssumption DEF IInv, TypeOK
  <2>2. TypeOK /\ pc[r] \notin Returned
    BY <1>1 DEF IInv, Returned
  <2>3. QED
    BY <1>3, <2>1, <2>2, StepMoves
<1>5. tx[r] \in Tx /\ Local(r) /\ edge.to \in State
  BY IntentType DEF IInv, TypeOK
<1>6. tx'[r].case = c /\ tx'[r].to = edge.to /\ tx'[r].version = version[c]
  BY <1>4, <1>5 DEF Tx
<1>7. RowHeld(r)'
  <2>1. rowLock'[c] = r
    BY <1>1, <1>2 DEF IInv, TypeOK
  <2>2. QED
    BY <1>4, <1>5, <1>6, <2>1, StateIsStatus DEF RowHeld, Writing
<1>8. EntryWritten(r)' /\ VersionChecked(r)'
  BY <1>1, <1>2, <1>4, <1>6 DEF EntryWritten, VersionChecked, Writing
<1>9. KeyOwned(r)'
  BY <1>1, <1>4, <1>5 DEF Local, KeyOwned
<1>10. QED
  BY <1>4, <1>7, <1>8, <1>9, MovesKeeps DEF Local

LEMMA UpdateKeeps ==
  ASSUME IInv, TypeOK', NEW r \in Request, UpdateCaseStatus(r)
  PROVE  IInv'
<1>1. CASE version[tx[r].case] # tx[r].version
  BY <1>1, RollbackKeeps DEF UpdateCaseStatus
<1>2. CASE version[tx[r].case] = tx[r].version
  <2>1. /\ pc[r] = "update" /\ UNCHANGED keyLock
        /\ Step(r, [tx[r] EXCEPT !.version = @ + 1], "timeline")
        /\ rowLock' = [rowLock EXCEPT ![tx[r].case] = r]
    BY <1>2 DEF UpdateCaseStatus
  <2>2. tx[r] \in Tx /\ Local(r)
    BY DEF IInv, TypeOK
  <2>3. rowLock[tx[r].case] = r /\ tx[r].to # Absent /\ tx[r].case \in CaseId
    BY <2>1, <2>2 DEF Local, RowHeld, Tx
  <2>4. rowLock' = rowLock
    BY <2>1, <2>3 DEF IInv, TypeOK
  <2>5. /\ OnlyMoves(r) /\ tx'[r] = [tx[r] EXCEPT !.version = @ + 1]
        /\ pc'[r] = "timeline" /\ UNCHANGED <<version, registry, http>>
    BY <2>1, <2>4, StepMoves DEF IInv, Returned
  <2>6. /\ tx'[r].case = tx[r].case /\ tx'[r].to = tx[r].to
        /\ tx'[r].version = tx[r].version + 1 /\ tx[r].version \in Nat
    BY <2>2, <2>5 DEF Tx
  <2>7. RowHeld(r)'
    BY <1>2, <2>3, <2>4, <2>5, <2>6 DEF RowHeld
  <2>8. EntryWritten(r)'
    BY <2>5 DEF EntryWritten
  <2>9. VersionChecked(r)'
    <3>1. tx'[r].version - 1 = tx[r].version
      BY <2>6
    <3>2. QED
      BY <2>1, <2>2, <2>5, <3>1 DEF Local, VersionChecked
  <2>10. KeyOwned(r)'
    BY <2>1, <2>2, <2>5 DEF Local, KeyOwned
  <2>11. QED
    BY <2>5, <2>7, <2>8, <2>9, <2>10, MovesKeeps DEF Local
<1>3. QED
  BY <1>1, <1>2

(* The statements after the update leave the row, the version and the locks of
   the transaction as they are. *)
LEMMA WriteKeeps ==
  ASSUME IInv, TypeOK', NEW r \in Request, NEW t \in Tx, NEW label \in {"outbox", "idem", "commit"},
         pc[r] \in Writing \ {"commit"}, Step(r, t, label), rowLock' = rowLock,
         \A q \in Request \ {r} : \A k \in Key : keyLock'[k] = q <=> keyLock[k] = q,
         t.case = tx[r].case, t.to = tx[r].to, t.version = tx[r].version,
         EntryWritten(r)', KeyOwned(r)'
  PROVE  IInv'
<1>1. OnlyMoves(r) /\ tx'[r] = t /\ pc'[r] = label /\ UNCHANGED <<version, registry, http>>
  BY StepMoves DEF IInv, Returned, Writing
<1>2. Local(r)
  BY DEF IInv
<1>3. RowHeld(r)'
  BY <1>1, <1>2 DEF Local, RowHeld, Writing
<1>4. VersionChecked(r)'
  BY <1>1, <1>2 DEF Local, VersionChecked, Writing
<1>5. QED
  BY <1>1, <1>3, <1>4, MovesKeeps DEF Local

LEMMA TimelineKeeps ==
  ASSUME IInv, TypeOK', NEW r \in Request, InsertTimeline(r) \/ TimelineErrorIgnored(r)
  PROVE  IInv'
<1>1. tx[r] \in Tx /\ pc[r] = "timeline" /\ Local(r) /\ UNCHANGED <<rowLock, keyLock>>
  BY DEF IInv, TypeOK, InsertTimeline, TimelineErrorIgnored, locks
<1>2. PICK t \in {[tx[r] EXCEPT !.entry = TRUE], [tx[r] EXCEPT !.aborted = TRUE]} :
        Step(r, t, "outbox")
  BY DEF InsertTimeline, TimelineErrorIgnored
<1>3. /\ t \in Tx /\ t.case = tx[r].case /\ t.to = tx[r].to /\ t.version = tx[r].version
      /\ t.entry \/ t.aborted
  BY <1>1, <1>2 DEF Tx
<1>4. tx'[r] = t /\ pc'[r] = "outbox" /\ http' = http
  BY <1>1, <1>2 DEF Step, Goto, IInv, TypeOK
<1>5. EntryWritten(r)' /\ KeyOwned(r)'
  BY <1>1, <1>3, <1>4 DEF EntryWritten, Local, KeyOwned
<1>6. QED
  BY <1>1, <1>2, <1>3, <1>5, WriteKeeps DEF Writing

LEMMA OutboxKeeps ==
  ASSUME IInv, TypeOK', NEW r \in Request, InsertOutbox(r)
  PROVE  IInv'
<1>1. CASE tx[r].aborted
  BY <1>1, RollbackKeeps DEF InsertOutbox
<1>2. CASE ~tx[r].aborted
  <2>1. /\ tx[r] \in Tx /\ pc[r] = "outbox" /\ Local(r) /\ nextId \in Nat
        /\ UNCHANGED <<rowLock, keyLock>>
    BY <1>2 DEF IInv, TypeOK, InsertOutbox, locks
  <2> DEFINE t == [tx[r] EXCEPT !.msg = nextId]
             label == IF HasKey(r) THEN "idem" ELSE "commit"
  <2>2. Step(r, t, label)
    BY <1>2 DEF InsertOutbox
  <2>3. /\ t \in Tx /\ t.case = tx[r].case /\ t.to = tx[r].to /\ t.version = tx[r].version
        /\ t.entry = tx[r].entry
    BY <2>1 DEF Tx
  <2>4. tx'[r] = t /\ pc'[r] = label /\ UNCHANGED <<http, registry>>
    BY <2>1, <2>2 DEF Step, Goto, IInv, TypeOK, committed
  <2>5. EntryWritten(r)'
    BY <1>2, <2>1, <2>3, <2>4 DEF EntryWritten, Local
  <2>6. HasKey(r) <=> http[r].key \in Key
    BY <2>1 DEF IInv, TypeOK, HasKey, HttpArgs
  <2>7. KeyOwned(r)'
    BY <2>1, <2>4, <2>6 DEF Local, KeyOwned
  <2>8. QED
    BY <2>1, <2>2, <2>3, <2>5, <2>7, WriteKeeps DEF Writing
<1>3. QED
  BY <1>1, <1>2

LEMMA IdempotencyKeeps ==
  ASSUME IInv, TypeOK', NEW r \in Request, InsertIdempotency(r)
  PROVE  IInv'
<1> DEFINE key == http[r].key
<1>1. pc[r] = "idem" /\ Local(r) /\ tx[r] \in Tx /\ call[r].key = key
  BY DEF IInv, TypeOK, InsertIdempotency, HttpArgs
<1>2. CASE RequestRejected \/ Registered(key)
  BY <1>1, <1>2, RollbackKeeps DEF InsertIdempotency
<1>3. CASE ~(RequestRejected \/ Registered(key))
  <2>1. /\ keyLock[key] = NoRequest /\ Step(r, tx[r], "commit")
        /\ keyLock' = [keyLock EXCEPT ![key] = r] /\ rowLock' = rowLock
    BY <1>1, <1>3 DEF InsertIdempotency
  <2>2. tx'[r] = tx[r] /\ pc'[r] = "commit" /\ UNCHANGED <<http, registry>>
    BY <1>1, <2>1 DEF Step, Goto, IInv, TypeOK, committed
  <2>3. EntryWritten(r)'
    BY <1>1, <2>2 DEF EntryWritten, Local
  <2>4. \A k \in Key : keyLock'[k] = IF k = key THEN r ELSE keyLock[k]
    BY <2>1 DEF IInv, TypeOK
  <2>5. KeyOwned(r)'
    BY <1>1, <1>3, <2>2, <2>4 DEF Local, KeyOwned, Registered
  <2>6. \A q \in Request \ {r} : \A k \in Key : keyLock'[k] = q <=> keyLock[k] = q
    BY <2>1, <2>4, ConstantsAssumption
  <2>7. QED
    BY <1>1, <2>1, <2>3, <2>5, <2>6, WriteKeeps DEF Writing
<1>4. QED
  BY <1>2, <1>3

(* Steps before the transaction's first write and after its end: the locks do not
   move. *)
Outside(r) ==
  /\ UNCHANGED <<committed, locks, http>>
  /\ \A q \in Request \ {r} : tx'[q] = tx[q] /\ pc'[q] = pc[q]
  /\ pc[r] # "commit"
  /\ \/ pc'[r] \in Returned \cup {"lookup", "begin", "select"}
     \/ pc'[r] = "insert_case" /\ http[r].op = "create"
  /\ pc[r] \in Returned => pc'[r] \in Returned

LEMMA OutsideKeeps ==
  ASSUME IInv, TypeOK', NEW r \in Request, Outside(r)
  PROVE  IInv'
<1> USE DEF Outside
<1>1. UNCHANGED <<rowLock, keyLock, http>>
  BY DEF locks
<1>2. OnlyMoves(r)
  BY <1>1 DEF OnlyMoves, LeavesAlone
<1>3. \A k \in Key : keyLock'[k] # r
  BY <1>1 DEF IInv, Local, KeyOwned
<1>4. Local(r)'
  BY <1>1, <1>3 DEF Local, RowHeld, EntryWritten, VersionChecked, KeyOwned, Returned, Writing
<1>5. QED
  BY <1>2, <1>4, MovesKeeps

LEMMA CrashKeeps ==
  ASSUME IInv, TypeOK', Crash
  PROVE  IInv'
<1>1. UNCHANGED <<status, version, timeline, outbox, registry, http>>
  BY DEF Crash, committed
<1>2. /\ \A q \in Request : pc'[q] \in {"idle", "done"}
      /\ \A q \in Request : pc[q] \in Returned => pc'[q] \in Returned
      /\ \A k \in Key : keyLock'[k] = NoRequest
  BY DEF Crash, Active, Returned
<1>3. \A q \in Request : Local(q)'
  BY <1>2, ReturnedLocal, ConstantsAssumption DEF Returned
<1>4. WriterDone'
  BY <1>1, <1>2, WriterType DEF IInv, WriterDone, Writer
<1>5. VersionCountsTimeline' /\ KeyedEffectOnce' /\ NoLostUpdate'
  BY <1>1 DEF IInv, VersionCountsTimeline, KeyedEffectOnce, NoLostUpdate, Writer
<1>6. QED
  BY <1>3, <1>4, <1>5 DEF IInv

LEMMA IInvNext == IInv /\ [Next]_vars => IInv'
<1> SUFFICES ASSUME IInv, [Next]_vars PROVE IInv'
  OBVIOUS
<1>0. TypeOK'
  BY TypeNext DEF IInv
<1>1. ASSUME NEW r \in Request,
             \/ Receive(r) \/ LookupHit(r) \/ LookupMiss(r) \/ LookupError(r)
             \/ BeginTx(r) \/ Respond(r)
      PROVE  IInv'
  <2>1. UNCHANGED <<committed, locks, http>> /\ pc[r] # "commit"
    BY <1>1 DEF Receive, LookupHit, LookupMiss, LookupError, BeginTx, Respond, Return, Step
  <2>2. \A q \in Request \ {r} : tx'[q] = tx[q] /\ pc'[q] = pc[q]
    BY <1>1 DEF Receive, LookupHit, LookupMiss, LookupError, BeginTx, Respond,
                Return, Step, Goto, IInv, TypeOK
  <2>3. /\ \/ pc'[r] \in Returned \cup {"lookup", "begin", "select"}
           \/ pc'[r] = "insert_case" /\ http[r].op = "create"
        /\ pc[r] \in Returned => pc'[r] \in Returned
    <3>1. CASE Receive(r) \/ LookupHit(r) \/ LookupMiss(r) \/ LookupError(r) \/ Respond(r)
      BY <3>1 DEF Receive, LookupHit, LookupMiss, LookupError, Respond,
                  Return, Goto, Returned, IInv, TypeOK
    <3>2. CASE BeginTx(r)
      <4>1. pc[r] = "begin" /\ pc'[r] = IF call[r].op = "create" THEN "insert_case" ELSE "select"
        BY <3>2 DEF BeginTx, Step, Goto, IInv, TypeOK
      <4>2. call[r].op = http[r].op
        BY <4>1 DEF IInv, TypeOK, HttpArgs
      <4>3. QED
        BY <4>1, <4>2 DEF Returned
    <3>3. QED
      BY <1>1, <3>1, <3>2
  <2>4. QED
    <3>1. Outside(r)
      BY <2>1, <2>2, <2>3 DEF Outside
    <3>2. QED
      BY <1>0, <3>1, OutsideKeeps
<1>2. ASSUME NEW r \in Request,
             CaseNotFound(r) \/ VersionMismatch(r) \/ DecideRefuses(r) \/ DatabaseError(r)
      PROVE  IInv'
  BY <1>0, <1>2, RollbackKeeps DEF CaseNotFound, VersionMismatch, DecideRefuses, DatabaseError
<1>3. ASSUME NEW r \in Request,
             \/ CreateCase(r) \/ GetCaseForUpdate(r) \/ UpdateCaseStatus(r)
             \/ InsertTimeline(r) \/ TimelineErrorIgnored(r) \/ InsertOutbox(r)
             \/ InsertIdempotency(r) \/ Commit(r)
      PROVE  IInv'
  BY <1>0, <1>3, CreateKeeps, SelectKeeps, UpdateKeeps, TimelineKeeps, OutboxKeeps,
     IdempotencyKeeps, CommitKeeps
<1>4. CASE Crash
  BY <1>0, <1>4, CrashKeeps
<1>5. CASE UNCHANGED vars
  <2>1. UNCHANGED <<status, version, timeline, outbox, registry, tx, rowLock, keyLock, pc, http>>
    BY <1>5 DEF vars
  <2>2. /\ VersionCountsTimeline' /\ KeyedEffectOnce' /\ NoLostUpdate' /\ WriterDone'
        /\ \A r \in Request : Local(r)'
    BY <2>1 DEF IInv, VersionCountsTimeline, KeyedEffectOnce, NoLostUpdate, WriterDone,
                Writer, Local, RowHeld, EntryWritten, VersionChecked, KeyOwned
  <2>3. QED
    BY <1>0, <2>2 DEF IInv
<1>6. QED
  BY <1>1, <1>2, <1>3, <1>4, <1>5 DEF Next, Handle, Fault, Quiescent

(* What a transaction in flight knows stays true, whatever other requests do, fail at or
   are killed in. *)
THEOREM Inductive == Spec => []IInv
  BY IInvInit, IInvNext, PTL DEF Spec

(* A case's version always counts its timeline rows, and only a case without
   rows is absent: no dropped statement error, no lost confirmation and no crash
   separates the two tables. *)
THEOREM VersionCountsTimelineHolds == Spec => []VersionCountsTimeline
<1>1. IInv => VersionCountsTimeline
  BY DEF IInv
<1>2. QED
  BY <1>1, Inductive, PTL

(* Requests that share an idempotency key take effect at most once between them,
   however they interleave. *)
THEOREM KeyedEffectOnceHolds == Spec => []KeyedEffectOnce
<1>1. IInv => KeyedEffectOnce
  BY DEF IInv
<1>2. QED
  BY <1>1, Inductive, PTL

(* A transition that names version n > 0 writes version n + 1 or nothing. *)
THEOREM NoLostUpdateHolds == Spec => []NoLostUpdate
<1>1. IInv => NoLostUpdate
  BY DEF IInv
<1>2. QED
  BY <1>1, Inductive, PTL
=============================================================================
