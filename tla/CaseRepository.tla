--------------------------- MODULE CaseRepository ---------------------------
(***************************************************************************)
(* PATCH /case/:id/transition and POST /case/create as the code runs them: *)
(* the gin handler (llm-ops-agent/api/handlers.go), the repository         *)
(* (internal/ports/postgres/case_repo.go) and the statements it sends to   *)
(* Postgres (db/sqlc/ops_case.sql.go), one action per statement, with any  *)
(* number of requests interleaved.                                         *)
(*                                                                         *)
(* Postgres is external: committed rows, row locks, the unique index of    *)
(* the idempotency table, the BIGSERIAL of the outbox (drawn by the insert *)
(* and never given back) and the rule that a failed statement aborts its   *)
(* transaction.  Every statement may fail; a commit may take effect and    *)
(* still be reported as failed; the server process may die at any moment.  *)
(***************************************************************************)
EXTENDS CaseTypes

CONSTANTS
  NoCall,
  Offer,       \* [Request -> SUBSET HttpRequest]: what each client may send
  RequestColumn,  \* type of idempotency.request: "jsonb", as the migration has it, or
               \* "text", which takes what the code stores there
  MaxConns,    \* size of the pgx pool
  MaxCrashes   \* bound on the deaths of the server process

VARIABLES
  \* the committed database
  status, version, timeline, outbox, registry, nextId,
  \* transactions in flight
  tx, rowLock, keyLock,
  \* the handler goroutines
  pc, http, call, outcome, answer,
  crashes

committed == <<status, version, timeline, outbox, registry>>
locks == <<rowLock, keyLock>>
vars == <<status, version, timeline, outbox, registry, nextId, tx, rowLock,
          keyLock, pc, http, call, outcome, answer, crashes>>

-----------------------------------------------------------------------------
(* Requests.  An If-Match header is absent, a decimal number, or a text that
   names version n some other way, such as the weak entity tag W/"n". *)

IfMatchHeader == [form : {"absent", "number", "text"}, n : Int]

HttpRequest == [op : {"create", "transition"}, case : CaseId, event : Event,
                ifMatch : IfMatchHeader, key : Key \cup {NoKey}]

ASSUME RepositoryAssumption ==
  /\ NoCall \notin Args
  /\ Offer \in [Request -> SUBSET HttpRequest]
  /\ RequestColumn \in {"jsonb", "text"}
  /\ MaxConns \in Nat \ {0}
  /\ MaxCrashes \in Nat

(* strconv.ParseInt with its error dropped: text gives 0. *)
ParseIfMatch(header) == IF header.form = "number" THEN header.n ELSE 0

(* The Context the handler builds has no fact set. *)
HandlerContext == {}

HttpArgs(request) ==
  [op |-> request.op, case |-> request.case, event |-> request.event,
   ctx |-> HandlerContext, ifMatch |-> ParseIfMatch(request.ifMatch),
   key |-> request.key]

(* The status code the handler sends for an outcome. *)
StatusCode(result) ==
  CASE result.kind = "ok" -> 200
    [] result.kind \in {"illegal", "guard"} -> 409
    [] result.kind = "norows" -> 412
    [] OTHER -> 500

Answer == {0, 200, 409, 412, 500, 503}
Unanswered == 0
ConnectionLost == 503    \* not sent by the code: the connection breaks

-----------------------------------------------------------------------------
(* Transactions. *)

Tx == [open : BOOLEAN, aborted : BOOLEAN, case : CaseId,
       from : Status, to : Status, version : Nat, event : TimelineEvent,
       entry : BOOLEAN, msg : Nat]
NoTx == [open |-> FALSE, aborted |-> FALSE, case |-> UnknownId,
         from |-> Absent, to |-> Absent, version |-> 0, event |-> "case_created",
         entry |-> FALSE, msg |-> 0]
OpenTx == [NoTx EXCEPT !.open = TRUE]

OutboxRow == [id : Nat, case : CaseId, from : Status, to : Status,
              event : TimelineEvent]

PC == {"idle", "lookup", "begin", "insert_case", "select", "update", "timeline",
       "outbox", "idem", "commit", "respond", "done"}
InTx == {"insert_case", "select", "update", "timeline", "outbox", "idem", "commit"}

Init ==
  /\ status = [c \in CaseId |-> Absent]
  /\ version = [c \in CaseId |-> 0]
  /\ timeline = [c \in CaseId |-> <<>>]
  /\ outbox = {}
  /\ registry = [k \in Key |-> NoRow]
  /\ nextId = 1
  /\ tx = [r \in Request |-> NoTx]
  /\ rowLock = [c \in CaseId |-> NoRequest]
  /\ keyLock = [k \in Key |-> NoRequest]
  /\ pc = [r \in Request |-> "idle"]
  /\ http \in {f \in [Request -> UNION {Offer[r] : r \in Request}] :
                 \A r \in Request : f[r] \in Offer[r]}
  /\ call = [r \in Request |-> NoCall]
  /\ outcome = [r \in Request |-> NoOutcome]
  /\ answer = [r \in Request |-> Unanswered]
  /\ crashes = 0

Goto(r, label) == pc' = [pc EXCEPT ![r] = label]

FreeConnection == Cardinality({r \in Request : tx[r].open}) < MaxConns

HasKey(r) == call[r].key \in Key

Registered(k) == k \in Key /\ registry[k] # NoRow

Unlock(lock, r) == [x \in DOMAIN lock |-> IF lock[x] = r THEN NoRequest ELSE lock[x]]

(* The transaction of r ends: its locks are released. *)
EndTx(r) ==
  /\ tx' = [tx EXCEPT ![r] = NoTx]
  /\ rowLock' = Unlock(rowLock, r)
  /\ keyLock' = Unlock(keyLock, r)

(* The repository returns to the handler. *)
Return(r, result) ==
  /\ outcome' = [outcome EXCEPT ![r] = result]
  /\ Goto(r, "respond")
  /\ UNCHANGED <<http, call, answer, crashes>>

\* Mutation: an early return forgets tx.Rollback.
ReturnWithoutRollback(r, result) ==
  /\ Return(r, result)
  /\ UNCHANGED <<committed, nextId, tx, locks>>

(* tx.Rollback(ctx); return err *)
RollbackAndReturn(r, result) ==
  /\ EndTx(r)
  /\ Return(r, result)
  /\ UNCHANGED <<committed, nextId>>

(* A statement succeeds: only the transaction and the program counter move. *)
Step(r, t, label) ==
  /\ tx' = [tx EXCEPT ![r] = t]
  /\ Goto(r, label)
  /\ UNCHANGED <<committed, http, call, outcome, answer, crashes>>

\* Mutation: the handler trusts any text in If-Match to be the version.
ReceiveAnyTag(r) ==
  /\ pc[r] = "idle"
  /\ http[r].op = "transition" =>
       http[r].case = UnknownId \/ status[http[r].case] # Absent
  /\ call' = [call EXCEPT ![r] = [HttpArgs(http[r]) EXCEPT !.ifMatch = http[r].ifMatch.n]]
  /\ Goto(r, IF http[r].key \in Key THEN "lookup" ELSE "begin")
  /\ UNCHANGED <<committed, nextId, tx, locks, http, outcome, answer, crashes>>

-----------------------------------------------------------------------------
(* The handler receives a request.  A client knows an identifier only when the
   case exists. *)
Receive(r) ==
  /\ pc[r] = "idle"
  /\ http[r].op = "transition" =>
       http[r].case = UnknownId \/ status[http[r].case] # Absent
  /\ call' = [call EXCEPT ![r] = HttpArgs(http[r])]
  /\ Goto(r, IF http[r].key \in Key THEN "lookup" ELSE "begin")
  /\ UNCHANGED <<committed, nextId, tx, locks, http, outcome, answer, crashes>>

\* Mutation: the error of GetIdempotency is not looked at.
LookupHitUnchecked(r) ==
  /\ pc[r] = "lookup" /\ FreeConnection
  /\ Return(r, Ok(registry[call[r].key]))
  /\ UNCHANGED <<committed, nextId, tx, locks>>

(* GetIdempotency, on a connection of its own, outside any transaction. *)
LookupHit(r) ==
  /\ pc[r] = "lookup" /\ FreeConnection
  /\ Registered(call[r].key)
  /\ Return(r, Ok(registry[call[r].key]))
  /\ UNCHANGED <<committed, nextId, tx, locks>>

LookupMiss(r) ==
  /\ pc[r] = "lookup" /\ FreeConnection
  /\ ~Registered(call[r].key)
  /\ Goto(r, "begin")
  /\ UNCHANGED <<committed, nextId, tx, locks, http, call, outcome, answer, crashes>>

(* The query failed: the code goes on as if there were no such row. *)
LookupError(r) ==
  /\ pc[r] = "lookup"
  /\ Goto(r, "begin")
  /\ UNCHANGED <<committed, nextId, tx, locks, http, call, outcome, answer, crashes>>

BeginTx(r) ==
  /\ pc[r] = "begin" /\ FreeConnection
  /\ Step(r, OpenTx, IF call[r].op = "create" THEN "insert_case" ELSE "select")
  /\ UNCHANGED <<nextId, locks>>

(* INSERT INTO ops_case: a fresh identifier, version 1; nobody else sees or can
   change the row before the commit. *)
CreateCase(r) ==
  /\ pc[r] = "insert_case"
  /\ \E c \in CaseId \ {UnknownId} :
       /\ status[c] = Absent /\ rowLock[c] = NoRequest
       /\ rowLock' = [rowLock EXCEPT ![c] = r]
       /\ Step(r, [tx[r] EXCEPT !.case = c, !.to = "NEW", !.version = 1], "timeline")
  /\ UNCHANGED <<nextId, keyLock>>

(* SELECT ... FOR UPDATE of a case that has no row. *)
CaseNotFound(r) ==
  /\ pc[r] = "select"
  /\ status[call[r].case] = Absent
  /\ RollbackAndReturn(r, Err("norows"))

(* SELECT ... FOR UPDATE waits for the row lock, then reads the committed row;
   the version check and the decision of the state machine follow in memory. *)
RowAvailable(r) ==
  /\ pc[r] = "select"
  /\ status[call[r].case] # Absent
  /\ rowLock[call[r].case] = NoRequest

VersionMismatch(r) ==
  /\ RowAvailable(r)
  /\ ~Matches(call[r], version[call[r].case])
  /\ RollbackAndReturn(r, Err("norows"))

DecideRefuses(r) ==
  /\ RowAvailable(r)
  /\ LET args == call[r]
         from == status[args.case]
     IN  /\ Matches(args, version[args.case])
         /\ \/ /\ ErrIllegal(from, args.event)
               /\ RollbackAndReturn(r, Err("illegal"))
            \/ /\ ErrGuard(from, args.event, args.ctx)
               /\ RollbackAndReturn(r, Err("guard"))

\* Mutation: SELECT without FOR UPDATE.
GetCaseNoLock(r) ==
  /\ pc[r] = "select"
  /\ status[call[r].case] # Absent
  /\ LET args == call[r]
         c == args.case
     IN  /\ Matches(args, version[c])
         /\ \E edge \in Decide(status[c], args.event, args.ctx) :
              Step(r, [tx[r] EXCEPT !.case = c, !.from = edge.from, !.to = edge.to,
                                    !.version = version[c], !.event = edge.event],
                   "update")
  /\ UNCHANGED <<nextId, locks>>

GetCaseForUpdate(r) ==
  /\ RowAvailable(r)
  /\ LET args == call[r]
         c == args.case
     IN  /\ Matches(args, version[c])
         /\ \E edge \in Decide(status[c], args.event, args.ctx) :
              Step(r, [tx[r] EXCEPT !.case = c, !.from = edge.from, !.to = edge.to,
                                    !.version = version[c], !.event = edge.event],
                   "update")
         /\ rowLock' = [rowLock EXCEPT ![c] = r]
  /\ UNCHANGED <<nextId, keyLock>>

(* UPDATE ops_case ... WHERE version = the version read: it waits for the row
   lock of another transaction and returns no row when the version moved. *)
UpdateCaseStatus(r) ==
  /\ pc[r] = "update"
  /\ rowLock[tx[r].case] \in {NoRequest, r}
  /\ IF version[tx[r].case] = tx[r].version
     THEN /\ Step(r, [tx[r] EXCEPT !.version = @ + 1], "timeline")
          /\ rowLock' = [rowLock EXCEPT ![tx[r].case] = r]
          /\ UNCHANGED <<nextId, keyLock>>
     ELSE RollbackAndReturn(r, Err("norows"))

InsertTimeline(r) ==
  /\ pc[r] = "timeline"
  /\ Step(r, [tx[r] EXCEPT !.entry = TRUE], "outbox")
  /\ UNCHANGED <<nextId, locks>>

\* Mutation: the timeline insert runs in a savepoint, so its failure aborts nothing.
TimelineErrorInSavepoint(r) ==
  /\ pc[r] = "timeline" /\ call[r].op = "create"
  /\ Step(r, tx[r], "outbox")
  /\ UNCHANGED <<nextId, locks>>

(* CreateCase drops the error of its timeline insert and goes on, in a
   transaction that Postgres has aborted. *)
TimelineErrorIgnored(r) ==
  /\ pc[r] = "timeline" /\ call[r].op = "create"
  /\ Step(r, [tx[r] EXCEPT !.aborted = TRUE], "outbox")
  /\ UNCHANGED <<nextId, locks>>

\* Mutation: the outbox row is inserted through the pool, outside the transaction.
InsertOutboxOutsideTx(r) ==
  /\ pc[r] = "outbox"
  /\ tx' = [tx EXCEPT ![r].msg = nextId]
  /\ outbox' = outbox \cup {[id |-> nextId, case |-> tx[r].case, from |-> tx[r].from,
                             to |-> tx[r].to, event |-> tx[r].event]}
  /\ Goto(r, IF HasKey(r) THEN "idem" ELSE "commit")
  /\ nextId' = nextId + 1
  /\ UNCHANGED <<status, version, timeline, registry, locks, http, call, outcome,
                 answer, crashes>>

(* Every statement of an aborted transaction fails. *)
InsertOutbox(r) ==
  /\ pc[r] = "outbox"
  /\ IF tx[r].aborted
     THEN RollbackAndReturn(r, Err("error"))
     ELSE /\ Step(r, [tx[r] EXCEPT !.msg = nextId],
                  IF HasKey(r) THEN "idem" ELSE "commit")
          /\ nextId' = nextId + 1
          /\ UNCHANGED locks

(* Both callers pass an empty request (handlers.go:111, case_repo.go:87), which is no
   JSON: a column of type JSONB refuses the row. *)
RequestRejected == RequestColumn = "jsonb"

\* Mutation: INSERT ... ON CONFLICT DO NOTHING.
InsertIdempotencyOnConflict(r) ==
  /\ pc[r] = "idem"
  /\ keyLock[call[r].key] = NoRequest
  /\ Step(r, tx[r], "commit")
  /\ keyLock' = IF Registered(call[r].key) THEN keyLock
                ELSE [keyLock EXCEPT ![call[r].key] = r]
  /\ UNCHANGED <<nextId, rowLock>>

(* INSERT INTO idempotency: the column is checked first; then the unique index makes it
   wait for a transaction in flight that inserted the same key. *)
InsertIdempotency(r) ==
  /\ pc[r] = "idem"
  /\ RequestRejected \/ keyLock[call[r].key] = NoRequest
  /\ IF RequestRejected \/ Registered(call[r].key)
     THEN RollbackAndReturn(r, Err("error"))
     ELSE /\ Step(r, tx[r], "commit")
          /\ keyLock' = [keyLock EXCEPT ![call[r].key] = r]
          /\ UNCHANGED <<nextId, rowLock>>

(* COMMIT makes every row the transaction wrote visible at once. *)
CommittedRow(r) == [case |-> tx[r].case, status |-> tx[r].to, version |-> tx[r].version]

Commit(r) ==
  /\ pc[r] = "commit"
  /\ LET t == tx[r]
     IN  /\ status' = [status EXCEPT ![t.case] = t.to]
         /\ version' = [version EXCEPT ![t.case] = t.version]
         /\ timeline' = IF t.entry
                        THEN [timeline EXCEPT ![t.case] =
                                Append(@, [actor |-> r, event |-> t.event])]
                        ELSE timeline
         /\ outbox' = outbox \cup {[id |-> t.msg, case |-> t.case, from |-> t.from,
                                    to |-> t.to, event |-> t.event]}
         /\ registry' = [k \in Key |-> IF keyLock[k] = r THEN CommittedRow(r)
                                                         ELSE registry[k]]
  /\ EndTx(r)
  (* the confirmation of the commit may get lost *)
  /\ \E result \in {Ok(CommittedRow(r)), Err("error")} : Return(r, result)
  /\ UNCHANGED nextId

(* BeginTx, a statement or the commit fails: the repository rolls back and
   returns the error.  (LookupError and TimelineErrorIgnored are the two errors
   it drops.) *)
DatabaseError(r) ==
  /\ \/ pc[r] = "begin"
     \/ pc[r] \in InTx /\ ~(pc[r] = "timeline" /\ call[r].op = "create")
  /\ RollbackAndReturn(r, Err("error"))

Respond(r) ==
  /\ pc[r] = "respond"
  /\ answer' = [answer EXCEPT ![r] = StatusCode(outcome[r])]
  /\ Goto(r, "done")
  /\ UNCHANGED <<committed, nextId, tx, locks, http, call, outcome, crashes>>

(* The server process dies: its connections break, Postgres rolls back. *)
Active(r) == pc[r] \notin {"idle", "done"}

Crash ==
  /\ crashes < MaxCrashes
  /\ \E r \in Request : Active(r)
  /\ crashes' = crashes + 1
  /\ pc' = [r \in Request |-> IF Active(r) THEN "done" ELSE pc[r]]
  /\ answer' = [r \in Request |-> IF Active(r) THEN ConnectionLost ELSE answer[r]]
  /\ outcome' = [r \in Request |-> IF Active(r) /\ outcome[r] = NoOutcome
                                   THEN Err("lost") ELSE outcome[r]]
  /\ tx' = [r \in Request |-> NoTx]
  /\ rowLock' = [c \in CaseId |-> NoRequest]
  /\ keyLock' = [k \in Key |-> NoRequest]
  /\ UNCHANGED <<committed, nextId, http, call>>

(* Nothing is in progress: the server waits for requests. *)
Quiescent ==
  /\ \A r \in Request : ~Active(r)
  /\ UNCHANGED vars

(* What a handler does of its own, and what the database may do to it. *)
Handle(r) ==
  \/ LookupHit(r) \/ LookupMiss(r) \/ BeginTx(r) \/ CreateCase(r)
  \/ CaseNotFound(r) \/ VersionMismatch(r) \/ DecideRefuses(r)
  \/ GetCaseForUpdate(r) \/ UpdateCaseStatus(r) \/ InsertTimeline(r)
  \/ InsertOutbox(r) \/ InsertIdempotency(r) \/ Commit(r) \/ Respond(r)

Fault(r) == LookupError(r) \/ TimelineErrorIgnored(r) \/ DatabaseError(r)

Next ==
  \/ \E r \in Request : Receive(r) \/ Handle(r) \/ Fault(r)
  \/ Crash
  \/ Quiescent

Spec == Init /\ [][Next]_vars

(* Nothing fails but what the code itself makes fail. *)
CalmSpec == Init /\ [][\E r \in Request : Receive(r) \/ Handle(r)]_vars

(* A handler goroutine that can go on does.  Nothing forces a client to send a
   request or the database to fail one, so a wait may only end because the lock
   or the connection becomes free. *)
FairSpec == Spec /\ \A r \in Request : WF_vars(Handle(r))

-----------------------------------------------------------------------------
(* Properties. *)

TypeOK ==
  /\ status \in [CaseId -> Status]
  /\ version \in [CaseId -> Nat]
  /\ timeline \in [CaseId -> Seq(TimelineRow)]
  /\ outbox \in SUBSET OutboxRow
  /\ registry \in [Key -> Row]
  /\ nextId \in Nat \ {0}
  /\ tx \in [Request -> Tx]
  /\ rowLock \in [CaseId -> Request \cup {NoRequest}]
  /\ keyLock \in [Key -> Request \cup {NoRequest}]
  /\ pc \in [Request -> PC]
  /\ http \in [Request -> HttpRequest]
  /\ call = [r \in Request |-> IF pc[r] = "idle" THEN NoCall ELSE HttpArgs(http[r])]
  /\ outcome \in [Request -> Outcome]
  /\ answer \in [Request -> Answer]
  /\ crashes \in 0..MaxCrashes

(* Timeline row i of case c exists. *)
IsRow(c, i) == i \in DOMAIN timeline[c]

(* The request that wrote it: the actor column names it. *)
Writer(c, i) == timeline[c][i].actor

TookEffect(r) == \E c \in CaseId : \E i \in DOMAIN timeline[c] : Writer(c, i) = r

(* A case and its history never part: its version counts its timeline rows,
   although CreateCase drops the error of its timeline insert
   (case_repo.go:56). *)
VersionCountsTimeline ==
  \A c \in CaseId :
    /\ version[c] = Len(timeline[c])
    /\ status[c] = Absent <=> version[c] = 0

(* A consumer that reads the outbox rows of a case by ascending id replays its
   history: as many rows as versions, the same events as the timeline in the same
   order, each message starting where the one before ended and the last one
   ending in the current status.  Ids are drawn before the commit
   (case_repo.go:159), so this needs the row lock. *)
MessagesOf(c) == {m \in outbox : m.case = c}
Rank(m) == Cardinality({n \in MessagesOf(m.case) : n.id <= m.id})

OutboxTellsHistory ==
  \A c \in CaseId :
    /\ Cardinality(MessagesOf(c)) = version[c]
    /\ \A m \in MessagesOf(c) :
         /\ m.event = timeline[c][Rank(m)].event
         /\ Rank(m) = 1 => m.from = Absent
         /\ Rank(m) = version[c] => m.to = status[c]
         /\ \A n \in MessagesOf(c) : Rank(n) = Rank(m) + 1 => n.from = m.to

(* However often and however concurrently a client repeats an idempotency key,
   the calls that carry it take effect once between them (Guide section 5): two
   timeline rows never stem from one request or from two with the same key. *)
KeyedEffectOnce ==
  \A c, d \in CaseId : \A i \in DOMAIN timeline[c], j \in DOMAIN timeline[d] :
    <<c, i>> # <<d, j>> =>
      /\ Writer(c, i) # Writer(d, j)
      /\ http[Writer(c, i)].key = http[Writer(d, j)].key
           => http[Writer(c, i)].key = NoKey

(* An answer tells the truth: 200 carries the row and version that this request,
   or an earlier one with its key, wrote; a refused request left no trace.  After
   500 or a broken connection either may be the case. *)
AnswerTellsEffect ==
  \A r \in Request :
    /\ outcome[r].kind = "ok" =>
         LET row == outcome[r].row
         IN  /\ IsRow(row.case, row.version)
             /\ \/ Writer(row.case, row.version) = r
                \/ /\ ~TookEffect(r)
                   /\ HasKey(r)
                   /\ http[Writer(row.case, row.version)].key = http[r].key
    /\ outcome[r].kind \in {"illegal", "guard", "norows"} => ~TookEffect(r)

(* Optimistic concurrency: a transition that names a version writes exactly the
   next one, whatever the other requests do meanwhile (case_repo.go:124). *)
NoLostUpdate ==
  \A c \in CaseId : \A i \in DOMAIN timeline[c] :
    LET request == http[Writer(c, i)]
    IN  /\ request.op = "transition"
        /\ request.ifMatch.form = "number"
        /\ request.ifMatch.n # 0
        => i = request.ifMatch.n + 1

(* Every request that arrives is answered or sees its connection break: no lock,
   key or connection is waited for forever. *)
EveryRequestAnswered ==
  \A r \in Request : pc[r] # "idle" ~> pc[r] = "done"

(* orchestrator-test.md (line 26) says that a create with an Idempotency-Key answers
   with the new case, and a repetition of the key with the same result.  That needs
   a key that is registered once a keyed create was handled and nothing failed, but
   the column's type refuses the row that would register it (case_repo.go:85). *)
KeyedCreateRegistered ==
  \A r \in Request :
    http[r].op = "create" /\ http[r].key \in Key /\ pc[r] = "done" => Registered(http[r].key)

(* orchestrator-test.md says that an If-Match header that does not name the
   current version is answered with 412.  If-Match: 0 and the weak tag
   W/"<version>" that the Guide recommends both switch the check off. *)
StaleTagRefused ==
  \A c \in CaseId : \A i \in DOMAIN timeline[c] :
    LET request == http[Writer(c, i)]
    IN  request.op = "transition" /\ request.ifMatch.form # "absent"
          => i = request.ifMatch.n + 1

(* The Guide (sections 3 and 4) has the Gatekeeper approve a waiting case with
   PATCH gate_approved.  The handler never sets a fact of the Context, so the
   guard refuses every approval. *)
ApprovalAccepted ==
  \A r \in Request :
    http[r].op = "transition" /\ http[r].event = "gate_approved"
      => outcome[r].kind # "guard"

(* Every behaviour is one of the abstract ledger: calls are atomic, decided on
   the row they change, and refused for what the row said at that moment. *)
Ledger == INSTANCE CaseLedger WITH
            Accepts <- [r \in Request |-> {HttpArgs(request) : request \in Offer[r]}]

ImplementsLedger == Ledger!Spec

(* The publisher's listing relies on these writers: while the transaction that
   drew an id for a case is open no other draws one for that case, and a row
   appears at its commit or never (case_repo.go:124-184). *)
DrawnFor(c) == {tx[r].msg : r \in {q \in Request : tx[q].msg # 0 /\ tx[q].case = c}}

DrawnIds == [c \in CaseId |-> IF DrawnFor(c) = {} THEN 0 ELSE CHOOSE i \in DrawnFor(c) : TRUE]
RowCases == [i \in {m.id : m \in outbox} |-> (CHOOSE m \in outbox : m.id = i).case]

OutboxSide == INSTANCE OutboxWriters WITH
  MaxRows <- Cardinality(Request), caseOf <- RowCases, drawn <- DrawnIds

WritersAsAssumed == OutboxSide!WritersSpec
=============================================================================
