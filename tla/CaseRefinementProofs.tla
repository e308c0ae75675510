------------------------ MODULE CaseRefinementProofs ------------------------
(***************************************************************************)
(* CaseRepository implements the abstract CaseLedger and is what the       *)
(* publisher assumes of its writers, its answers tell the truth, and its   *)
(* outbox tells the history of every case: for every set of requests,      *)
(* cases, keys and offers, any pool size and any bound on crashes.         *)
(***************************************************************************)
EXTENDS CaseRepositoryProofs, FiniteSetTheorems

-----------------------------------------------------------------------------
(* What a request has decided still is the decision on the committed row, and a
   request has an outcome exactly when it has returned. *)

Edited(r) == pc[r] \in {"update"} \cup Writing

CreateDecided(r) ==
  /\ pc[r] = "insert_case" => tx[r] = OpenTx
  /\ pc[r] \in Writing =>
       /\ tx[r].case # UnknownId /\ status[tx[r].case] = Absent
       /\ tx[r].from = Absent /\ tx[r].to = "NEW" /\ tx[r].event = "case_created"
  /\ pc[r] \notin {"select", "update"}

MoveDecided(r) ==
  Edited(r) =>
    /\ tx[r].case = http[r].case /\ tx[r].event = http[r].event
    /\ status[tx[r].case] # Absent /\ tx[r].from = status[tx[r].case]
    /\ \E edge \in Decide(status[tx[r].case], http[r].event, HandlerContext) :
         edge.to = tx[r].to

Flight(r) ==
  /\ http[r] \in Offer[r]
  /\ outcome[r] = NoOutcome <=> pc[r] \notin Returned
  /\ pc[r] \in {"lookup", "idem"} => http[r].key \in Key
  /\ http[r].op = "create" => CreateDecided(r)
  /\ http[r].op = "transition" => MoveDecided(r)

(* A stored response is the row that a request with its key wrote. *)
RegistryTells ==
  \A k \in Key : registry[k] # NoRow =>
    LET row == registry[k]
    IN  IsRow(row.case, row.version) /\ http[Writer(row.case, row.version)].key = k

RInv == (\A r \in Request : Flight(r)) /\ RegistryTells /\ AnswerTellsEffect

(* The ids of the outbox: drawn once, and, for a case, after every row of the case
   that is visible. *)
Holds(r) == pc[r] \in {"idem", "commit"}

Ids ==
  /\ \A m \in outbox : m.id \in 1..(nextId - 1)
  /\ \A m, n \in outbox : m.id = n.id => m = n
  /\ \A r \in Request :
       IF Holds(r)
       THEN /\ tx[r].msg \in 1..(nextId - 1)
            /\ \A m \in outbox : m.id # tx[r].msg /\ (m.case = tx[r].case => m.id < tx[r].msg)
            /\ \A q \in Request \ {r} : Holds(q) => tx[q].msg # tx[r].msg
       ELSE tx[r].msg = 0

-----------------------------------------------------------------------------
(* Every step but a commit and a crash is quiet: it moves one request, and no
   committed row. *)

Quiet(r) ==
  /\ UNCHANGED <<committed, http>>
  /\ \A q \in Request \ {r} : tx'[q] = tx[q] /\ pc'[q] = pc[q] /\ outcome'[q] = outcome[q]
  /\ pc[r] \in Returned => pc'[r] \in Returned

Outcomes == {"illegal", "guard", "norows", "error", "lost"}

LEMMA OutcomesDiffer ==
  /\ \A row : Ok(row) # NoOutcome /\ Ok(row).kind = "ok" /\ Ok(row).row = row
  /\ \A kind \in Outcomes : Err(kind) # NoOutcome /\ Err(kind).kind = kind
BY DEF Ok, Err, NoOutcome, Outcomes

(* The request that a handler works on is the one that was received. *)
LEMMA CallIs ==
  ASSUME TypeOK, NEW r \in Request, pc[r] # "idle"
  PROVE  /\ call[r] = HttpArgs(http[r]) /\ http[r] \in HttpRequest
         /\ call[r].op = http[r].op /\ call[r].case = http[r].case
         /\ call[r].event = http[r].event /\ call[r].ctx = HandlerContext
         /\ call[r].key = http[r].key /\ http[r].op \in {"create", "transition"}
         /\ http[r].case \in CaseId /\ http[r].key \in Key \cup {NoKey}
         /\ HasKey(r) <=> http[r].key \in Key
<1>1. call[r] = HttpArgs(http[r]) /\ http[r] \in HttpRequest
  BY DEF TypeOK
<1> QED
  BY <1>1 DEF HttpArgs, HttpRequest, HasKey

LEMMA StepQuiet ==
  ASSUME TypeOK, NEW r \in Request, NEW t, NEW label, pc[r] \notin Returned, Step(r, t, label)
  PROVE  /\ Quiet(r) /\ tx'[r] = t /\ pc'[r] = label /\ outcome'[r] = outcome[r]
         /\ UNCHANGED <<status, version, http>>
  BY DEF Step, Goto, Quiet, TypeOK, committed

LEMMA RollbackQuiet ==
  ASSUME TypeOK, NEW r \in Request, NEW result, pc[r] \notin Returned,
         RollbackAndReturn(r, result)
  PROVE  /\ Quiet(r) /\ tx'[r] = NoTx /\ pc'[r] = "respond" /\ outcome'[r] = result
         /\ UNCHANGED <<status, version, http>>
  BY DEF RollbackAndReturn, EndTx, Return, Goto, Quiet, TypeOK, committed, Returned

(* What a request decided is kept by the steps of others, which do not change the
   status of its case. *)
LEMMA FlightKept ==
  ASSUME NEW q \in Request, Flight(q),
         tx'[q] = tx[q], pc'[q] = pc[q], outcome'[q] = outcome[q], http' = http,
         Edited(q) => status'[tx[q].case] = status[tx[q].case]
  PROVE  Flight(q)'
<1>1. http[q].op = "create" => CreateDecided(q)'
  BY DEF Flight, CreateDecided, Edited
<1>2. http[q].op = "transition" => MoveDecided(q)'
  BY DEF Flight, MoveDecided, Edited
<1> QED
  BY <1>1, <1>2 DEF Flight

(* Nothing is asked of a request that has returned, or has not begun. *)
LEMMA OutsideFlight ==
  ASSUME TypeOK, NEW r \in Request, Flight(r), http' = http,
         \/ pc'[r] \in Returned /\ outcome'[r] # NoOutcome
         \/ pc'[r] \in {"idle", "lookup", "begin"} /\ outcome'[r] = NoOutcome,
         pc'[r] = "lookup" => http[r].key \in Key
  PROVE  Flight(r)'
  BY DEF Flight, CreateDecided, MoveDecided, Edited, Returned, Writing

QuietFlight(r) == Quiet(r) /\ Flight(r)'

LEMMA ReturnedFlight ==
  ASSUME TypeOK, NEW r \in Request, Flight(r), NEW kind \in Outcomes, pc[r] \notin Returned,
         RollbackAndReturn(r, Err(kind))
  PROVE  QuietFlight(r)
<1>1. /\ Quiet(r) /\ pc'[r] = "respond" /\ outcome'[r] = Err(kind) /\ http' = http
  BY RollbackQuiet
<1>2. outcome'[r] # NoOutcome
  BY <1>1, OutcomesDiffer
<1> QED
  BY <1>1, <1>2, OutsideFlight DEF QuietFlight, Returned

(* Before the transaction, and after it. *)
LEMMA OutsideQuiet ==
  ASSUME IInv, RInv, NEW r \in Request,
         Receive(r) \/ LookupHit(r) \/ LookupMiss(r) \/ LookupError(r) \/ Respond(r)
  PROVE  QuietFlight(r)
<1> TypeOK /\ Flight(r)
  BY DEF IInv, RInv
<1>1. Quiet(r) /\ http' = http
  BY DEF Receive, LookupHit, LookupMiss, LookupError, Respond, Return, Goto, Quiet, TypeOK, Returned
<1>2. CASE Receive(r)
  <2>1. /\ pc'[r] \in {"lookup", "begin"} /\ outcome'[r] = NoOutcome
        /\ pc'[r] = "lookup" => http[r].key \in Key
    BY <1>2 DEF Receive, Goto, TypeOK, Flight, Returned
  <2> QED
    BY <1>1, <2>1, OutsideFlight DEF QuietFlight
<1>3. CASE LookupHit(r)
  <2>1. pc'[r] = "respond" /\ outcome'[r] = Ok(registry[call[r].key])
    BY <1>3 DEF LookupHit, Return, Goto, TypeOK
  <2> QED
    BY <1>1, <2>1, OutsideFlight, OutcomesDiffer DEF QuietFlight, Returned
<1>4. CASE LookupMiss(r) \/ LookupError(r)
  <2>1. pc'[r] = "begin" /\ outcome'[r] = NoOutcome
    BY <1>4 DEF LookupMiss, LookupError, Goto, TypeOK, Flight, Returned
  <2> QED
    BY <1>1, <2>1, OutsideFlight DEF QuietFlight
<1>5. CASE Respond(r)
  <2>1. pc'[r] = "done" /\ outcome'[r] # NoOutcome
    BY <1>5 DEF Respond, Goto, TypeOK, Flight, Returned
  <2> QED
    BY <1>1, <2>1, OutsideFlight DEF QuietFlight, Returned
<1> QED
  BY <1>2, <1>3, <1>4, <1>5

LEMMA BeginQuiet ==
  ASSUME IInv, RInv, NEW r \in Request, BeginTx(r)
  PROVE  QuietFlight(r)
<1> TypeOK /\ Flight(r) /\ pc[r] = "begin"
  BY DEF IInv, RInv, BeginTx
<1>1. /\ Quiet(r) /\ tx'[r] = OpenTx /\ outcome'[r] = outcome[r] /\ http' = http
      /\ pc'[r] = IF call[r].op = "create" THEN "insert_case" ELSE "select"
  BY StepQuiet DEF BeginTx, Returned
<1>2. call[r].op = http[r].op
  BY CallIs
<1>3. Flight(r)'
  BY <1>1, <1>2 DEF Flight, CreateDecided, MoveDecided, Edited, Writing, Returned
<1> QED
  BY <1>1, <1>3 DEF QuietFlight

LEMMA CreateQuiet ==
  ASSUME IInv, RInv, NEW r \in Request, CreateCase(r)
  PROVE  QuietFlight(r)
<1> TypeOK /\ Flight(r) /\ Local(r) /\ pc[r] = "insert_case"
  BY DEF IInv, RInv, CreateCase
<1>1. PICK c \in CaseId \ {UnknownId} :
        /\ status[c] = Absent
        /\ Step(r, [tx[r] EXCEPT !.case = c, !.to = "NEW", !.version = 1], "timeline")
  BY DEF CreateCase
<1>2. /\ Quiet(r) /\ tx'[r] = [tx[r] EXCEPT !.case = c, !.to = "NEW", !.version = 1]
      /\ pc'[r] = "timeline" /\ outcome'[r] = outcome[r] /\ UNCHANGED <<status, http>>
  BY <1>1, StepQuiet DEF Returned
<1>3. http[r].op = "create" /\ tx[r] = OpenTx
  BY DEF Local, VersionChecked, Flight, CreateDecided
<1>4. tx'[r].case = c /\ tx'[r].from = Absent /\ tx'[r].to = "NEW" /\ tx'[r].event = "case_created"
  BY <1>2, <1>3 DEF OpenTx, NoTx
<1>5. Flight(r)'
  BY <1>1, <1>2, <1>3, <1>4 DEF Flight, CreateDecided, Writing, Returned
<1> QED
  BY <1>2, <1>5 DEF QuietFlight

LEMMA SelectQuiet ==
  ASSUME IInv, RInv, NEW r \in Request, GetCaseForUpdate(r)
  PROVE  QuietFlight(r)
<1> DEFINE c == http[r].case
<1> TypeOK /\ Flight(r) /\ pc[r] = "select" /\ status[c] # Absent
  BY CallIs DEF IInv, RInv, GetCaseForUpdate, RowAvailable
<1>1. /\ call[r].case = c /\ call[r].event = http[r].event /\ call[r].ctx = HandlerContext
      /\ http[r].op \in {"create", "transition"}
  BY CallIs
<1>2. PICK edge \in Decide(status[c], http[r].event, HandlerContext) :
        Step(r, [tx[r] EXCEPT !.case = c, !.from = edge.from, !.to = edge.to,
                              !.version = version[c], !.event = edge.event], "update")
  BY <1>1 DEF GetCaseForUpdate
<1>3. /\ Quiet(r) /\ pc'[r] = "update" /\ outcome'[r] = outcome[r] /\ UNCHANGED <<status, http>>
      /\ tx'[r] = [tx[r] EXCEPT !.case = c, !.from = edge.from, !.to = edge.to,
                                !.version = version[c], !.event = edge.event]
  BY <1>2, StepQuiet DEF Returned
<1>4. tx[r] \in Tx /\ edge.from = status[c] /\ edge.event = http[r].event
  BY IntentType DEF TypeOK
<1>5. /\ tx'[r].case = c /\ tx'[r].from = status[c] /\ tx'[r].to = edge.to
      /\ tx'[r].event = http[r].event
  BY <1>3, <1>4 DEF Tx
<1>6. http[r].op = "transition"
  BY <1>1 DEF Flight, CreateDecided
<1>7. Flight(r)'
  BY <1>3, <1>5, <1>6 DEF Flight, MoveDecided, Edited, Returned
<1> QED
  BY <1>3, <1>7 DEF QuietFlight

(* The statements that write leave the decision as it is. *)
LEMMA WriteQuiet ==
  ASSUME IInv, RInv, NEW r \in Request, NEW t, NEW label \in {"timeline", "outbox", "idem", "commit"},
         pc[r] \in {"update", "timeline", "outbox", "idem"}, Step(r, t, label),
         t.case = tx[r].case, t.from = tx[r].from, t.to = tx[r].to, t.event = tx[r].event,
         label = "idem" => http[r].key \in Key
  PROVE  QuietFlight(r)
<1> TypeOK /\ Flight(r)
  BY DEF IInv, RInv
<1>1. /\ Quiet(r) /\ tx'[r] = t /\ pc'[r] = label /\ outcome'[r] = outcome[r]
      /\ UNCHANGED <<status, http>>
  BY StepQuiet DEF Returned
<1>2. Edited(r) /\ pc'[r] \in Writing
  BY <1>1 DEF Edited, Writing
<1>3. http[r].op = "create" => CreateDecided(r)'
  BY <1>1, <1>2 DEF Flight, CreateDecided, Writing
<1>4. http[r].op = "transition" => MoveDecided(r)'
  BY <1>1, <1>2 DEF Flight, MoveDecided
<1>5. outcome'[r] = NoOutcome /\ pc'[r] \notin Returned
  BY <1>1 DEF Flight, Returned
<1> QED
  BY <1>1, <1>3, <1>4, <1>5 DEF Flight, QuietFlight

LEMMA StatementsQuiet ==
  ASSUME IInv, RInv, NEW r \in Request,
         \/ UpdateCaseStatus(r) \/ InsertTimeline(r) \/ TimelineErrorIgnored(r)
         \/ InsertOutbox(r) \/ InsertIdempotency(r)
  PROVE  QuietFlight(r)
<1> TypeOK /\ Flight(r) /\ tx[r] \in Tx
  BY DEF IInv, RInv, TypeOK
<1>1. ASSUME NEW kind \in Outcomes, pc[r] \notin Returned, RollbackAndReturn(r, Err(kind))
      PROVE  QuietFlight(r)
  BY <1>1, ReturnedFlight
<1>2. CASE UpdateCaseStatus(r)
  <2>1. CASE version[tx[r].case] = tx[r].version
    BY <1>2, <2>1, WriteQuiet DEF UpdateCaseStatus, Tx
  <2>2. CASE version[tx[r].case] # tx[r].version
    BY <1>1, <1>2, <2>2 DEF UpdateCaseStatus, Returned, Outcomes
  <2> QED
    BY <2>1, <2>2
<1>3. CASE InsertTimeline(r)
  BY <1>3, WriteQuiet DEF InsertTimeline, Tx
<1>4. CASE TimelineErrorIgnored(r)
  BY <1>4, WriteQuiet DEF TimelineErrorIgnored, Tx
<1>5. CASE InsertOutbox(r)
  <2>1. CASE tx[r].aborted
    BY <1>1, <1>5, <2>1 DEF InsertOutbox, Returned, Outcomes
  <2>2. CASE ~tx[r].aborted
    <3>1. pc[r] = "outbox" /\ (HasKey(r) <=> http[r].key \in Key)
      BY <1>5, CallIs DEF InsertOutbox
    <3> QED
      BY <1>5, <2>2, <3>1, WriteQuiet DEF InsertOutbox, Tx
  <2> QED
    BY <2>1, <2>2
<1>6. CASE InsertIdempotency(r)
  <2>1. CASE RequestRejected \/ Registered(call[r].key)
    BY <1>1, <1>6, <2>1 DEF InsertIdempotency, Returned, Outcomes
  <2>2. CASE ~(RequestRejected \/ Registered(call[r].key))
    BY <1>6, <2>2, WriteQuiet DEF InsertIdempotency, Tx
  <2> QED
    BY <2>1, <2>2
<1> QED
  BY <1>2, <1>3, <1>4, <1>5, <1>6

LEMMA RefusalQuiet ==
  ASSUME IInv, RInv, NEW r \in Request,
         CaseNotFound(r) \/ VersionMismatch(r) \/ DecideRefuses(r) \/ DatabaseError(r)
  PROVE  QuietFlight(r)
<1>1. TypeOK /\ Flight(r) /\ pc[r] \notin Returned
  BY DEF IInv, RInv, CaseNotFound, VersionMismatch, DecideRefuses, DatabaseError, RowAvailable,
         Returned, InTx
<1>2. PICK kind \in Outcomes : RollbackAndReturn(r, Err(kind))
  BY DEF CaseNotFound, VersionMismatch, DecideRefuses, DatabaseError, Outcomes
<1> QED
  BY <1>1, <1>2, ReturnedFlight

(* The actions whose steps are quiet. *)
QuietAction(r) ==
  \/ Receive(r) \/ LookupHit(r) \/ LookupMiss(r) \/ LookupError(r) \/ Respond(r) \/ BeginTx(r)
  \/ CreateCase(r) \/ GetCaseForUpdate(r)
  \/ UpdateCaseStatus(r) \/ InsertTimeline(r) \/ TimelineErrorIgnored(r)
  \/ InsertOutbox(r) \/ InsertIdempotency(r)
  \/ CaseNotFound(r) \/ VersionMismatch(r) \/ DecideRefuses(r) \/ DatabaseError(r)

LEMMA NextActions ==
  Next <=> (\E r \in Request : QuietAction(r) \/ Commit(r)) \/ Crash \/ Quiescent
BY DEF Next, Handle, Fault, QuietAction

LEMMA ActionsQuiet ==
  ASSUME IInv, RInv, NEW r \in Request, QuietAction(r)
  PROVE  QuietFlight(r)
BY OutsideQuiet, BeginQuiet, CreateQuiet, SelectQuiet, StatementsQuiet, RefusalQuiet
   DEF QuietAction

LEMMA QuietKeepsFlights ==
  ASSUME RInv, NEW r \in Request, QuietFlight(r)
  PROVE  \A q \in Request : Flight(q)'
<1>1. UNCHANGED <<status, http>>
  BY DEF QuietFlight, Quiet, committed
<1>2. ASSUME NEW q \in Request \ {r} PROVE Flight(q)'
  BY <1>1, FlightKept DEF RInv, QuietFlight, Quiet
<1> QED
  BY <1>2 DEF QuietFlight

(* The commit changes the status of a case whose row nobody else holds. *)
LEMMA CommitKeepsFlights ==
  ASSUME IInv, RInv, NEW r \in Request, Commit(r)
  PROVE  \A q \in Request : Flight(q)'
<1> USE DEF IInv, RInv
<1>1. /\ http' = http /\ outcome'[r] # NoOutcome /\ pc'[r] = "respond" /\ pc[r] = "commit"
      /\ \A q \in Request \ {r} : /\ tx'[q] = tx[q] /\ pc'[q] = pc[q]
                                  /\ outcome'[q] = outcome[q]
  <2>1. /\ http' = http /\ pc'[r] = "respond" /\ pc[r] = "commit"
        /\ \A q \in Request \ {r} : tx'[q] = tx[q] /\ pc'[q] = pc[q]
    BY CommitRows DEF Commit
  <2>2. PICK result \in {Ok(CommittedRow(r)), Err("error")} :
          outcome' = [outcome EXCEPT ![r] = result]
    BY DEF Commit, Return
  <2>3. result # NoOutcome
    BY OutcomesDiffer DEF Outcomes
  <2> QED
    BY <2>1, <2>2, <2>3 DEF TypeOK
<1>2. Flight(r)'
  BY <1>1, OutsideFlight DEF Returned
<1>3. ASSUME NEW q \in Request \ {r} PROVE Flight(q)'
  <2>1. Local(q) /\ Local(r) /\ tx[q].case \in CaseId
    BY DEF TypeOK, Tx
  <2>2. Edited(q) => tx[q].case # tx[r].case
    BY <1>1, <2>1 DEF Edited, Local, RowHeld, Writing
  <2>3. Edited(q) => status'[tx[q].case] = status[tx[q].case]
    BY <2>1, <2>2, CommitRows
  <2> QED
    BY <1>1, <2>3, FlightKept
<1> QED
  BY <1>2, <1>3

LEMMA CrashKeepsFlights ==
  ASSUME IInv, RInv, Crash
  PROVE  \A q \in Request : Flight(q)'
<1> SUFFICES ASSUME NEW q \in Request PROVE Flight(q)'
  OBVIOUS
<1>1. TypeOK /\ Flight(q) /\ pc[q] \in PC /\ http' = http
  BY DEF IInv, RInv, TypeOK, Crash
<1>2. \/ pc'[q] = "done" /\ outcome'[q] # NoOutcome
      \/ pc'[q] = "idle" /\ outcome'[q] = NoOutcome
  <2>1. CASE Active(q)
    BY <2>1, OutcomesDiffer DEF Crash, Outcomes
  <2>2. CASE ~Active(q)
    <3>1. pc'[q] = pc[q] /\ outcome'[q] = outcome[q] /\ pc[q] \in {"idle", "done"}
      BY <2>2 DEF Crash, Active
    <3> QED
      BY <1>1, <3>1 DEF Flight, Returned
  <2> QED
    BY <2>1, <2>2
<1> QED
  BY <1>1, <1>2, OutsideFlight DEF Returned

-----------------------------------------------------------------------------
(* Answers: what an outcome says of the history stays true, because a history only
   grows, by a row of a request that had no outcome. *)

LEMMA NoEffectYet ==
  ASSUME IInv, NEW r \in Request, pc[r] \notin Returned
  PROVE  ~TookEffect(r)
BY DEF IInv, WriterDone, TookEffect

(* What the history says of q is the same before and after. *)
SameHistory(q) ==
  /\ \A c \in CaseId : \A i \in DOMAIN timeline[c] :
       i \in DOMAIN timeline'[c] /\ Writer(c, i)' = Writer(c, i)
  /\ ~TookEffect(q) => ~TookEffect(q)'

Tells(r) ==
  /\ outcome[r].kind = "ok" =>
       LET row == outcome[r].row
       IN  /\ IsRow(row.case, row.version)
           /\ \/ Writer(row.case, row.version) = r
              \/ /\ ~TookEffect(r)
                 /\ HasKey(r)
                 /\ http[Writer(row.case, row.version)].key = http[r].key
  /\ outcome[r].kind \in {"illegal", "guard", "norows"} => ~TookEffect(r)

LEMMA AnswersAreTells ==
  /\ AnswerTellsEffect <=> \A r \in Request : Tells(r)
  /\ AnswerTellsEffect' <=> \A r \in Request : Tells(r)'
BY DEF AnswerTellsEffect, Tells

LEMMA TellsKept ==
  ASSUME TypeOK, TypeOK', RInv, NEW q \in Request, Tells(q), SameHistory(q),
         outcome'[q] = outcome[q], http' = http, pc[q] \in Returned => pc'[q] \in Returned
  PROVE  Tells(q)'
<1>1. CASE outcome[q].kind = "ok"
  <2>1. pc[q] \in Returned /\ pc'[q] \in Returned
    BY <1>1 DEF RInv, Flight, NoOutcome
  <2>2. HasKey(q)' <=> HasKey(q)
    <3>1. HasKey(q) <=> http[q].key \in Key
      BY <2>1, CallIs DEF Returned
    <3>2. call'[q] = HttpArgs(http[q])
      BY <2>1 DEF TypeOK, Returned
    <3> QED
      BY <3>1, <3>2 DEF HasKey, HttpArgs
  <2>3. outcome[q].row.case \in CaseId
    BY DEF TypeOK, Outcome, Row
  <2> QED
    BY <1>1, <2>2, <2>3 DEF Tells, SameHistory, IsRow
<1>2. CASE outcome[q].kind # "ok"
  BY <1>2 DEF Tells, SameHistory
<1> QED
  BY <1>1, <1>2

LEMMA QuietOutcome ==
  ASSUME TypeOK, NEW r \in Request, QuietAction(r)
  PROVE  \/ outcome'[r] = outcome[r]
         \/ pc[r] \notin Returned /\ \E kind \in Outcomes : outcome'[r] = Err(kind)
         \/ LookupHit(r) /\ outcome'[r] = Ok(registry[call[r].key])
<1>1. ASSUME NEW kind \in Outcomes, pc[r] \notin Returned, RollbackAndReturn(r, Err(kind))
      PROVE  \E k \in Outcomes : outcome'[r] = Err(k)
  BY <1>1, RollbackQuiet
<1>2. ASSUME NEW t, NEW label, pc[r] \notin Returned, Step(r, t, label)
      PROVE  outcome'[r] = outcome[r]
  BY <1>2, StepQuiet
<1>3. CASE LookupHit(r)
  BY <1>3 DEF LookupHit, Return, TypeOK
<1>4. CASE Receive(r) \/ LookupMiss(r) \/ LookupError(r) \/ Respond(r)
  BY <1>4 DEF Receive, LookupMiss, LookupError, Respond
<1>5. CASE \/ BeginTx(r) \/ CreateCase(r) \/ GetCaseForUpdate(r)
           \/ InsertTimeline(r) \/ TimelineErrorIgnored(r)
  BY <1>2, <1>5 DEF BeginTx, CreateCase, GetCaseForUpdate, RowAvailable, InsertTimeline,
     TimelineErrorIgnored, Returned
<1>6. CASE UpdateCaseStatus(r) \/ InsertOutbox(r) \/ InsertIdempotency(r)
  BY <1>1, <1>2, <1>6 DEF UpdateCaseStatus, InsertOutbox, InsertIdempotency, Returned, Outcomes
<1>7. CASE CaseNotFound(r) \/ VersionMismatch(r) \/ DecideRefuses(r) \/ DatabaseError(r)
  <2>1. pc[r] \notin Returned
    BY <1>7 DEF CaseNotFound, VersionMismatch, DecideRefuses, DatabaseError, RowAvailable,
                Returned, InTx
  <2> QED
    BY <1>1, <1>7, <2>1 DEF CaseNotFound, VersionMismatch, DecideRefuses, DatabaseError, Outcomes
<1> QED
  BY <1>3, <1>4, <1>5, <1>6, <1>7 DEF QuietAction

LEMMA QuietKeepsAnswers ==
  ASSUME IInv, TypeOK', RInv, NEW r \in Request, QuietAction(r)
  PROVE  RegistryTells' /\ AnswerTellsEffect'
<1> TypeOK /\ QuietFlight(r)
  BY ActionsQuiet DEF IInv
<1>1. UNCHANGED <<timeline, registry, http>>
  BY DEF QuietFlight, Quiet, committed
<1>2. RegistryTells'
  BY <1>1 DEF RInv, RegistryTells, IsRow, Writer
<1>3. \A q \in Request : SameHistory(q) /\ (TookEffect(q)' <=> TookEffect(q))
  BY <1>1 DEF SameHistory, TookEffect, Writer
<1>4. \A q \in Request : Tells(q)
  BY AnswersAreTells DEF RInv
<1>5. ASSUME NEW q \in Request, q # r \/ outcome'[r] = outcome[r] PROVE Tells(q)'
  <2>1. outcome'[q] = outcome[q] /\ (pc[q] \in Returned => pc'[q] \in Returned)
    BY <1>5 DEF QuietFlight, Quiet
  <2> QED
    BY <1>1, <1>3, <1>4, <2>1, TellsKept
<1>6. CASE pc[r] \notin Returned /\ \E kind \in Outcomes : outcome'[r] = Err(kind)
  <2>1. ~TookEffect(r)' /\ outcome'[r].kind # "ok"
    BY <1>3, <1>6, NoEffectYet, OutcomesDiffer DEF Outcomes
  <2>2. Tells(r)'
    BY <2>1 DEF Tells
  <2> QED
    BY <1>2, <1>5, <2>2, AnswersAreTells
<1>7. CASE LookupHit(r) /\ outcome'[r] = Ok(registry[call[r].key])
  <2> DEFINE key == http[r].key
  <2>1. /\ pc[r] = "lookup" /\ pc'[r] = "respond" /\ call[r].key = key /\ call' = call
        /\ key \in Key /\ registry[key] # NoRow
    BY <1>7, CallIs DEF LookupHit, Return, Goto, Registered, TypeOK
  <2>2. outcome'[r].kind = "ok" /\ outcome'[r].row = registry[key]
    BY <1>7, <2>1, OutcomesDiffer
  <2>3. ~TookEffect(r)' /\ HasKey(r)'
    BY <1>3, <2>1, NoEffectYet DEF HasKey, Returned
  <2>4. /\ IsRow(registry[key].case, registry[key].version)'
        /\ http[Writer(registry[key].case, registry[key].version)].key = key
    BY <1>1, <2>1 DEF RInv, RegistryTells, IsRow
  <2>5. Tells(r)'
    BY <1>1, <2>2, <2>3, <2>4 DEF Tells, Writer
  <2> QED
    BY <1>2, <1>5, <2>5, AnswersAreTells
<1>8. CASE outcome'[r] = outcome[r]
  BY <1>2, <1>5, <1>8, AnswersAreTells
<1> QED
  BY <1>2, <1>6, <1>7, <1>8, QuietOutcome

(* The commit keeps every history and adds the row of r. *)
LEMMA CommitHistory ==
  ASSUME IInv, NEW r \in Request, Commit(r)
  PROVE  /\ \A c \in CaseId : \A i \in DOMAIN timeline[c] :
              i \in DOMAIN timeline'[c] /\ timeline'[c][i] = timeline[c][i]
         /\ tx[r].version \in DOMAIN timeline'[tx[r].case]
         /\ timeline'[tx[r].case][tx[r].version] = [actor |-> r, event |-> tx[r].event]
         /\ Len(timeline'[tx[r].case]) = tx[r].version
<1> DEFINE case == tx[r].case
           row == [actor |-> r, event |-> tx[r].event]
<1>1. /\ case \in CaseId /\ tx[r].version = version[case] + 1
      /\ timeline'[case] = Append(timeline[case], row)
      /\ \A c \in CaseId \ {case} : timeline'[c] = timeline[c]
  BY CommitRows
<1>2. timeline[case] \in Seq(TimelineRow) /\ version[case] = Len(timeline[case])
  BY <1>1 DEF IInv, TypeOK, VersionCountsTimeline
<1>3. /\ \A i \in DOMAIN timeline[case] : /\ i \in DOMAIN timeline'[case]
                                          /\ timeline'[case][i] = timeline[case][i]
      /\ tx[r].version \in DOMAIN timeline'[case] /\ timeline'[case][tx[r].version] = row
      /\ Len(timeline'[case]) = tx[r].version
  BY <1>1, <1>2
<1> QED
  BY <1>1, <1>3

LEMMA CommitKeepsAnswers ==
  ASSUME IInv, TypeOK', RInv, NEW r \in Request, Commit(r)
  PROVE  RegistryTells' /\ AnswerTellsEffect'
<1> PICK row : row = CommittedRow(r)
  OBVIOUS
<1> TypeOK /\ TypeOK' /\ Local(r) /\ pc[r] = "commit"
  BY DEF IInv, Commit
<1>1. /\ http' = http /\ call' = call /\ pc' = [pc EXCEPT ![r] = "respond"]
      /\ \E result \in {Ok(row), Err("error")} : outcome' = [outcome EXCEPT ![r] = result]
  BY DEF Commit, Return, Goto
<1>2. IsRow(row.case, row.version)' /\ Writer(row.case, row.version)' = r
  <2>1. row.case = tx[r].case /\ row.version = tx[r].version
    BY DEF CommittedRow
  <2>2. /\ tx[r].version \in DOMAIN timeline'[tx[r].case]
        /\ timeline'[tx[r].case][tx[r].version] = [actor |-> r, event |-> tx[r].event]
    BY CommitHistory
  <2>3. row.version \in DOMAIN timeline'[row.case] /\ timeline'[row.case][row.version].actor = r
    BY <2>1, <2>2
  <2> QED
    BY <2>3 DEF IsRow, Writer
<1>3. \A c \in CaseId : \A i \in DOMAIN timeline[c] :
        i \in DOMAIN timeline'[c] /\ Writer(c, i)' = Writer(c, i)
  BY CommitHistory DEF Writer
<1>4. RegistryTells'
  <2> SUFFICES ASSUME NEW k \in Key, NEW stored, stored = registry'[k], stored # NoRow
               PROVE  /\ IsRow(stored.case, stored.version)'
                      /\ http[Writer(stored.case, stored.version)'].key = k
    BY <1>1 DEF RegistryTells, IsRow, Writer
  <2>1. CASE keyLock[k] = r
    BY <1>2, <2>1, CommitKeys DEF Local, KeyOwned
  <2>2. CASE keyLock[k] # r
    <3>1. stored = registry[k]
      BY <2>2, CommitKeys
    <3>2. stored.case \in CaseId
      BY <3>1 DEF TypeOK, Row
    <3> QED
      BY <1>3, <3>1, <3>2 DEF RInv, RegistryTells, IsRow
  <2> QED
    BY <2>1, <2>2
<1>5. Tells(r)'
  <2>1. CASE outcome'[r] = Ok(row)
    BY <1>2, <2>1, OutcomesDiffer DEF Tells
  <2>2. CASE outcome'[r] = Err("error")
    <3>1. outcome'[r].kind = "error"
      BY <2>2, OutcomesDiffer DEF Outcomes
    <3> QED
      BY <3>1 DEF Tells
  <2> QED
    BY <1>1, <2>1, <2>2 DEF TypeOK
<1>6. ASSUME NEW q \in Request \ {r} PROVE Tells(q)'
  <2>1. SameHistory(q)
    BY <1>3, CommitNewRow DEF SameHistory, TookEffect
  <2>2. Tells(q) /\ outcome'[q] = outcome[q] /\ pc'[q] = pc[q]
    BY <1>1, AnswersAreTells DEF RInv, TypeOK
  <2> QED
    BY <1>1, <2>1, <2>2, TellsKept
<1> QED
  BY <1>4, <1>5, <1>6, AnswersAreTells

LEMMA CrashKeepsAnswers ==
  ASSUME IInv, TypeOK', RInv, Crash
  PROVE  RegistryTells' /\ AnswerTellsEffect'
<1>1. UNCHANGED <<timeline, registry, http>> /\ TypeOK
  BY DEF Crash, committed, IInv
<1>2. RegistryTells'
  BY <1>1 DEF RInv, RegistryTells, IsRow, Writer
<1>3. ASSUME NEW q \in Request PROVE Tells(q)'
  <2>1. SameHistory(q) /\ Tells(q)
    BY <1>1, AnswersAreTells DEF SameHistory, TookEffect, Writer, RInv
  <2>2. CASE outcome'[q] = outcome[q]
    <3>1. pc[q] \in Returned => pc'[q] \in Returned
      BY DEF Crash, Returned
    <3> QED
      BY <1>1, <2>1, <2>2, <3>1, TellsKept
  <2>3. CASE outcome'[q] = Err("lost")
    <3>1. outcome'[q].kind = "lost"
      BY <2>3, OutcomesDiffer DEF Outcomes
    <3> QED
      BY <3>1 DEF Tells
  <2> QED
    BY <2>2, <2>3 DEF Crash
<1> QED
  BY <1>2, <1>3, AnswersAreTells

LEMMA RInvInit == Init => RInv
<1> SUFFICES ASSUME Init PROVE RInv
  OBVIOUS
<1>1. \A r \in Request : pc[r] = "idle" /\ outcome[r] = NoOutcome /\ http[r] \in Offer[r]
  BY DEF Init
<1>2. \A r \in Request : Flight(r)
  BY <1>1 DEF Flight, CreateDecided, MoveDecided, Edited, Writing, Returned
<1>3. RegistryTells /\ AnswerTellsEffect
  BY <1>1 DEF Init, RegistryTells, AnswerTellsEffect, NoOutcome
<1> QED
  BY <1>2, <1>3 DEF RInv

LEMMA RInvNext == IInv /\ RInv /\ [Next]_vars => RInv'
<1> SUFFICES ASSUME IInv, RInv, [Next]_vars PROVE RInv'
  OBVIOUS
<1>0. TypeOK'
  BY TypeNext DEF IInv
<1>1. ASSUME NEW r \in Request, QuietAction(r) PROVE RInv'
  BY <1>0, <1>1, ActionsQuiet, QuietKeepsFlights, QuietKeepsAnswers DEF RInv
<1>2. ASSUME NEW r \in Request, Commit(r) PROVE RInv'
  BY <1>0, <1>2, CommitKeepsFlights, CommitKeepsAnswers DEF RInv
<1>3. CASE Crash
  BY <1>0, <1>3, CrashKeepsFlights, CrashKeepsAnswers DEF RInv
<1>4. CASE UNCHANGED vars
  <2>1. UNCHANGED <<status, timeline, registry, tx, pc, http, call, outcome>>
    BY <1>4 DEF vars
  <2>2. \A q \in Request : Flight(q)'
    BY <2>1, FlightKept DEF RInv
  <2>3. \A c, v : IsRow(c, v)' = IsRow(c, v) /\ Writer(c, v)' = Writer(c, v)
    BY <2>1 DEF IsRow, Writer
  <2>4. RegistryTells'
    BY <2>1, <2>3 DEF RInv, RegistryTells
  <2>5. \A r \in Request : (TookEffect(r)' <=> TookEffect(r)) /\ (HasKey(r)' <=> HasKey(r))
    BY <2>1 DEF TookEffect, HasKey, Writer
  <2>6. AnswerTellsEffect'
    BY <2>1, <2>3, <2>5 DEF RInv, AnswerTellsEffect
  <2> QED
    BY <2>2, <2>4, <2>6 DEF RInv
<1> QED
  BY <1>1, <1>2, <1>3, <1>4, NextActions DEF Quiescent

LEMMA RInvHolds == Spec => []RInv
BY RInvInit, RInvNext, Inductive, PTL DEF Spec

(* 200 carries the row that the request, or an earlier one with its key, wrote, and a
   refused request left no trace, however the requests interleave and whatever fails. *)
THEOREM AnswersTellTheirEffect == Spec => []AnswerTellsEffect
<1>1. RInv => AnswerTellsEffect
  BY DEF RInv
<1> QED
  BY RInvHolds, <1>1, PTL

-----------------------------------------------------------------------------
(* The refinement of the ledger.  Its vocabulary is ours. *)

LEMMA LedgerVocabulary ==
  /\ Ledger!NoOutcome = NoOutcome /\ Ledger!Absent = Absent /\ Ledger!NoRow = NoRow
  /\ \A row : Ledger!Ok(row) = Ok(row)
  /\ \A kind : Ledger!Err(kind) = Err(kind)
  /\ \A args, v : Ledger!Matches(args, v) <=> Matches(args, v)
BY DEF Ledger!NoOutcome, NoOutcome, Ledger!Absent, Absent, Ledger!NoRow, NoRow, Ledger!Ok, Ok,
       Ledger!Err, Err, Ledger!Matches, Matches

LEMMA LedgerDecides ==
  ASSUME NEW from, NEW event, NEW ctx
  PROVE  /\ Ledger!Decide(from, event, ctx) = Decide(from, event, ctx)
         /\ Ledger!ErrIllegal(from, event) <=> ErrIllegal(from, event)
         /\ Ledger!ErrGuard(from, event, ctx) <=> ErrGuard(from, event, ctx)
<1>1. Ledger!table = table
  BY DEF Ledger!table, table, Ledger!Moves, Moves, Ledger!FailureEvent, FailureEvent,
         Ledger!State, State
<1>2. Ledger!EdgesOf(from, event) = EdgesOf(from, event)
  BY <1>1 DEF Ledger!EdgesOf, EdgesOf
<1>3. \A edge : Ledger!guards(edge) = guards(edge)
  BY DEF Ledger!guards, guards, Ledger!Fact, Fact
<1> QED
  BY <1>2, <1>3 DEF Ledger!Decide, Decide, Ledger!ErrIllegal, ErrIllegal, Ledger!ErrGuard, ErrGuard

(* A call in the handler's hands is pending until it has an outcome. *)
LEMMA PendingWhen ==
  ASSUME TypeOK, NEW r \in Request
  PROVE  Ledger!Pending(r) <=> pc[r] # "idle" /\ outcome[r] = NoOutcome
<1>1. pc[r] # "idle" => call[r] \in Args
  <2> SUFFICES ASSUME pc[r] # "idle" PROVE call[r] \in Args
    OBVIOUS
  <2>1. call[r] = HttpArgs(http[r]) /\ http[r] \in HttpRequest
    BY CallIs
  <2>2. ParseIfMatch(http[r].ifMatch) \in Int
    BY <2>1 DEF HttpRequest, IfMatchHeader, ParseIfMatch
  <2> QED
    BY <2>1, <2>2 DEF HttpArgs, HttpRequest, Args, HandlerContext
<1>2. pc[r] = "idle" => call[r] = NoCall
  BY DEF TypeOK
<1> QED
  BY <1>1, <1>2, LedgerVocabulary, RepositoryAssumption DEF Ledger!Pending

LEMMA InHand ==
  ASSUME IInv, RInv, NEW r \in Request, pc[r] \notin Returned, pc[r] # "idle"
  PROVE  Ledger!Pending(r)
BY PendingWhen DEF IInv, RInv, Flight

LEMMA LedgerReturns ==
  ASSUME NEW r \in Request, NEW result, Return(r, result), UNCHANGED committed
  PROVE  Ledger!Return(r, result) /\ UNCHANGED Ledger!store
BY DEF Return, committed, Ledger!Return, Ledger!store

LEMMA LedgerStutters ==
  ASSUME UNCHANGED <<committed, call, outcome>>
  PROVE  UNCHANGED Ledger!vars
BY DEF committed, Ledger!vars

LEMMA LedgerFails ==
  ASSUME IInv, RInv, NEW r \in Request, pc[r] \notin Returned, pc[r] # "idle",
         RollbackAndReturn(r, Err("error"))
  PROVE  Ledger!Fail(r)
BY InHand, LedgerReturns, LedgerVocabulary DEF RollbackAndReturn, Ledger!Fail

(* Only a transition is refused, for what the row says at that moment. *)
LEMMA LedgerRefuses ==
  ASSUME IInv, RInv, NEW r \in Request,
         CaseNotFound(r) \/ VersionMismatch(r) \/ DecideRefuses(r)
  PROVE  Ledger!Refuse(r)
<1> DEFINE c == call[r].case
<1>1. pc[r] = "select"
  BY DEF CaseNotFound, VersionMismatch, DecideRefuses, RowAvailable
<1>2. Ledger!Pending(r) /\ call[r].op = "transition"
  <2>1. call[r].op = http[r].op /\ http[r].op \in {"create", "transition"} /\ Flight(r)
    BY <1>1, CallIs DEF IInv, RInv
  <2> QED
    BY <1>1, <2>1, InHand DEF Flight, CreateDecided, Returned
<1>3. ASSUME NEW kind, RollbackAndReturn(r, Err(kind))
      PROVE  Ledger!Return(r, Ledger!Err(kind)) /\ UNCHANGED Ledger!store
  BY <1>3, LedgerReturns, LedgerVocabulary DEF RollbackAndReturn
<1>4. CASE CaseNotFound(r)
  BY <1>2, <1>3, <1>4, LedgerVocabulary DEF CaseNotFound, Ledger!Refuse
<1>5. CASE VersionMismatch(r)
  BY <1>2, <1>3, <1>5, LedgerVocabulary DEF VersionMismatch, Ledger!Refuse
<1>6. CASE DecideRefuses(r)
  BY <1>2, <1>3, <1>6, LedgerVocabulary, LedgerDecides
     DEF DecideRefuses, RowAvailable, Ledger!Refuse
<1> QED
  BY <1>4, <1>5, <1>6

LEMMA LedgerReplays ==
  ASSUME IInv, RInv, NEW r \in Request, LookupHit(r)
  PROVE  Ledger!Replay(r)
<1>1. pc[r] = "lookup" /\ Ledger!Pending(r)
  BY InHand DEF LookupHit, Returned
<1>2. Ledger!Return(r, Ok(registry[call[r].key])) /\ UNCHANGED Ledger!store
  BY LedgerReturns DEF LookupHit
<1>3. Ledger!Registered(call[r].key)
  BY LedgerVocabulary DEF LookupHit, Registered, Ledger!Registered
<1> QED
  BY <1>1, <1>2, <1>3, LedgerVocabulary DEF Ledger!Replay

(* The commit is the atomic effect of the call. *)
LEMMA LedgerWrites ==
  ASSUME IInv, RInv, NEW r \in Request, Commit(r)
  PROVE  Ledger!Write(r, CommittedRow(r), tx[r].event)
<1> DEFINE row == CommittedRow(r)
           key == call[r].key
<1> TypeOK /\ Local(r) /\ pc[r] = "commit"
  BY DEF IInv, Commit
<1>1. row.case = tx[r].case /\ row.status = tx[r].to /\ row.version = tx[r].version /\ tx[r].entry
  BY DEF CommittedRow, Local, EntryWritten
<1>2. key = http[r].key /\ key \in Key \cup {NoKey}
  BY CallIs
<1>3. ~Ledger!Registered(key)
  BY <1>2, LedgerVocabulary DEF Local, KeyOwned, Ledger!Registered
<1>4. registry' = [k \in Key |-> IF k = key THEN row ELSE registry[k]]
  BY <1>2 DEF Commit, Local, KeyOwned
<1>5. /\ status' = [status EXCEPT ![row.case] = row.status]
      /\ version' = [version EXCEPT ![row.case] = row.version]
      /\ timeline' = [timeline EXCEPT ![row.case] =
                        Append(@, [actor |-> r, event |-> tx[r].event])]
  BY <1>1 DEF Commit
<1>6. \E result \in {Ledger!Ok(row), Ledger!Err("error")} : Ledger!Return(r, result)
  BY LedgerVocabulary DEF Commit, Return, Ledger!Return
<1> QED
  BY <1>3, <1>4, <1>5, <1>6 DEF Ledger!Write

LEMMA LedgerCommits ==
  ASSUME IInv, RInv, NEW r \in Request, Commit(r)
  PROVE  Ledger!Create(r) \/ Ledger!Move(r)
<1> TypeOK /\ Local(r) /\ Flight(r) /\ pc[r] = "commit"
  BY DEF IInv, RInv, Commit
<1>1. /\ call[r].op = http[r].op /\ call[r].case = http[r].case
      /\ call[r].event = http[r].event /\ call[r].ctx = HandlerContext
      /\ call[r] = HttpArgs(http[r]) /\ http[r].op \in {"create", "transition"}
      /\ Ledger!Pending(r)
  BY CallIs, InHand DEF Returned
<1>2. /\ Ledger!Write(r, CommittedRow(r), tx[r].event)
      /\ tx[r].case \in CaseId /\ tx[r].version = version[tx[r].case] + 1
  BY LedgerWrites, CommitRows
<1>3. CASE http[r].op = "create"
  <2>1. /\ tx[r].case # UnknownId /\ status[tx[r].case] = Absent
        /\ tx[r].to = "NEW" /\ tx[r].event = "case_created"
    BY <1>3 DEF Flight, CreateDecided, Writing
  <2>2. version[tx[r].case] = 0
    BY <1>2, <2>1 DEF IInv, VersionCountsTimeline
  <2>3. CommittedRow(r) = [case |-> tx[r].case, status |-> "NEW", version |-> 1]
    BY <1>2, <2>1, <2>2 DEF CommittedRow
  <2> QED
    BY <1>1, <1>2, <1>3, <2>1, <2>3, LedgerVocabulary DEF Ledger!Create
<1>4. CASE http[r].op = "transition"
  <2> DEFINE c == call[r].case
  <2>1. PICK edge \in Decide(status[c], call[r].event, call[r].ctx) : edge.to = tx[r].to
    BY <1>1, <1>4 DEF Flight, MoveDecided, Edited, Writing
  <2>2. tx[r].case = c /\ tx[r].event = call[r].event /\ status[c] # Absent
    BY <1>1, <1>4 DEF Flight, MoveDecided, Edited, Writing
  <2>3. Matches(call[r], version[c])
    <3>1. version[c] \in Nat /\ tx[r].version - 1 = version[c]
      BY <1>2, <2>2 DEF TypeOK
    <3> QED
      BY <1>1, <1>4, <3>1 DEF Local, VersionChecked, Writing
  <2>4. CommittedRow(r) = [case |-> c, status |-> edge.to, version |-> version[c] + 1]
    BY <1>2, <2>1, <2>2 DEF CommittedRow
  <2>5. Ledger!Write(r, [case |-> c, status |-> edge.to, version |-> version[c] + 1],
                     call[r].event)
    BY <1>2, <2>2, <2>4
  <2> QED
    BY <1>1, <1>4, <2>1, <2>2, <2>3, <2>5, LedgerVocabulary, LedgerDecides DEF Ledger!Move
<1> QED
  BY <1>1, <1>3, <1>4

LEMMA LedgerSubmits ==
  ASSUME IInv, RInv, NEW r \in Request, Receive(r)
  PROVE  Ledger!Submit(r)
<1> TypeOK /\ Flight(r) /\ pc[r] = "idle"
  BY DEF IInv, RInv, Receive
<1>1. call[r] = NoCall /\ http[r] \in Offer[r]
  BY DEF TypeOK, Flight
<1>2. HttpArgs(http[r]) \in {HttpArgs(request) : request \in Offer[r]}
  BY <1>1
<1>3. HttpArgs(http[r]).op = http[r].op /\ HttpArgs(http[r]).case = http[r].case
  BY DEF HttpArgs
<1> QED
  BY <1>1, <1>2, <1>3, LedgerVocabulary DEF Receive, Ledger!Submit, committed

LEMMA LedgerLoses ==
  ASSUME IInv, RInv, Crash
  PROVE  Ledger!Lose \/ UNCHANGED Ledger!vars
<1> TypeOK
  BY DEF IInv
<1>1. \A r \in Request : Active(r) /\ outcome[r] = NoOutcome <=> Ledger!Pending(r)
  <2> TAKE r \in Request
  <2>1. Flight(r)
    BY DEF RInv
  <2>2. Ledger!Pending(r) <=> pc[r] # "idle" /\ outcome[r] = NoOutcome
    BY PendingWhen
  <2> QED
    BY <2>1, <2>2 DEF Active, Flight, Returned
<1>2. outcome' = [r \in Request |-> IF Ledger!Pending(r) THEN Ledger!Err("lost") ELSE outcome[r]]
  BY <1>1, LedgerVocabulary DEF Crash
<1>3. UNCHANGED <<call, committed>>
  BY DEF Crash
<1>4. CASE \E r \in Request : Ledger!Pending(r)
  BY <1>2, <1>3, <1>4 DEF Ledger!Lose, Ledger!store, committed
<1>5. CASE ~\E r \in Request : Ledger!Pending(r)
  <2>1. outcome' = outcome
    BY <1>2, <1>5 DEF TypeOK
  <2> QED
    BY <1>3, <2>1, LedgerStutters
<1> QED
  BY <1>4, <1>5

LEMMA LedgerNext == IInv /\ RInv /\ [Next]_vars => [Ledger!Next]_(Ledger!vars)
<1> SUFFICES ASSUME IInv, RInv, [Next]_vars PROVE Ledger!Next \/ UNCHANGED Ledger!vars
  OBVIOUS
<1> TypeOK
  BY DEF IInv
<1>1. ASSUME NEW r \in Request,
             Receive(r) \/ LookupHit(r) \/ CaseNotFound(r) \/ VersionMismatch(r)
             \/ DecideRefuses(r) \/ Commit(r)
      PROVE  Ledger!Next
  BY <1>1, LedgerSubmits, LedgerReplays, LedgerRefuses, LedgerCommits DEF Ledger!Next
<1>2. ASSUME NEW r \in Request,
             LookupMiss(r) \/ LookupError(r) \/ Respond(r) \/ BeginTx(r) \/ CreateCase(r)
             \/ GetCaseForUpdate(r) \/ InsertTimeline(r) \/ TimelineErrorIgnored(r)
      PROVE  UNCHANGED Ledger!vars
  BY <1>2, LedgerStutters DEF LookupMiss, LookupError, Respond, BeginTx, CreateCase,
     GetCaseForUpdate, InsertTimeline, TimelineErrorIgnored, Step
<1>3. ASSUME NEW r \in Request,
             UpdateCaseStatus(r) \/ InsertOutbox(r) \/ InsertIdempotency(r) \/ DatabaseError(r)
      PROVE  Ledger!Next \/ UNCHANGED Ledger!vars
  <2>1. pc[r] \notin Returned /\ pc[r] # "idle"
    BY <1>3 DEF UpdateCaseStatus, InsertOutbox, InsertIdempotency, DatabaseError, Returned, InTx
  <2>2. ASSUME RollbackAndReturn(r, Err("error")) PROVE Ledger!Next
    BY <2>1, <2>2, LedgerFails DEF Ledger!Next
  <2>3. ASSUME NEW t, NEW label, Step(r, t, label) PROVE UNCHANGED Ledger!vars
    BY <2>3, LedgerStutters DEF Step
  <2>4. CASE UpdateCaseStatus(r)
    <3>1. version[tx[r].case] = tx[r].version
      BY <2>4 DEF UpdateCaseStatus, IInv, Local, RowHeld
    <3> QED
      BY <2>3, <2>4, <3>1 DEF UpdateCaseStatus
  <2> QED
    BY <1>3, <2>2, <2>3, <2>4 DEF InsertOutbox, InsertIdempotency, DatabaseError
<1>4. CASE Crash
  BY <1>4, LedgerLoses DEF Ledger!Next
<1>5. CASE UNCHANGED vars
  BY <1>5, LedgerStutters DEF vars, committed
<1> QED
  BY <1>1, <1>2, <1>3, <1>4, <1>5, NextActions DEF QuietAction, Quiescent

(* The interleaved statements of any number of requests, with locks, failing statements,
   lost confirmations and crashes, behave like calls that each take effect atomically, on
   the row they were decided on, or leave no trace. *)
THEOREM RepositoryImplementsLedger == Spec => ImplementsLedger
<1>1. Init => Ledger!Init
  BY LedgerVocabulary DEF Init, Ledger!Init
<1> QED
  BY <1>1, LedgerNext, Inductive, RInvHolds, PTL DEF Spec, ImplementsLedger, Ledger!Spec

-----------------------------------------------------------------------------
(* The ids of the outbox.  What a quiet step does to the id of its transaction:
   nothing, or it draws the next one, or it drops it with the transaction. *)

KeepsId(r) ==
  /\ tx'[r].msg = tx[r].msg /\ nextId' = nextId
  /\ Holds(r)' <=> Holds(r)
  /\ Holds(r) => tx'[r].case = tx[r].case

DrawsId(r) ==
  /\ pc[r] = "outbox" /\ Holds(r)'
  /\ tx'[r].msg = nextId /\ tx'[r].case = tx[r].case /\ nextId' = nextId + 1

DropsId(r) == tx'[r].msg = 0 /\ ~Holds(r)' /\ pc'[r] \in Returned /\ nextId' = nextId

LEMMA QuietIds ==
  ASSUME IInv, Ids, NEW r \in Request, QuietAction(r)
  PROVE  KeepsId(r) \/ DrawsId(r) \/ DropsId(r)
<1> TypeOK /\ tx[r] \in Tx /\ (~Holds(r) => tx[r].msg = 0)
  BY DEF IInv, TypeOK, Ids
<1>1. ASSUME NEW result, RollbackAndReturn(r, result) PROVE DropsId(r)
  BY <1>1 DEF RollbackAndReturn, EndTx, Return, Goto, DropsId, Holds, NoTx, Returned, TypeOK
<1>2. ASSUME NEW t, NEW label, Step(r, t, label)
      PROVE  tx'[r] = t /\ pc'[r] = label
  BY <1>2 DEF Step, Goto, TypeOK
<1>3. CASE Receive(r) \/ LookupHit(r) \/ LookupMiss(r) \/ LookupError(r) \/ Respond(r)
  BY <1>3 DEF Receive, LookupHit, LookupMiss, LookupError, Respond, Return, Goto, KeepsId, Holds,
     TypeOK
<1>4. CASE BeginTx(r)
  <2>1. tx'[r] = OpenTx /\ pc'[r] \in {"insert_case", "select"} /\ pc[r] = "begin" /\ nextId' = nextId
    BY <1>2, <1>4 DEF BeginTx
  <2> QED
    BY <2>1 DEF KeepsId, Holds, OpenTx, NoTx
<1>5. CASE CreateCase(r)
  <2>1. PICK c \in CaseId :
          Step(r, [tx[r] EXCEPT !.case = c, !.to = "NEW", !.version = 1], "timeline")
    BY <1>5 DEF CreateCase
  <2>2. /\ tx'[r] = [tx[r] EXCEPT !.case = c, !.to = "NEW", !.version = 1]
        /\ pc'[r] = "timeline" /\ pc[r] = "insert_case" /\ nextId' = nextId
    BY <1>2, <1>5, <2>1 DEF CreateCase
  <2> QED
    BY <2>2 DEF KeepsId, Holds, Tx
<1>6. CASE GetCaseForUpdate(r)
  <2>1. PICK edge :
          Step(r, [tx[r] EXCEPT !.case = call[r].case, !.from = edge.from, !.to = edge.to,
                                !.version = version[call[r].case], !.event = edge.event],
               "update")
    BY <1>6 DEF GetCaseForUpdate
  <2>2. /\ tx'[r] = [tx[r] EXCEPT !.case = call[r].case, !.from = edge.from, !.to = edge.to,
                                  !.version = version[call[r].case], !.event = edge.event]
        /\ pc'[r] = "update" /\ pc[r] = "select" /\ nextId' = nextId
    BY <1>2, <1>6, <2>1 DEF GetCaseForUpdate, RowAvailable
  <2> QED
    BY <2>2 DEF KeepsId, Holds, Tx
<1>7. CASE InsertTimeline(r) \/ TimelineErrorIgnored(r)
  BY <1>2, <1>7 DEF InsertTimeline, TimelineErrorIgnored, KeepsId, Holds, Tx
<1>8. CASE UpdateCaseStatus(r)
  <2>1. CASE version[tx[r].case] = tx[r].version
    BY <1>2, <1>8, <2>1 DEF UpdateCaseStatus, KeepsId, Holds, Tx
  <2> QED
    BY <1>1, <1>8, <2>1 DEF UpdateCaseStatus
<1>9. CASE InsertOutbox(r)
  <2>1. CASE tx[r].aborted
    BY <1>1, <1>9, <2>1 DEF InsertOutbox
  <2>2. CASE ~tx[r].aborted
    <3>1. /\ pc[r] = "outbox" /\ nextId' = nextId + 1
          /\ Step(r, [tx[r] EXCEPT !.msg = nextId], IF HasKey(r) THEN "idem" ELSE "commit")
      BY <1>9, <2>2 DEF InsertOutbox
    <3>2. tx'[r] = [tx[r] EXCEPT !.msg = nextId] /\ pc'[r] \in {"idem", "commit"}
      BY <1>2, <3>1
    <3> QED
      BY <3>1, <3>2 DEF DrawsId, Holds, Tx
  <2> QED
    BY <2>1, <2>2
<1>10. CASE InsertIdempotency(r)
  <2>1. CASE RequestRejected \/ Registered(call[r].key)
    BY <1>1, <1>10, <2>1 DEF InsertIdempotency
  <2>2. CASE ~(RequestRejected \/ Registered(call[r].key))
    BY <1>2, <1>10, <2>2 DEF InsertIdempotency, KeepsId, Holds
  <2> QED
    BY <2>1, <2>2
<1>11. CASE CaseNotFound(r) \/ VersionMismatch(r) \/ DecideRefuses(r) \/ DatabaseError(r)
  BY <1>1, <1>11 DEF CaseNotFound, VersionMismatch, DecideRefuses, DatabaseError
<1> QED
  BY <1>3, <1>4, <1>5, <1>6, <1>7, <1>8, <1>9, <1>10, <1>11 DEF QuietAction

LEMMA QuietKeepsIds ==
  ASSUME IInv, RInv, Ids, NEW r \in Request, QuietAction(r)
  PROVE  Ids'
<1> nextId \in Nat \ {0}
  BY DEF IInv, TypeOK
<1>1. /\ outbox' = outbox
      /\ \A q \in Request \ {r} : tx'[q] = tx[q] /\ (Holds(q)' <=> Holds(q))
  BY ActionsQuiet DEF QuietFlight, Quiet, committed, Holds
<1>2. CASE KeepsId(r) \/ DropsId(r)
  BY <1>1, <1>2 DEF Ids, KeepsId, DropsId
<1>3. CASE DrawsId(r)
  <2>1. /\ Holds(r)' /\ tx'[r].msg = nextId /\ nextId' = nextId + 1
        /\ \A m \in outbox : m.id \in 1..(nextId - 1)
        /\ \A q \in Request \ {r} : Holds(q) => tx[q].msg \in 1..(nextId - 1)
    BY <1>3 DEF DrawsId, Ids
  <2>2. \A q \in Request \ {r} :
          IF Holds(q)'
          THEN /\ tx'[q].msg \in 1..(nextId' - 1)
               /\ \A m \in outbox' : m.id # tx'[q].msg /\ (m.case = tx'[q].case => m.id < tx'[q].msg)
               /\ \A p \in Request \ {q} : Holds(p)' => tx'[p].msg # tx'[q].msg
          ELSE tx'[q].msg = 0
    BY <1>1, <2>1 DEF Ids
  <2>3. /\ tx'[r].msg \in 1..(nextId' - 1)
        /\ \A m \in outbox' : m.id # tx'[r].msg /\ m.id < tx'[r].msg
        /\ \A p \in Request \ {r} : Holds(p)' => tx'[p].msg # tx'[r].msg
    BY <1>1, <2>1
  <2>4. \A m \in outbox' : m.id \in 1..(nextId' - 1)
    BY <1>1, <2>1
  <2> QED
    BY <1>1, <2>1, <2>2, <2>3, <2>4 DEF Ids
<1> QED
  BY <1>2, <1>3, QuietIds

(* The row lock: a request that holds an id is alone with its case. *)
LEMMA HolderAlone ==
  ASSUME IInv, NEW r \in Request, NEW q \in Request,
         Holds(r), Edited(q), tx[q].case = tx[r].case
  PROVE  q = r
BY DEF IInv, Local, RowHeld, Holds, Edited, Writing

CommittedMessage(r) ==
  [id |-> tx[r].msg, case |-> tx[r].case, from |-> tx[r].from, to |-> tx[r].to,
   event |-> tx[r].event]

LEMMA CommitKeepsIds ==
  ASSUME IInv, RInv, Ids, NEW r \in Request, Commit(r)
  PROVE  Ids' /\ tx'[r].msg = 0
<1> nextId \in Nat \ {0} /\ Holds(r) /\ nextId' = nextId
  BY DEF IInv, TypeOK, Commit, Holds
<1> DEFINE new == CommittedMessage(r)
<1>1. /\ outbox' = outbox \cup {new} /\ tx'[r].msg = 0 /\ ~Holds(r)'
      /\ \A q \in Request \ {r} : tx'[q] = tx[q] /\ (Holds(q)' <=> Holds(q))
  <2>1. tx' = [tx EXCEPT ![r] = NoTx] /\ outbox' = outbox \cup {new}
    BY DEF Commit, EndTx, CommittedMessage
  <2>2. pc'[r] = "respond" /\ \A q \in Request \ {r} : tx'[q] = tx[q] /\ pc'[q] = pc[q]
    BY CommitRows
  <2> QED
    BY <2>1, <2>2 DEF Holds, NoTx, IInv, TypeOK
<1>2. new.id = tx[r].msg /\ new.case = tx[r].case
  BY DEF CommittedMessage
<1> HIDE DEF new
<1>3. /\ new.id \in 1..(nextId - 1) /\ \A m \in outbox : m.id # new.id
      /\ \A q \in Request \ {r} : Holds(q) => tx[q].msg # new.id /\ tx[q].case # new.case
  BY <1>2, HolderAlone DEF Ids, Holds, Edited, Writing
<1>4. \A q \in Request \ {r} :
        IF Holds(q)'
        THEN /\ tx'[q].msg \in 1..(nextId' - 1)
             /\ \A m \in outbox' : m.id # tx'[q].msg /\ (m.case = tx'[q].case => m.id < tx'[q].msg)
             /\ \A p \in Request \ {q} : Holds(p)' => tx'[p].msg # tx'[q].msg
        ELSE tx'[q].msg = 0
  BY <1>1, <1>3 DEF Ids
<1>5. /\ \A m \in outbox' : m.id \in 1..(nextId' - 1)
      /\ \A m, n \in outbox' : m.id = n.id => m = n
  BY <1>1, <1>3 DEF Ids
<1> QED
  BY <1>1, <1>4, <1>5 DEF Ids

LEMMA CrashKeepsIds ==
  ASSUME Ids, Crash
  PROVE  Ids' /\ \A q \in Request : ~Holds(q)' /\ tx'[q].msg = 0
<1>1. \A q \in Request : ~Holds(q)' /\ tx'[q].msg = 0
  BY DEF Crash, Holds, Active, NoTx
<1>2. UNCHANGED <<outbox, nextId>>
  BY DEF Crash, committed
<1> QED
  BY <1>1, <1>2 DEF Ids

-----------------------------------------------------------------------------
(* The messages of a case, counted.  A commit adds one behind all the others. *)

Counted ==
  /\ \A c \in CaseId : IsFiniteSet(MessagesOf(c))
  /\ OutboxTellsHistory

HInv == Ids /\ Counted

LEMMA RankType ==
  ASSUME NEW c \in CaseId, IsFiniteSet(MessagesOf(c)), outbox \in SUBSET OutboxRow,
         NEW m \in MessagesOf(c)
  PROVE  Rank(m) \in 1..Cardinality(MessagesOf(c))
<1> DEFINE upTo == {n \in MessagesOf(c) : n.id <= m.id}
<1>1. m.case = c /\ m.id \in Nat
  BY DEF MessagesOf, OutboxRow
<1>2. Rank(m) = Cardinality(upTo)
  BY <1>1 DEF Rank
<1>3. IsFiniteSet(upTo) /\ Cardinality(upTo) <= Cardinality(MessagesOf(c))
  BY FS_Subset
<1>4. Cardinality(upTo) # 0
  <2>1. m \in upTo
    BY <1>1
  <2> QED
    BY <1>3, <2>1, FS_EmptySet
<1>5. Cardinality(upTo) \in Nat /\ Cardinality(MessagesOf(c)) \in Nat
  BY <1>3, FS_CardinalityType
<1> QED
  BY <1>2, <1>3, <1>4, <1>5

LEMMA CommitMessages ==
  ASSUME IInv, RInv, HInv, NEW r \in Request, Commit(r), NEW new, new = CommittedMessage(r),
         NEW case, case = tx[r].case
  PROVE  /\ MessagesOf(case)' = MessagesOf(case) \cup {new} /\ new \notin MessagesOf(case)
         /\ IsFiniteSet(MessagesOf(case)')
         /\ Cardinality(MessagesOf(case)') = version[case] + 1
         /\ Rank(new)' = version[case] + 1
         /\ \A m \in MessagesOf(case) : Rank(m)' = Rank(m) /\ Rank(m) \in 1..version[case]
         /\ \A c \in CaseId \ {case} : /\ MessagesOf(c)' = MessagesOf(c)
                                       /\ \A m \in MessagesOf(c) : Rank(m)' = Rank(m)
<1>1. /\ outbox' = outbox \cup {new} /\ new.id = tx[r].msg /\ new.case = case
      /\ case \in CaseId /\ Holds(r) /\ outbox \in SUBSET OutboxRow /\ tx[r].msg \in Nat
  BY DEF Commit, CommittedMessage, IInv, TypeOK, Tx, Holds
<1>2. \A m \in MessagesOf(case) : m.id < new.id /\ m.case = case /\ m.id \in Nat
  BY <1>1 DEF HInv, Ids, MessagesOf, OutboxRow
<1>3. /\ MessagesOf(case)' = MessagesOf(case) \cup {new}
      /\ \A c \in CaseId \ {case} : MessagesOf(c)' = MessagesOf(c)
  BY <1>1 DEF MessagesOf
<1>4. new \notin MessagesOf(case)
  BY <1>1, <1>2
<1>5. IsFiniteSet(MessagesOf(case)) /\ Cardinality(MessagesOf(case)) = version[case]
  BY <1>1 DEF HInv, Counted, OutboxTellsHistory
<1>6. /\ IsFiniteSet(MessagesOf(case)')
      /\ Cardinality(MessagesOf(case)') = version[case] + 1
  BY <1>3, <1>4, <1>5, FS_AddElement
<1>7. Rank(new)' = version[case] + 1
  <2>1. {n \in MessagesOf(case)' : n.id <= new.id} = MessagesOf(case)'
    BY <1>1, <1>2, <1>3
  <2>2. Rank(new)' = Cardinality({n \in MessagesOf(case)' : n.id <= new.id})
    BY <1>1 DEF Rank
  <2> QED
    BY <1>6, <2>1, <2>2
<1>8. ASSUME NEW m \in MessagesOf(case) PROVE Rank(m)' = Rank(m)
  <2>1. {n \in MessagesOf(case)' : n.id <= m.id} = {n \in MessagesOf(case) : n.id <= m.id}
    BY <1>1, <1>2, <1>3
  <2> QED
    BY <1>2, <2>1 DEF Rank
<1>9. ASSUME NEW m \in MessagesOf(case) PROVE Rank(m) \in 1..version[case]
  BY <1>1, <1>5, RankType
<1>10. ASSUME NEW c \in CaseId \ {case}, NEW m \in MessagesOf(c) PROVE Rank(m)' = Rank(m)
  <2>1. m.case = c
    BY DEF MessagesOf
  <2> QED
    BY <1>3, <2>1 DEF Rank
<1> QED
  BY <1>3, <1>4, <1>6, <1>7, <1>8, <1>9, <1>10

(* What the outbox says of one case. *)
Told(c) ==
  /\ Cardinality(MessagesOf(c)) = version[c]
  /\ \A m \in MessagesOf(c) :
       /\ m.event = timeline[c][Rank(m)].event
       /\ Rank(m) = 1 => m.from = Absent
       /\ Rank(m) = version[c] => m.to = status[c]
       /\ \A n \in MessagesOf(c) : Rank(n) = Rank(m) + 1 => n.from = m.to

LEMMA CountedIs == Counted <=> \A c \in CaseId : IsFiniteSet(MessagesOf(c)) /\ Told(c)
BY DEF Counted, OutboxTellsHistory, Told

LEMMA ToldKept ==
  ASSUME NEW c \in CaseId, Told(c), MessagesOf(c)' = MessagesOf(c),
         \A m \in MessagesOf(c) : Rank(m)' = Rank(m),
         version'[c] = version[c], status'[c] = status[c], timeline'[c] = timeline[c]
  PROVE  Told(c)'
BY DEF Told

(* The message that a transaction is about to commit starts where the case is. *)
LEMMA StartsAtStatus ==
  ASSUME IInv, RInv, NEW r \in Request, pc[r] = "commit"
  PROVE  tx[r].from = status[tx[r].case]
<1>1. Flight(r) /\ http[r].op \in {"create", "transition"}
  BY CallIs DEF IInv, RInv
<1> QED
  BY <1>1 DEF Flight, CreateDecided, MoveDecided, Edited, Writing

LEMMA CommitTells ==
  ASSUME IInv, RInv, HInv, NEW r \in Request, Commit(r)
  PROVE  Counted'
<1> PICK new : new = CommittedMessage(r)
  OBVIOUS
<1> PICK case : case = tx[r].case
  OBVIOUS
<1> PICK v : v = version[case]
  OBVIOUS
<1>1. /\ MessagesOf(case)' = MessagesOf(case) \cup {new} /\ new \notin MessagesOf(case)
      /\ IsFiniteSet(MessagesOf(case)') /\ Cardinality(MessagesOf(case)') = v + 1
      /\ Rank(new)' = v + 1
      /\ \A m \in MessagesOf(case) : Rank(m)' = Rank(m) /\ Rank(m) \in 1..v
      /\ \A c \in CaseId \ {case} : /\ MessagesOf(c)' = MessagesOf(c)
                                    /\ \A m \in MessagesOf(c) : Rank(m)' = Rank(m)
  BY CommitMessages
<1>2. /\ case \in CaseId /\ version'[case] = v + 1 /\ status'[case] = tx[r].to
      /\ timeline'[case] = Append(timeline[case], [actor |-> r, event |-> tx[r].event])
      /\ \A c \in CaseId \ {case} :
           version'[c] = version[c] /\ status'[c] = status[c] /\ timeline'[c] = timeline[c]
  BY CommitRows
<1>3. /\ v \in Nat /\ Len(timeline[case]) = v /\ timeline[case] \in Seq(TimelineRow)
      /\ status[case] = Absent <=> v = 0
  BY <1>2 DEF IInv, TypeOK, VersionCountsTimeline
<1>4. /\ new.from = status[case] /\ new.to = status'[case] /\ new.event = tx[r].event
  BY <1>2, StartsAtStatus DEF Commit, CommittedMessage
<1>5. Told(case)
  BY <1>2, CountedIs DEF HInv
<1>6. ASSUME NEW c \in CaseId \ {case} PROVE IsFiniteSet(MessagesOf(c)') /\ Told(c)'
  BY <1>1, <1>2, <1>6, ToldKept, CountedIs DEF HInv
<1>7. /\ timeline'[case][v + 1] = [actor |-> r, event |-> tx[r].event]
      /\ \A i \in 1..v : timeline'[case][i] = timeline[case][i]
  BY <1>2, <1>3
<1>8. Told(case)'
  <2>1. ASSUME NEW m \in MessagesOf(case)'
        PROVE  /\ m.event = timeline'[case][Rank(m)'].event
               /\ Rank(m)' = 1 => m.from = Absent
               /\ Rank(m)' = version'[case] => m.to = status'[case]
               /\ \A n \in MessagesOf(case)' : Rank(n)' = Rank(m)' + 1 => n.from = m.to
    <3>1. CASE m = new
      <4>1. \A n \in MessagesOf(case)' : Rank(n)' # v + 2
        BY <1>1, <1>3
      <4>2. Rank(m)' = v + 1
        BY <1>1, <3>1
      <4>3. new.event = timeline'[case][v + 1].event
        BY <1>4, <1>7
      <4>4. v + 1 = 1 => new.from = Absent
        BY <1>3, <1>4
      <4> QED
        BY <1>3, <1>4, <3>1, <4>1, <4>2, <4>3, <4>4
    <3>2. CASE m \in MessagesOf(case)
      <4>1. Rank(m)' = Rank(m) /\ Rank(m) \in 1..v
        BY <1>1, <3>2
      <4>2. /\ m.event = timeline[case][Rank(m)].event
            /\ Rank(m) = 1 => m.from = Absent
            /\ Rank(m) = v => m.to = status[case]
            /\ \A n \in MessagesOf(case) : Rank(n) = Rank(m) + 1 => n.from = m.to
        BY <1>5, <3>2 DEF Told
      <4>3. \A n \in MessagesOf(case)' : Rank(n)' = Rank(m)' + 1 => n.from = m.to
        <5> SUFFICES ASSUME NEW n \in MessagesOf(case)', Rank(n)' = Rank(m)' + 1
                     PROVE  n.from = m.to
          OBVIOUS
        <5>1. CASE n = new
          BY <1>1, <1>3, <1>4, <4>1, <4>2, <5>1
        <5>2. CASE n \in MessagesOf(case)
          BY <1>1, <4>1, <4>2, <5>2
        <5> QED
          BY <1>1, <5>1, <5>2
      <4> QED
        BY <1>2, <1>3, <1>7, <4>1, <4>2, <4>3
    <3> QED
      BY <1>1, <3>1, <3>2
  <2> QED
    BY <1>1, <1>2, <2>1 DEF Told
<1>9. \A c \in CaseId : IsFiniteSet(MessagesOf(c)') /\ Told(c)'
  BY <1>1, <1>6, <1>8
<1> QED
  BY <1>9 DEF Counted, OutboxTellsHistory, Told

LEMMA HistoryKept ==
  ASSUME Counted, UNCHANGED <<outbox, status, version, timeline>>
  PROVE  Counted'
BY DEF Counted, OutboxTellsHistory, MessagesOf, Rank

LEMMA HInvInit == Init => HInv
<1> SUFFICES ASSUME Init PROVE HInv
  OBVIOUS
<1>1. outbox = {} /\ nextId = 1 /\ \A r \in Request : pc[r] = "idle" /\ tx[r] = NoTx
  BY DEF Init
<1>2. Ids
  BY <1>1 DEF Ids, Holds, NoTx
<1>3. \A c \in CaseId : MessagesOf(c) = {} /\ version[c] = 0
  BY DEF Init, MessagesOf
<1>4. Counted
  BY <1>3, FS_EmptySet DEF Counted, OutboxTellsHistory
<1> QED
  BY <1>2, <1>4 DEF HInv

LEMMA HInvNext == IInv /\ RInv /\ HInv /\ [Next]_vars => HInv'
<1> SUFFICES ASSUME IInv, RInv, HInv, [Next]_vars PROVE HInv'
  OBVIOUS
<1>1. ASSUME NEW r \in Request, QuietAction(r) PROVE HInv'
  <2>1. UNCHANGED <<outbox, status, version, timeline>>
    BY <1>1, ActionsQuiet DEF QuietFlight, Quiet, committed
  <2> QED
    BY <1>1, <2>1, QuietKeepsIds, HistoryKept DEF HInv
<1>2. ASSUME NEW r \in Request, Commit(r) PROVE HInv'
  BY <1>2, CommitKeepsIds, CommitTells DEF HInv
<1>3. CASE Crash
  <2>1. UNCHANGED <<outbox, status, version, timeline>>
    BY <1>3 DEF Crash, committed
  <2> QED
    BY <1>3, <2>1, CrashKeepsIds, HistoryKept DEF HInv
<1>4. CASE UNCHANGED vars
  <2>1. UNCHANGED <<outbox, status, version, timeline, nextId, tx, pc>>
    BY <1>4 DEF vars
  <2>2. Ids'
    BY <2>1 DEF HInv, Ids, Holds
  <2> QED
    BY <2>1, <2>2, HistoryKept DEF HInv
<1> QED
  BY <1>1, <1>2, <1>3, <1>4, NextActions DEF Quiescent

LEMMA HInvHolds == Spec => []HInv
BY HInvInit, HInvNext, Inductive, RInvHolds, PTL DEF Spec

(* A reader of the outbox who takes the rows of a case by ascending id replays the
   history of the case: one row per version, the timeline's events in their order, each
   row starting where the one before ended and the last one ending in the status.  Ids
   are drawn before the commit, so it is the row lock that keeps them in order. *)
THEOREM OutboxTellsTheHistory == Spec => []OutboxTellsHistory
<1>1. HInv => OutboxTellsHistory
  BY DEF HInv, Counted
<1> QED
  BY HInvHolds, <1>1, PTL

-----------------------------------------------------------------------------
(* The refinement of OutboxWriters.  The transaction that holds an id is the one the
   abstract writers know for its case. *)

DrawnRight ==
  \A c \in CaseId :
    /\ \A r \in Request : Holds(r) /\ tx[r].case = c => DrawnIds[c] = tx[r].msg
    /\ (\A r \in Request : Holds(r) => tx[r].case # c) => DrawnIds[c] = 0

RowsRight ==
  /\ DOMAIN RowCases = {m.id : m \in outbox}
  /\ \A m \in outbox : RowCases[m.id] = m.case

LEMMA DrawnIs == IInv /\ Ids => DrawnRight
<1> SUFFICES ASSUME IInv, Ids, NEW c \in CaseId
             PROVE  /\ \A r \in Request : Holds(r) /\ tx[r].case = c => DrawnIds[c] = tx[r].msg
                    /\ (\A r \in Request : Holds(r) => tx[r].case # c) => DrawnIds[c] = 0
  BY DEF DrawnRight
<1>1. \A q \in Request : Holds(q) <=> tx[q].msg # 0
  BY DEF Ids, IInv, TypeOK
<1>2. DrawnIds[c] = IF DrawnFor(c) = {} THEN 0 ELSE CHOOSE i \in DrawnFor(c) : TRUE
  BY DEF DrawnIds
<1>3. ASSUME NEW r \in Request, Holds(r), tx[r].case = c PROVE DrawnIds[c] = tx[r].msg
  <2>1. \A q \in Request : Holds(q) /\ tx[q].case = c => q = r
    BY <1>3, HolderAlone DEF Holds, Edited, Writing
  <2>2. DrawnFor(c) = {tx[r].msg}
    BY <1>1, <1>3, <2>1 DEF DrawnFor
  <2>3. (CHOOSE i \in DrawnFor(c) : TRUE) \in DrawnFor(c)
    BY <2>2
  <2> QED
    BY <1>2, <2>2, <2>3
<1>4. ASSUME \A r \in Request : Holds(r) => tx[r].case # c PROVE DrawnIds[c] = 0
  <2>1. DrawnFor(c) = {}
    BY <1>1, <1>4 DEF DrawnFor
  <2> QED
    BY <1>2, <2>1
<1> QED
  BY <1>3, <1>4

LEMMA RowsAre == Ids => RowsRight
<1> SUFFICES ASSUME Ids PROVE RowsRight
  OBVIOUS
<1>1. DOMAIN RowCases = {m.id : m \in outbox}
  BY DEF RowCases
<1>2. ASSUME NEW m \in outbox PROVE RowCases[m.id] = m.case
  <2>1. RowCases[m.id] = (CHOOSE n \in outbox : n.id = m.id).case
    BY DEF RowCases
  <2>2. \A n \in outbox : n.id = m.id => n = m
    BY DEF Ids
  <2> QED
    BY <2>1, <2>2
<1> QED
  BY <1>1, <1>2 DEF RowsRight

LEMMA DrawnIsNext == IInv' /\ Ids' => DrawnRight'
BY DrawnIs, PTL

LEMMA RowsAreNext == Ids' => RowsRight'
BY RowsAre, PTL

LEMMA DrawnIsFunction ==
  /\ DrawnIds = [c \in CaseId |-> DrawnIds[c]]
  /\ DrawnIds' = [c \in CaseId |-> DrawnIds'[c]]
BY DEF DrawnIds

(* The abstract writers see of a case only who holds an id for it. *)
LEMMA SameHolders ==
  ASSUME DrawnRight, DrawnRight', NEW c \in CaseId,
         \A q \in Request : Holds(q)' /\ tx'[q].case = c <=> Holds(q) /\ tx[q].case = c,
         \A q \in Request : Holds(q) /\ tx[q].case = c => tx'[q].msg = tx[q].msg
  PROVE  DrawnIds'[c] = DrawnIds[c]
<1>1. CASE \E q \in Request : Holds(q) /\ tx[q].case = c
  BY <1>1 DEF DrawnRight
<1>2. CASE ~\E q \in Request : Holds(q) /\ tx[q].case = c
  BY <1>2 DEF DrawnRight
<1> QED
  BY <1>1, <1>2

Both == IInv /\ Ids /\ DrawnRight /\ RowsRight

LEMMA WritersDraw ==
  ASSUME Both, Both', NEW r \in Request, Quiet(r), DrawsId(r), nextId <= Cardinality(Request),
         Cardinality(Request) \in Nat
  PROVE  OutboxSide!InsertOutbox(tx[r].case)
<1> PICK case : case = tx[r].case
  OBVIOUS
<1>1. case \in CaseId /\ nextId \in Nat \ {0} /\ Edited(r) /\ ~Holds(r)
  BY DEF DrawsId, Both, IInv, TypeOK, Tx, Edited, Writing, Holds
<1>2. \A q \in Request : Holds(q) => tx[q].case # case
  BY <1>1, HolderAlone DEF Both
<1>3. \A q \in Request \ {r} : tx'[q] = tx[q] /\ (Holds(q)' <=> Holds(q))
  BY DEF Quiet, Holds
<1>4. Holds(r)' /\ tx'[r].case = case /\ tx'[r].msg = nextId /\ nextId' = nextId + 1
  BY DEF DrawsId
<1>5. DrawnIds[case] = 0 /\ DrawnIds'[case] = nextId
  BY <1>1, <1>2, <1>4 DEF Both, DrawnRight
<1>6. \A c \in CaseId \ {case} : DrawnIds'[c] = DrawnIds[c]
  BY <1>1, <1>3, <1>4, SameHolders DEF Both
<1>7. DrawnIds' = [DrawnIds EXCEPT ![case] = nextId]
  BY <1>5, <1>6, DrawnIsFunction
<1>8. RowCases' = RowCases
  BY DEF RowCases, Quiet, committed
<1> QED
  BY <1>1, <1>4, <1>5, <1>7, <1>8
     DEF OutboxSide!InsertOutbox, OutboxSide!NoId, OutboxSide!RowId

(* The transaction of a holder ends. *)
LEMMA WritersEnd ==
  ASSUME Both, Both', NEW r \in Request, Holds(r), ~Holds(r)', nextId' = nextId,
         \A q \in Request \ {r} : tx'[q] = tx[q] /\ pc'[q] = pc[q]
  PROVE  OutboxSide!WriterEnds(tx[r].case) /\ DrawnIds[tx[r].case] = tx[r].msg
<1> PICK case : case = tx[r].case
  OBVIOUS
<1>1. case \in CaseId /\ tx[r].msg # 0
  BY DEF Both, IInv, Ids, TypeOK, Tx
<1>2. \A q \in Request \ {r} : tx'[q] = tx[q] /\ (Holds(q)' <=> Holds(q))
  BY DEF Holds
<1>3. \A q \in Request \ {r} : Holds(q) => tx[q].case # case
  BY HolderAlone DEF Both, Holds, Edited, Writing
<1>4. DrawnIds[case] = tx[r].msg /\ DrawnIds'[case] = 0
  BY <1>1, <1>2, <1>3 DEF Both, DrawnRight
<1>5. \A c \in CaseId \ {case} : DrawnIds'[c] = DrawnIds[c]
  BY <1>1, <1>2, SameHolders DEF Both
<1>6. DrawnIds' = [DrawnIds EXCEPT ![case] = 0]
  BY <1>4, <1>5, DrawnIsFunction
<1> QED
  BY <1>1, <1>4, <1>6 DEF OutboxSide!WriterEnds, OutboxSide!NoId

LEMMA WritersKeep ==
  ASSUME Both, Both', NEW r \in Request, Quiet(r), nextId' = nextId,
         Holds(r)' <=> Holds(r),
         Holds(r) => tx'[r].msg = tx[r].msg /\ tx'[r].case = tx[r].case
  PROVE  UNCHANGED OutboxSide!writers
<1>1. \A q \in Request \ {r} : tx'[q] = tx[q] /\ (Holds(q)' <=> Holds(q))
  BY DEF Quiet, Holds
<1>2. \A c \in CaseId : DrawnIds'[c] = DrawnIds[c]
  BY <1>1, SameHolders DEF Both
<1>3. DrawnIds' = DrawnIds
  BY <1>2, DrawnIsFunction
<1>4. RowCases' = RowCases
  BY DEF RowCases, Quiet, committed
<1> QED
  BY <1>3, <1>4 DEF OutboxSide!writers

LEMMA WritersCommit ==
  ASSUME Both, Both', NEW r \in Request, Commit(r)
  PROVE  OutboxSide!WriterCommits(tx[r].case)
<1> PICK case : case = tx[r].case
  OBVIOUS
<1> PICK new : new = CommittedMessage(r)
  OBVIOUS
<1>1. Holds(r) /\ nextId' = nextId /\ case \in CaseId /\ tx[r].msg # 0
  BY DEF Commit, Holds, Both, IInv, Ids, TypeOK, Tx
<1>2. /\ pc'[r] = "respond"
      /\ \A q \in Request \ {r} : tx'[q] = tx[q] /\ pc'[q] = pc[q]
  BY CommitRows DEF Both
<1>3. ~Holds(r)'
  BY <1>2 DEF Holds
<1>4. OutboxSide!WriterEnds(case) /\ DrawnIds[case] = tx[r].msg
  BY <1>1, <1>2, <1>3, WritersEnd
<1>5. outbox' = outbox \cup {new} /\ new.id = tx[r].msg /\ new.case = case
  BY DEF Commit, CommittedMessage
<1>6. \A m \in outbox : m.id # new.id
  BY <1>1, <1>5 DEF Both, Ids
<1>7. DOMAIN RowCases' = DOMAIN RowCases \cup {DrawnIds[case]}
  BY <1>4, <1>5 DEF Both, RowsRight
<1>8. ASSUME NEW i \in DOMAIN RowCases'
      PROVE  RowCases'[i] = IF i \in DOMAIN RowCases THEN RowCases[i] ELSE case
  <2>1. PICK m \in outbox' : m.id = i
    BY <1>8 DEF Both, RowsRight
  <2>2. RowCases'[i] = m.case
    BY <2>1 DEF Both, RowsRight
  <2>3. CASE m = new
    BY <1>5, <1>6, <2>1, <2>2, <2>3 DEF Both, RowsRight
  <2>4. CASE m \in outbox
    BY <2>1, <2>2, <2>4 DEF Both, RowsRight
  <2> QED
    BY <1>5, <2>1, <2>3, <2>4
<1>9. RowCases' = [i \in DOMAIN RowCases' |-> RowCases'[i]]
  BY DEF RowCases
<1>10. RowCases' = [i \in DOMAIN RowCases \cup {DrawnIds[case]} |->
                      IF i \in DOMAIN RowCases THEN RowCases[i] ELSE case]
  BY <1>7, <1>8, <1>9
<1> QED
  BY <1>4, <1>10 DEF OutboxSide!WriterCommits, OutboxSide!Rows

LEMMA WritersCrash ==
  ASSUME Both, Both', Crash
  PROVE  OutboxSide!WritersDie \/ UNCHANGED OutboxSide!writers
<1>1. \A r \in Request : ~Holds(r)'
  BY CrashKeepsIds DEF Both
<1>2. \A c \in CaseId : DrawnIds'[c] = 0
  BY <1>1 DEF Both, DrawnRight
<1>3. DrawnIds' = [c \in CaseId |-> 0]
  BY <1>2, DrawnIsFunction
<1>4. RowCases' = RowCases /\ nextId' = nextId
  BY DEF RowCases, Crash, committed
<1>5. CASE \E c \in CaseId : DrawnIds[c] # 0
  BY <1>3, <1>4, <1>5 DEF OutboxSide!WritersDie, OutboxSide!NoId
<1>6. CASE \A c \in CaseId : DrawnIds[c] = 0
  <2>1. DrawnIds' = DrawnIds
    BY <1>2, <1>6, DrawnIsFunction
  <2> QED
    BY <1>4, <2>1 DEF OutboxSide!writers
<1> QED
  BY <1>5, <1>6

(* A request draws one id at most: no more ids are drawn than there are requests. *)
Drew == {r \in Request : Holds(r) \/ pc[r] \in Returned}

Bounded == IsFiniteSet(Request) => nextId <= 1 + Cardinality(Drew)

LEMMA DrawBounded ==
  ASSUME IInv, IsFiniteSet(Request), Bounded, NEW r \in Request, DrawsId(r), Quiet(r)
  PROVE  /\ nextId <= Cardinality(Request) /\ Cardinality(Request) \in Nat
         /\ nextId' <= 1 + Cardinality(Drew')
<1>1. r \notin Drew /\ Drew \subseteq Request /\ nextId' = nextId + 1 /\ nextId \in Nat
  BY DEF DrawsId, Drew, Holds, Returned, IInv, TypeOK
<1>2. Drew' = Drew \cup {r}
  BY <1>1 DEF DrawsId, Quiet, Drew, Holds
<1>3. IsFiniteSet(Drew) /\ Cardinality(Drew) \in Nat /\ Cardinality(Request) \in Nat
  BY <1>1, FS_Subset, FS_CardinalityType
<1>4. Cardinality(Drew') = Cardinality(Drew) + 1 /\ IsFiniteSet(Drew')
  BY <1>1, <1>2, <1>3, FS_AddElement
<1>5. Cardinality(Drew') <= Cardinality(Request)
  <2>1. Drew' \subseteq Request
    BY <1>1, <1>2
  <2> QED
    BY <2>1, FS_Subset
<1> QED
  BY <1>1, <1>3, <1>4, <1>5 DEF Bounded

LEMMA StillBounded ==
  ASSUME IInv, Bounded, nextId' = nextId, Drew \subseteq Drew'
  PROVE  Bounded'
<1> SUFFICES ASSUME IsFiniteSet(Request) PROVE nextId' <= 1 + Cardinality(Drew')
  BY DEF Bounded
<1>1. Drew' \subseteq Request
  BY DEF Drew
<1>2. IsFiniteSet(Drew')
  BY <1>1, FS_Subset
<1>3. Cardinality(Drew) <= Cardinality(Drew') /\ IsFiniteSet(Drew)
  BY <1>2, FS_Subset
<1>4. Cardinality(Drew) \in Nat /\ Cardinality(Drew') \in Nat
  BY <1>2, <1>3, FS_CardinalityType
<1> QED
  BY <1>3, <1>4 DEF Bounded, IInv, TypeOK

LEMMA BoundedInit == Init => Bounded
<1> SUFFICES ASSUME Init, IsFiniteSet(Request) PROVE nextId <= 1 + Cardinality(Drew)
  BY DEF Bounded
<1>1. nextId = 1 /\ Drew \subseteq Request
  BY DEF Init, Drew
<1>2. Cardinality(Drew) \in Nat
  BY <1>1, FS_Subset, FS_CardinalityType
<1> QED
  BY <1>1, <1>2

LEMMA BoundedNext == IInv /\ RInv /\ Ids /\ Bounded /\ [Next]_vars => Bounded'
<1> SUFFICES ASSUME IInv, RInv, Ids, Bounded, [Next]_vars PROVE Bounded'
  OBVIOUS
<1>1. ASSUME NEW r \in Request, QuietAction(r) PROVE Bounded'
  <2>1. Quiet(r)
    BY <1>1, ActionsQuiet DEF QuietFlight
  <2>2. CASE DrawsId(r)
    BY <2>1, <2>2, DrawBounded DEF Bounded
  <2>3. CASE KeepsId(r) \/ DropsId(r)
    <3>1. Drew \subseteq Drew' /\ nextId' = nextId
      BY <2>1, <2>3 DEF Drew, KeepsId, DropsId, Quiet, Holds
    <3> QED
      BY <3>1, StillBounded
  <2> QED
    BY <1>1, <2>2, <2>3, QuietIds
<1>2. ASSUME NEW r \in Request, Commit(r) PROVE Bounded'
  <2>1. Drew \subseteq Drew'
    BY <1>2, CommitRows DEF Drew, Holds, Returned
  <2> QED
    BY <1>2, <2>1, StillBounded DEF Commit
<1>3. CASE Crash
  <2>1. Drew \subseteq Drew'
    BY <1>3 DEF Crash, Drew, Holds, Returned, Active, IInv, TypeOK
  <2> QED
    BY <1>3, <2>1, StillBounded DEF Crash
<1>4. CASE UNCHANGED vars
  BY <1>4 DEF vars, Bounded, Drew, Holds
<1> QED
  BY <1>1, <1>2, <1>3, <1>4, NextActions DEF Quiescent

LEMMA WritersNext ==
  ASSUME IsFiniteSet(Request)
  PROVE  Both /\ Both' /\ RInv /\ Bounded /\ [Next]_vars
           => [OutboxSide!NextWriters]_(OutboxSide!writers)
<1> SUFFICES ASSUME Both, Both', RInv, Bounded, [Next]_vars
             PROVE  OutboxSide!NextWriters \/ UNCHANGED OutboxSide!writers
  OBVIOUS
<1> IInv /\ Ids
  BY DEF Both
<1>0. \A r \in Request : tx[r].case \in CaseId
  BY DEF IInv, TypeOK, Tx
<1>1. ASSUME NEW r \in Request, QuietAction(r)
      PROVE  OutboxSide!NextWriters \/ UNCHANGED OutboxSide!writers
  <2>1. Quiet(r)
    BY <1>1, ActionsQuiet DEF QuietFlight
  <2>2. CASE DrawsId(r)
    <3>1. OutboxSide!InsertOutbox(tx[r].case)
      BY <2>1, <2>2, DrawBounded, WritersDraw
    <3> QED
      BY <1>0, <3>1 DEF OutboxSide!NextWriters, OutboxSide!Write
  <2>3. CASE KeepsId(r)
    BY <2>1, <2>3, WritersKeep DEF KeepsId
  <2>4. CASE DropsId(r) /\ ~Holds(r)
    BY <2>1, <2>4, WritersKeep DEF DropsId
  <2>5. CASE DropsId(r) /\ Holds(r)
    <3>1. OutboxSide!WriterEnds(tx[r].case)
      BY <2>1, <2>5, WritersEnd DEF DropsId, Quiet
    <3>2. RowCases' = RowCases
      BY <2>1 DEF RowCases, Quiet, committed
    <3> QED
      BY <1>0, <3>1, <3>2
         DEF OutboxSide!WriterRollsBack, OutboxSide!NextWriters, OutboxSide!Write
  <2> QED
    BY <1>1, <2>2, <2>3, <2>4, <2>5, QuietIds
<1>2. ASSUME NEW r \in Request, Commit(r) PROVE OutboxSide!NextWriters
  BY <1>0, <1>2, WritersCommit DEF OutboxSide!NextWriters, OutboxSide!Write
<1>3. CASE Crash
  BY <1>3, WritersCrash DEF OutboxSide!NextWriters
<1>4. CASE UNCHANGED vars
  BY <1>4 DEF vars, OutboxSide!writers, RowCases, DrawnIds, DrawnFor
<1> QED
  BY <1>1, <1>2, <1>3, <1>4, NextActions DEF Quiescent

LEMMA WritersStart == Init => OutboxSide!InitWriters
<1> SUFFICES ASSUME Init PROVE OutboxSide!InitWriters
  OBVIOUS
<1>1. outbox = {} /\ nextId = 1 /\ \A r \in Request : tx[r].msg = 0
  BY DEF Init, NoTx
<1>2. RowCases = <<>>
  BY <1>1 DEF RowCases
<1>3. \A c \in CaseId : DrawnFor(c) = {}
  BY <1>1 DEF DrawnFor
<1>4. DrawnIds = [c \in CaseId |-> 0]
  BY <1>3 DEF DrawnIds
<1> QED
  BY <1>1, <1>2, <1>4 DEF OutboxSide!InitWriters, OutboxSide!NoId

(* What the publisher assumes of the transactions that fill the outbox is what these
   transactions do, for any finite number of requests: the row lock lets one transaction
   at a time hold an id for a case, and its row appears at the commit or never. *)
THEOREM RepositoryWritesAsAssumed == IsFiniteSet(Request) => (Spec => WritersAsAssumed)
<1> SUFFICES ASSUME IsFiniteSet(Request) PROVE Spec => WritersAsAssumed
  OBVIOUS
<1>1. IInv /\ Ids => Both
  BY DrawnIs, RowsAre DEF Both
<1>2. IInv' /\ Ids' => Both'
  BY <1>1, PTL
<1>3. IInv /\ IInv' /\ Ids /\ Ids' /\ RInv /\ Bounded /\ [Next]_vars
        => [OutboxSide!NextWriters]_(OutboxSide!writers)
  BY <1>1, <1>2, WritersNext
<1>4. Spec => []Ids
  <2>1. HInv => Ids
    BY DEF HInv
  <2> QED
    BY <2>1, HInvHolds, PTL
<1>5. Spec => []Bounded
  BY BoundedInit, BoundedNext, Inductive, RInvHolds, <1>4, PTL DEF Spec
<1> QED
  BY WritersStart, <1>3, <1>4, <1>5, Inductive, RInvHolds, PTL
     DEF Spec, WritersAsAssumed, OutboxSide!WritersSpec
=============================================================================
