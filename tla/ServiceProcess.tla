--------------------------- MODULE ServiceProcess ---------------------------
(***************************************************************************)
(* The life of one process of the system: how the agent, the query         *)
(* gateway, the tool server and the bridge start, serve, are told to stop, *)
(* and what then becomes of the requests they are working on.  The         *)
(* handlers are reduced to what they wait for; their own modules say what  *)
(* they compute.  The task store of the agent and the stream of the bridge *)
(* exist nowhere else, and are modelled in full.                           *)
(***************************************************************************)
EXTENDS A2AStore, RecordStream, FiniteSets

CONSTANTS
  Request,
  Services,   \* the programs to explore
  Asks,       \* [Services -> what a client may ask]
  PoolSize,   \* connections of the pool
  MaxLives    \* bound: starts of the process

Service == {"agent", "gateway", "mcp", "bridge"}
Lives == 1..MaxLives

(* What a handler waits for, one after the other.  "conn" is a statement or a
   transaction on a connection of the pool. *)
Kind == {"case", "analysis", "create", "get", "query", "call", "stream"}
Stages ==
  [kind \in Kind |->
     CASE kind = "case"     -> <<"conn", "conn">>        \* the key, the transaction
       [] kind = "analysis" -> <<"upstream", "codex">>   \* the queries, the reasoner
       [] kind = "create"   -> <<"store">>
       [] kind = "get"      -> <<"fetch">>
       [] kind = "query"    -> <<"conn", "upstream">>    \* the tenant's row, the backend
       [] kind = "call"     -> <<"upstream">>
       [] kind = "stream"   -> <<"stream">>]

ASSUME ServiceAssumption ==
  /\ Services \subseteq Service
  /\ PoolSize \in Nat \ {0} /\ MaxLives \in Nat \ {0}
  /\ \A s \in Services : \A a \in Asks[s] :
       /\ a.kind \in Kind
       /\ a.kind = "get" => a.task \in Request
       /\ a.kind = "stream" => a.lines \in [Type -> Seq(Line)]

VARIABLES
  service,    \* the program
  phase,      \* how far the process is
  life,       \* which start this is
  catching,   \* the process handles SIGTERM
  signalled,  \* SIGTERM was caught
  ended,      \* how each life ended
  pc,         \* where each request is
  ask,        \* what it asks
  born,       \* the life that received it
  step,       \* the stage its handler is at
  present,    \* its client still waits
  conn,       \* it holds a connection
  codex,      \* its Codex process runs
  known       \* the task it asks for was answered before, by this process

processVars == <<service, phase, life, catching, signalled, ended>>
handlerVars == <<ask, born, step, present, conn, codex, known>>
storeVars == <<a2aVars, stream>>
vars == <<processVars, pc, handlerVars, storeVars>>

(* The agent and the bridge first try the addresses they are configured with. *)
FirstPhase(s) ==
  IF s \in {"agent", "bridge"} THEN "probe" ELSE IF s = "gateway" THEN "connect" ELSE "serve"

Nothing == [kind |-> "none"]

Init ==
  /\ service \in Services
  /\ phase = FirstPhase(service) /\ life = 1
  /\ catching = (service = "gateway") /\ signalled = FALSE
  /\ ended = [l \in Lives |-> "not"]
  /\ pc = [r \in Request |-> "idle"] /\ ask = [r \in Request |-> Nothing]
  /\ born = [r \in Request |-> 1] /\ step = [r \in Request |-> 1]
  /\ present = [r \in Request |-> TRUE] /\ conn = [r \in Request |-> FALSE]
  /\ codex = [r \in Request |-> FALSE] /\ known = [r \in Request |-> FALSE]
  /\ InitStore(Request) /\ InitStream(Request)

-----------------------------------------------------------------------------
(* The process. *)

Alive == phase # "exited"
Handled == {r \in Request : pc[r] = "handling"}
OpenConnections == {r \in Request : pc[r] \in {"connected", "handling"}}
Holders == {r \in Handled : conn[r]}

(* The requests in hand are cut off; Codex is a process of its own and runs on. *)
End(how) ==
  /\ phase' = "exited"
  /\ ended' = [ended EXCEPT ![life] = how]
  /\ pc' = [r \in Request |-> IF pc[r] = "handling" THEN "cut"
                              ELSE IF pc[r] = "connected" THEN "refused" ELSE pc[r]]
  /\ UNCHANGED <<service, life, catching, signalled, handlerVars, storeVars>>

EnterPhase(p) ==
  /\ phase' = p
  /\ UNCHANGED <<service, life, signalled, pc, handlerVars, storeVars>>

(* The probes only log what they find.  The agent catches signals afterwards. *)
ProbesEnd ==
  /\ phase = "probe"
  /\ EnterPhase(IF service = "agent" THEN "connect" ELSE "serve")
  /\ catching' = (service = "agent")
  /\ UNCHANGED ended

Connected ==
  /\ phase = "connect"
  /\ EnterPhase("serve") /\ UNCHANGED <<catching, ended>>

(* The database is not reached, or the signal cancels the attempt. *)
ConnectFails == phase = "connect" /\ End("failed")

(* The tool server listens first and asks for signals afterwards. *)
Catch ==
  /\ service = "mcp" /\ phase = "serve" /\ ~catching
  /\ catching' = TRUE
  /\ EnterPhase("serve") /\ UNCHANGED ended

(* SIGTERM: a process that does not catch it dies, a second one is ignored. *)
Signal ==
  /\ Alive /\ catching /\ ~signalled
  /\ signalled' = TRUE
  /\ UNCHANGED <<service, phase, life, catching, ended, pc, handlerVars, storeVars>>

Killed == Alive /\ End("killed")

(* The agent runs its deferred calls, the others call log.Fatal at once. *)
ListenFails ==
  /\ phase = "serve"
  /\ IF service = "agent"
     THEN /\ EnterPhase("close") /\ UNCHANGED catching
          /\ ended' = [ended EXCEPT ![life] = "failed"]
     ELSE End("failed")

Shutdown ==
  /\ phase = "serve" /\ signalled
  /\ EnterPhase("drain") /\ UNCHANGED <<catching, ended>>

StopDraining(how) ==
  /\ phase = "drain"
  /\ EnterPhase("close") /\ UNCHANGED catching
  /\ ended' = [ended EXCEPT ![life] = how]

(* Shutdown returns when no connection is active. *)
Drained == OpenConnections = {} /\ StopDraining("drained")

(* Ten seconds, five of the tool server; the requests left go on unwatched. *)
GraceExpires == OpenConnections # {} /\ StopDraining("late")

\* Mutation: the process exits without closing the pool.
ExitAtOnce == phase = "close" /\ End(ended[life])

(* Closing the pool waits for the connections in use. *)
Exit == phase = "close" /\ Holders = {} /\ End(ended[life])

(* The supervisor starts the process anew: what it kept in memory is gone. *)
Restart ==
  /\ ~Alive /\ life < MaxLives
  /\ phase' = FirstPhase(service) /\ life' = life + 1
  /\ catching' = (service = "gateway") /\ signalled' = FALSE
  /\ tasks' = NoTasks(Request)
  /\ UNCHANGED <<service, ended, pc, handlerVars, reply, stream>>

Process ==
  \/ ProbesEnd \/ Connected \/ ConnectFails \/ Catch \/ Signal \/ Killed
  \/ ListenFails \/ Shutdown \/ Drained \/ GraceExpires \/ Exit \/ Restart

-----------------------------------------------------------------------------
(* The requests. *)

Connect(r) ==
  /\ phase = "serve" /\ pc[r] = "idle"
  /\ pc' = [pc EXCEPT ![r] = "connected"]
  /\ UNCHANGED <<processVars, handlerVars, storeVars>>

(* A request on an open connection is served, also while the process stops.
   Nobody can ask for a task whose id was never answered. *)
Receive(r) ==
  /\ Alive /\ pc[r] = "connected"
  /\ pc' = [pc EXCEPT ![r] = "handling"]
  /\ born' = [born EXCEPT ![r] = life]
  /\ \E a \in Asks[service] :
       /\ ask' = [ask EXCEPT ![r] = a]
       /\ known' = [known EXCEPT ![r] =
            a.kind = "get" /\ pc[a.task] = "answered" /\ ask[a.task].kind = "create"
                           /\ born[a.task] = life]
  /\ UNCHANGED <<processVars, step, present, conn, codex, storeVars>>

(* Shutdown closes a connection that has not sent a request for five seconds. *)
CloseIdle(r) ==
  /\ phase = "drain" /\ pc[r] = "connected"
  /\ pc' = [pc EXCEPT ![r] = "refused"]
  /\ UNCHANGED <<processVars, handlerVars, storeVars>>

Leave(r) ==
  /\ pc[r] = "handling" /\ present[r]
  /\ present' = [present EXCEPT ![r] = FALSE]
  /\ UNCHANGED <<processVars, pc, ask, born, step, conn, codex, known, storeVars>>

StagesOf(r) == Stages[ask[r].kind]
AtStage(r, stage) ==
  pc[r] = "handling" /\ step[r] \in DOMAIN StagesOf(r) /\ StagesOf(r)[step[r]] = stage

GoOn(r) == step' = [step EXCEPT ![r] = @ + 1]
GiveUp(r) == step' = [step EXCEPT ![r] = Len(StagesOf(r)) + 1]
HandlerWait == UNCHANGED <<processVars, pc, ask, born, present, known>>

UseConnection(r) ==
  /\ AtStage(r, "conn") /\ ~conn[r]
  /\ phase # "close" /\ Cardinality(Holders) < PoolSize
  /\ conn' = [conn EXCEPT ![r] = TRUE]
  /\ HandlerWait /\ UNCHANGED <<step, codex, storeVars>>

(* A pool that is closed gives no connection. *)
NoConnection(r) ==
  /\ AtStage(r, "conn") /\ ~conn[r] /\ phase = "close"
  /\ GiveUp(r) /\ HandlerWait /\ UNCHANGED <<conn, codex, storeVars>>

\* Mutation: a return forgets the connection.
LeakConnection(r) ==
  /\ AtStage(r, "conn") /\ conn[r]
  /\ \/ GoOn(r) /\ conn' = [conn EXCEPT ![r] = FALSE]
     \/ GiveUp(r) /\ UNCHANGED conn
  /\ HandlerWait /\ UNCHANGED <<codex, storeVars>>

(* A statement or a transaction ends, well or with an error. *)
ReleaseConnection(r) ==
  /\ AtStage(r, "conn") /\ conn[r]
  /\ GoOn(r) \/ GiveUp(r)
  /\ conn' = [conn EXCEPT ![r] = FALSE]
  /\ HandlerWait /\ UNCHANGED <<codex, storeVars>>

UpstreamEnds(r) ==
  /\ AtStage(r, "upstream")
  /\ GoOn(r) \/ GiveUp(r)
  /\ HandlerWait /\ UNCHANGED <<conn, codex, storeVars>>

StartCodex(r) ==
  /\ AtStage(r, "codex") /\ ~codex[r]
  /\ codex' = [codex EXCEPT ![r] = TRUE]
  /\ HandlerWait /\ UNCHANGED <<step, conn, storeVars>>

(* Codex ends; if its run is gone, nobody reads what it says. *)
CodexEnds(r) ==
  /\ codex[r]
  /\ codex' = [codex EXCEPT ![r] = FALSE]
  /\ IF AtStage(r, "codex") THEN GoOn(r) ELSE UNCHANGED step
  /\ HandlerWait /\ UNCHANGED <<conn, storeVars>>

StoreTask(r) ==
  /\ AtStage(r, "store") /\ createTask(r, ask[r].topics)
  /\ GoOn(r) /\ HandlerWait /\ UNCHANGED <<conn, codex, stream>>

FetchTask(r) ==
  /\ AtStage(r, "fetch") /\ getTask(r, ask[r].task)
  /\ GoOn(r) /\ HandlerWait /\ UNCHANGED <<conn, codex, stream>>

Lines(r) == ask[r].lines[OpenType(r)]

handleOOStream(r) ==
  /\ AtStage(r, "stream") /\ ask[r].window
  /\ \/ Open(r) \/ OpenFails(r)
     \/ Streaming(r) /\ ScannerStops(r, Lines(r))
     \/ Streaming(r) /\ PassOn(r, Lines(r), ask[r].tenant)
     \/ Streaming(r) /\ SkipMalformed(r, Lines(r))
  /\ HandlerWait /\ UNCHANGED <<step, conn, codex, a2aVars>>

(* The stream is over, or the window was refused before it began. *)
EndStream(r) ==
  /\ AtStage(r, "stream") /\ (~ask[r].window \/ ~Streaming(r))
  /\ GoOn(r) /\ HandlerWait /\ UNCHANGED <<conn, codex, storeVars>>

(* The panic ends this connection, before the last chunk. *)
BreakStream(r) ==
  /\ AtStage(r, "stream") /\ ask[r].window /\ Streaming(r) /\ Panics(r, Lines(r))
  /\ pc' = [pc EXCEPT ![r] = "broken"]
  /\ UNCHANGED <<processVars, handlerVars, storeVars>>

Answer(r) ==
  /\ pc[r] = "handling" /\ step[r] \notin DOMAIN StagesOf(r)
  /\ pc' = [pc EXCEPT ![r] = IF present[r] THEN "answered" ELSE "left"]
  /\ UNCHANGED <<processVars, handlerVars, storeVars>>

Cancelled(r) ==
  /\ ~present[r]
  /\ \E stage \in {"conn", "upstream", "codex", "stream"} : AtStage(r, stage)
  /\ ask[r].kind # "call"
  /\ pc' = [pc EXCEPT ![r] = "left"]
  /\ conn' = [conn EXCEPT ![r] = FALSE]
  /\ UNCHANGED <<processVars, ask, born, step, present, known, storeVars>>

\* Mutation: Codex is not started under the context of the request.
AbandonCodex(r) == Cancelled(r) /\ UNCHANGED codex

(* Who leaves cancels the context of his request: statements, queries, streams and
   Codex end.  The tool server does not pass the context on. *)
Abandon(r) == Cancelled(r) /\ codex' = [codex EXCEPT ![r] = FALSE]

Handler(r) ==
  Alive /\ \/ UseConnection(r) \/ NoConnection(r) \/ ReleaseConnection(r) \/ UpstreamEnds(r)
           \/ StartCodex(r) \/ StoreTask(r) \/ FetchTask(r) \/ handleOOStream(r)
           \/ EndStream(r) \/ BreakStream(r) \/ Answer(r) \/ Abandon(r)

Next ==
  \/ Process
  \/ \E r \in Request :
       Connect(r) \/ Receive(r) \/ CloseIdle(r) \/ Leave(r) \/ CodexEnds(r) \/ Handler(r)

-----------------------------------------------------------------------------

Spec == Init /\ [][Next]_vars

(* The main routine goes on, the timers of Shutdown fire, the database answers; a
   probe has no deadline, and Codex and the other services may take for ever. *)
Fairness ==
  /\ WF_vars(Connected \/ ConnectFails) /\ WF_vars(Catch) /\ WF_vars(Shutdown)
  /\ WF_vars(Drained \/ GraceExpires) /\ WF_vars(Exit)
  /\ \A r \in Request : WF_vars(ReleaseConnection(r))

FairSpec == Spec /\ Fairness

-----------------------------------------------------------------------------
(* Properties. *)

TypeOK ==
  /\ service \in Services /\ life \in Lives
  /\ phase \in {"probe", "connect", "serve", "drain", "close", "exited"}
  /\ catching \in BOOLEAN /\ signalled \in BOOLEAN
  /\ ended \in [Lives -> {"not", "failed", "killed", "drained", "late"}]
  /\ pc \in [Request -> {"idle", "connected", "handling", "answered", "left", "refused",
                         "cut", "broken"}]
  /\ ask \in [Request -> Asks[service] \cup {Nothing}] /\ born \in [Request -> Lives]
  /\ step \in [Request -> 1..3] /\ present \in [Request -> BOOLEAN]
  /\ codex \in [Request -> BOOLEAN] /\ known \in [Request -> BOOLEAN]
  /\ conn \in [Request -> BOOLEAN] /\ Cardinality(Holders) <= PoolSize
  /\ \A r \in Request : conn[r] => pc[r] \in {"handling", "cut"}
  /\ tasks \in [Request -> Status \cup {NoTask}]
  /\ reply \in [Request -> Status \cup {NoTask, NotFound}]

EndedOf(r) == ended[born[r]]

(* A process that ends by itself returns every connection first, so no transaction of
   a case is left to the server to roll back, unless the process was killed
   (cmd/main.go:127: the deferred pool.Close).  Only the agent writes; where the others
   call log.Fatal, the deferred calls are skipped. *)
NoTransactionCut ==
  \A r \in Request : pc[r] = "cut" /\ conn[r] =>
    EndedOf(r) = "killed" \/ (service # "agent" /\ EndedOf(r) = "failed")

(* A process that was told to stop and could drain leaves no work half done: a request
   is cut off, or a Codex process runs on without the run that waits for it, only when
   the grace was over, the listener failed or the process was killed
   (cmd/main.go:161, server.go:91, mcp/main.go:105; service.go:412 for Codex). *)
CutExplained ==
  \A r \in Request :
    pc[r] = "cut" \/ (codex[r] /\ pc[r] # "handling") =>
      EndedOf(r) \in {"late", "failed", "killed"}

(* A task whose id was answered is found by whoever asks this process for it, and as it
   was answered; a task that is found is never another than the one answered
   (a2a.go:74-116). *)
TasksReadable ==
  \A r \in Request :
    pc[r] = "answered" /\ ask[r].kind = "get" =>
      /\ known[r] => reply[r] # NotFound
      /\ reply[r] # NotFound => reply[r] = reply[ask[r].task]

(* A stream that ended in order, with OpenObserve sound, passed on every record of the
   logs, the metrics and the traces, in order, once and tagged; and no stream ever
   passes on anything but the records of the first lines of each kind (oo.go:18-53). *)
StreamComplete ==
  \A r \in Request :
    ask[r].kind = "stream" =>
      LET source == ask[r].lines
      IN  /\ \E l \in 0..Len(source["logs"]), m \in 0..Len(source["metrics"]),
                t \in 0..Len(source["traces"]) :
               stream[r].got = FirstRecords(source, ask[r].tenant, l, m, t)
          /\ pc[r] = "answered" /\ ask[r].window /\ stream[r].sound =>
               stream[r].got = Whole(source, ask[r].tenant)

(* A process that caught the signal ends: Shutdown gives up on the slow requests, and
   the pool gets its connections back. *)
Stops == signalled ~> ~Alive

=============================================================================
