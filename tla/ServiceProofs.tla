---------------------------- MODULE ServiceProofs ----------------------------
(***************************************************************************)
(* Proofs about ServiceProcess, for any number of requests, any pool and   *)
(* any number of restarts: what a process leaves behind when it ends, that *)
(* the tasks of the agent can be read back, and that the bridge streams    *)
(* every record.                                                           *)
(***************************************************************************)
EXTENDS ServiceProcess, TLAPS, FiniteSetTheorems, SequenceTheorems, WellFoundedInduction

(* The inductive invariant. *)

Typing ==
  /\ service \in Services /\ life \in Lives
  /\ phase \in {"probe", "connect", "serve", "drain", "close", "exited"}
  /\ ended \in [Lives -> {"not", "failed", "killed", "drained", "late"}]
  /\ pc \in [Request -> {"idle", "connected", "handling", "answered", "left", "refused",
                         "cut", "broken"}]
  /\ DOMAIN ask = Request /\ DOMAIN step = Request /\ born \in [Request -> Lives]
  /\ conn \in [Request -> BOOLEAN] /\ codex \in [Request -> BOOLEAN]
  /\ known \in [Request -> BOOLEAN]

(* Only a process that serves has connections, and the requests are its own. *)
Current ==
  \A r \in Request : pc[r] \in {"connected", "handling"} =>
    /\ phase \in {"serve", "drain", "close"}
    /\ pc[r] = "handling" => born[r] = life

(* A life has no end before it ends, and what it ends of is settled when it closes. *)
Ends ==
  /\ phase \in {"probe", "connect", "serve", "drain"} => ended[life] = "not"
  /\ phase = "close" => ended[life] \in {"failed", "drained", "late"}
  /\ \A l \in Lives : l > life => ended[l] = "not"
  /\ ended[life] = "drained" => \A r \in Request : pc[r] \notin {"connected", "handling"}

(* What was cut off belongs to a life that is over. *)
Past ==
  \A r \in Request : pc[r] = "cut" =>
    /\ born[r] <= life /\ (born[r] = life => phase = "exited")
    /\ EndedOf(r) \in {"late", "failed", "killed"}
    /\ conn[r] => EndedOf(r) = "killed" \/ (service # "agent" /\ EndedOf(r) = "failed")

(* Codex runs for a run that is at that stage, or was cut off. *)
Runs ==
  \A r \in Request : codex[r] => pc[r] = "cut" \/ AtStage(r, "codex")

Inv == Typing /\ Current /\ Ends /\ Past /\ Runs

Received(r) == pc[r] \in {"handling", "answered", "left", "cut", "broken"}
IsAsk(r, kind) == Received(r) /\ ask[r].kind = kind

(* A request that will not write its answer again. *)
Settled(r) == Received(r) /\ ~AtStage(r, "store") /\ ~AtStage(r, "fetch")

TaskTyping ==
  /\ tasks \in [Request -> Status \cup {NoTask}]
  /\ reply \in [Request -> Status \cup {NoTask, NotFound}]
  /\ \A r \in Request :
       /\ born[r] <= life
       /\ pc[r] \in {"idle", "connected"} => step[r] = 1
       /\ pc[r] = "handling" => ask[r] \in Asks[service]

(* The map holds what the process answers: every task of a call that is past its
   store, unchanged. *)
Held ==
  \A t \in Request :
    /\ tasks[t] # NoTask => tasks[t] = reply[t] /\ Settled(t) /\ IsAsk(t, "create")
    /\ IsAsk(t, "create") /\ Settled(t) /\ pc[t] \in {"handling", "answered"}
         /\ born[t] = life /\ Alive => tasks[t] # NoTask

(* What a call that asks for a task has found. *)
Found ==
  \A r \in Request :
    /\ IsAsk(r, "get") => ask[r].task \in Request
    /\ IsAsk(r, "get") /\ known[r] /\ AtStage(r, "fetch") => tasks[ask[r].task] # NoTask
    /\ IsAsk(r, "get") /\ pc[r] \in {"handling", "answered"} /\ Settled(r) =>
         /\ known[r] => reply[r] # NotFound
         /\ reply[r] # NotFound =>
              Settled(ask[r].task) /\ reply[r] = reply[ask[r].task]

TaskInv == TaskTyping /\ Held /\ Found

-----------------------------------------------------------------------------
(* The initial states. *)

LEMMA InitInv == Init => Inv
<1> SUFFICES ASSUME Init PROVE Inv
  OBVIOUS
<1>1. Typing
  BY ServiceAssumption DEF Init, Typing, FirstPhase, Lives
<1>2. Current /\ Ends /\ Past /\ Runs
  BY ServiceAssumption DEF Init, Current, Ends, Past, Runs, FirstPhase, Lives, EndedOf
<1> QED
  BY <1>1, <1>2 DEF Inv

-----------------------------------------------------------------------------
(* The steps of the process. *)

(* Where the end of a life leaves the invariant, given why it may end that way. *)
LEMMA EndKeepsInv ==
  ASSUME NEW how \in {"failed", "killed", "drained", "late"},
         Inv, phase # "exited", End(how),
         how = "drained" => Handled = {},
         \A r \in Holders : how = "killed" \/ (service # "agent" /\ how = "failed")
  PROVE  Inv'
<1> USE DEF Inv
<1>1. Typing'
  BY DEF Typing, End, handlerVars, storeVars, Lives
<1>2. Current'
  BY DEF Typing, Current, End
<1>3. Ends'
  BY DEF Typing, Ends, End, Lives
<1>4. Past'
  <2> SUFFICES ASSUME NEW r \in Request, pc'[r] = "cut"
               PROVE  /\ born'[r] <= life' /\ (born'[r] = life' => phase' = "exited")
                      /\ ended'[born'[r]] \in {"late", "failed", "killed"}
                      /\ conn'[r] => \/ ended'[born'[r]] = "killed"
                                     \/ service' # "agent" /\ ended'[born'[r]] = "failed"
    BY DEF Past, EndedOf
  <2>1. CASE pc[r] = "handling"
    <3>1. born[r] = life /\ r \in Handled
      BY <2>1 DEF Current, Handled
    <3>2. conn[r] => r \in Holders
      BY <3>1 DEF Holders
    <3> QED
      BY <3>1, <3>2 DEF Typing, End, handlerVars, Lives
  <2>2. CASE pc[r] # "handling"
    <3>1. pc[r] = "cut"
      BY <2>2 DEF End, Typing
    <3>2. born[r] # life
      BY <3>1 DEF Past
    <3> QED
      BY <3>1, <3>2 DEF Typing, End, Past, EndedOf, handlerVars, Lives
  <2> QED
    BY <2>1, <2>2
<1>5. Runs'
  BY DEF Typing, Runs, End, AtStage, handlerVars
<1> QED
  BY <1>1, <1>2, <1>3, <1>4, <1>5

LEMMA EnterPhaseKeepsInv ==
  ASSUME NEW p \in {"connect", "serve", "drain", "close"},
         Inv, EnterPhase(p), phase # "exited",
         phase \in {"serve", "drain", "close"} => p \in {"serve", "drain", "close"},
         p # "close" => phase # "close" /\ ended' = ended,
         p = "close" => \E how \in {"failed", "drained", "late"} :
                          /\ ended' = [ended EXCEPT ![life] = how]
                          /\ how = "drained" => OpenConnections = {}
  PROVE  Inv'
<1> USE DEF Inv, EnterPhase
<1>1. Typing'
  BY DEF Typing, handlerVars, storeVars, Lives
<1>2. Current'
  BY DEF Typing, Current, handlerVars
<1>3. Ends'
  <2>1. CASE p # "close"
    <3>1. ended[life] = "not" /\ ended' = ended /\ life' = life /\ phase' = p
      BY <2>1 DEF Typing, Ends
    <3> QED
      BY <2>1, <3>1 DEF Ends
  <2>2. CASE p = "close"
    <3>1. PICK how \in {"failed", "drained", "late"} :
            /\ ended' = [ended EXCEPT ![life] = how]
            /\ how = "drained" => OpenConnections = {}
      BY <2>2
    <3>2. ended'[life] = how /\ \A l \in Lives : l > life => ended'[l] = "not"
      BY <3>1 DEF Typing, Ends, Lives
    <3> QED
      BY <2>2, <3>1, <3>2 DEF Ends, OpenConnections
  <2> QED
    BY <2>1, <2>2
<1>4. Past'
  <2>1. \A r \in Request : pc[r] = "cut" => born[r] \in Lives /\ born[r] # life
    BY DEF Past, Typing
  <2> QED
    BY <2>1 DEF Typing, Past, EndedOf, handlerVars, Lives
<1>5. Runs'
  BY DEF Runs, AtStage, StagesOf, handlerVars
<1> QED
  BY <1>1, <1>2, <1>3, <1>4, <1>5

LEMMA ProcessKeepsInv == Inv /\ Process => Inv'
<1> SUFFICES ASSUME Inv, Process PROVE Inv'
  OBVIOUS
<1>1. CASE ProbesEnd
  BY <1>1, EnterPhaseKeepsInv DEF ProbesEnd
<1>2. CASE Connected
  BY <1>2, EnterPhaseKeepsInv DEF Connected
<1>3. CASE ConnectFails
  <2>1. Handled = {} /\ Holders = {}
    BY <1>3 DEF ConnectFails, Handled, Holders, Inv, Current
  <2> QED
    BY <1>3, <2>1, EndKeepsInv DEF ConnectFails
<1>4. CASE Catch
  BY <1>4, EnterPhaseKeepsInv DEF Catch
<1>5. CASE Signal
  BY <1>5 DEF Signal, Inv, Typing, Current, Ends, Past, Runs, AtStage, StagesOf, EndedOf,
              handlerVars, storeVars
<1>6. CASE Killed
  BY <1>6, EndKeepsInv DEF Killed, Alive
<1>7. CASE ListenFails
  <2>1. CASE service = "agent"
    BY <1>7, <2>1, EnterPhaseKeepsInv DEF ListenFails
  <2>2. CASE service # "agent"
    BY <1>7, <2>2, EndKeepsInv DEF ListenFails
  <2> QED
    BY <2>1, <2>2
<1>8. CASE Shutdown
  BY <1>8, EnterPhaseKeepsInv DEF Shutdown
<1>9. CASE Drained
  BY <1>9, EnterPhaseKeepsInv DEF Drained, StopDraining
<1>10. CASE GraceExpires
  BY <1>10, EnterPhaseKeepsInv DEF GraceExpires, StopDraining
<1>11. CASE Exit
  <2>1. ended[life] \in {"failed", "drained", "late"}
    BY <1>11 DEF Exit, Inv, Ends
  <2>2. ended[life] = "drained" => Handled = {}
    BY DEF Inv, Ends, Handled
  <2> QED
    BY <1>11, <2>1, <2>2, EndKeepsInv DEF Exit
<1>12. CASE Restart
  <2> USE <1>12 DEF Restart, Alive, Inv, handlerVars
  <2>1. Typing'
    BY ServiceAssumption DEF Typing, FirstPhase, Lives
  <2>2. Current'
    BY DEF Current
  <2>3. Ends'
    BY ServiceAssumption DEF Ends, Typing, FirstPhase, Lives
  <2>4. Past'
    BY ServiceAssumption DEF Past, Typing, EndedOf, Lives
  <2>5. Runs'
    BY DEF Runs, AtStage, StagesOf
  <2> QED
    BY <2>1, <2>2, <2>3, <2>4, <2>5
<1> QED
  BY <1>1, <1>2, <1>3, <1>4, <1>5, <1>6, <1>7, <1>8, <1>9, <1>10, <1>11, <1>12 DEF Process

-----------------------------------------------------------------------------
(* The steps of a request. *)

Same(q) ==
  /\ pc'[q] = pc[q] /\ ask'[q] = ask[q] /\ born'[q] = born[q] /\ step'[q] = step[q]
  /\ conn'[q] = conn[q] /\ codex'[q] = codex[q] /\ known'[q] = known[q]

(* A step of one request keeps the invariant when that request keeps its part. *)
LEMMA RequestKeepsInv ==
  ASSUME NEW r \in Request, Inv, Typing', UNCHANGED processVars,
         \A q \in Request \ {r} : Same(q),
         pc'[r] \in {"connected", "handling"} =>
           /\ phase \in {"serve", "drain", "close"} /\ ended[life] # "drained"
           /\ pc'[r] = "handling" => born'[r] = life,
         pc'[r] = "cut" => pc[r] = "cut" /\ born'[r] = born[r] /\ conn'[r] = conn[r],
         codex'[r] => pc'[r] = "cut" \/ AtStage(r, "codex")'
  PROVE  Inv'
<1> USE DEF Inv, processVars
<1>1. Current'
  BY DEF Current, Same
<1>2. Ends'
  BY DEF Ends, Same
<1>3. Past'
  BY DEF Past, EndedOf, Same
<1>4. Runs'
  BY DEF Runs, AtStage, StagesOf, Same
<1> QED
  BY <1>1, <1>2, <1>3, <1>4

(* A handler that is served, and stays in hand or ends. *)
LEMMA HandlerKeepsInv ==
  ASSUME NEW r \in Request, Inv, Typing', UNCHANGED processVars,
         \A q \in Request \ {r} : Same(q),
         pc[r] = "handling", born' = born,
         pc'[r] \in {"handling", "answered", "left", "broken"},
         codex'[r] => AtStage(r, "codex")'
  PROVE  Inv'
<1>1. /\ phase \in {"serve", "drain", "close"} /\ ended[life] # "drained"
      /\ born[r] = life
  BY DEF Inv, Current, Ends
<1> QED
  BY <1>1, RequestKeepsInv

(* A handler that waits for nothing of Codex goes on with its stages. *)
LEMMA StepKeepsInv ==
  ASSUME NEW r \in Request, NEW stage, Inv, AtStage(r, stage), stage # "codex",
         HandlerWait, codex' = codex,
         conn' = conn \/ \E b \in BOOLEAN : conn' = [conn EXCEPT ![r] = b],
         step' = step \/ GoOn(r) \/ GiveUp(r)
  PROVE  Inv'
<1>1. ~codex[r] /\ pc[r] = "handling"
  BY DEF Inv, Runs, AtStage
<1>2. Typing'
  BY DEF Inv, Typing, HandlerWait, processVars, GoOn, GiveUp
<1>3. \A q \in Request \ {r} : Same(q)
  BY DEF Inv, Typing, Same, HandlerWait, GoOn, GiveUp
<1> QED
  BY <1>1, <1>2, <1>3, HandlerKeepsInv DEF HandlerWait

LEMMA RequestsKeepInv ==
  ASSUME NEW r \in Request, Inv,
         Connect(r) \/ Receive(r) \/ CloseIdle(r) \/ Leave(r) \/ CodexEnds(r) \/ Handler(r)
  PROVE  Inv'
<1> USE DEF handlerVars, storeVars
<1>1. CASE Connect(r)
  <2>1. phase = "serve" /\ ended[life] # "drained" /\ ~codex[r]
    BY <1>1 DEF Connect, Inv, Ends, Runs, AtStage
  <2>2. Typing' /\ \A q \in Request \ {r} : Same(q)
    BY <1>1 DEF Connect, Inv, Typing, Same, processVars
  <2> QED
    BY <1>1, <2>1, <2>2, RequestKeepsInv DEF Connect, Inv, Typing
<1>2. CASE Receive(r)
  <2>1. phase \in {"serve", "drain", "close"} /\ ended[life] # "drained" /\ ~codex[r]
    BY <1>2 DEF Receive, Inv, Current, Ends, Runs, AtStage
  <2>2. PICK a \in Asks[service] :
          /\ ask' = [ask EXCEPT ![r] = a]
          /\ \E b \in BOOLEAN : known' = [known EXCEPT ![r] = b]
    BY <1>2 DEF Receive
  <2>3. Typing' /\ \A q \in Request \ {r} : Same(q)
    BY <1>2, <2>2 DEF Receive, Inv, Typing, Same, processVars
  <2>4. pc'[r] = "handling" /\ born'[r] = life /\ codex' = codex
    BY <1>2 DEF Receive, Inv, Typing
  <2> QED
    BY <1>2, <2>1, <2>3, <2>4, RequestKeepsInv DEF Receive
<1>3. CASE CloseIdle(r)
  <2>1. Typing' /\ (\A q \in Request \ {r} : Same(q)) /\ pc'[r] = "refused" /\ ~codex[r]
    BY <1>3 DEF CloseIdle, Inv, Typing, Same, processVars, Runs, AtStage
  <2> QED
    BY <1>3, <2>1, RequestKeepsInv DEF CloseIdle
<1>4. CASE Leave(r)
  <2>1. Typing' /\ (\A q \in Request \ {r} : Same(q)) /\ pc[r] = "handling"
    BY <1>4 DEF Leave, Inv, Typing, Same, processVars
  <2>2. codex'[r] => AtStage(r, "codex")'
    BY <1>4 DEF Leave, Inv, Runs, AtStage, StagesOf
  <2> QED
    BY <1>4, <2>1, <2>2, HandlerKeepsInv DEF Leave
<1>5. CASE CodexEnds(r)
  <2>1. /\ Typing' /\ (\A q \in Request \ {r} : Same(q)) /\ ~codex'[r]
        /\ pc' = pc /\ born' = born /\ conn' = conn
    BY <1>5 DEF CodexEnds, GoOn, HandlerWait, Inv, Typing, Same, processVars
  <2>2. pc[r] \in {"connected", "handling"} =>
          /\ phase \in {"serve", "drain", "close"} /\ ended[life] # "drained"
          /\ pc[r] = "handling" => born[r] = life
    BY DEF Inv, Current, Ends
  <2> QED
    BY <1>5, <2>1, <2>2, RequestKeepsInv DEF CodexEnds, HandlerWait
<1>6. CASE Handler(r)
  <2>1. CASE UseConnection(r)
    BY <2>1, StepKeepsInv DEF UseConnection
  <2>2. CASE NoConnection(r)
    BY <2>2, StepKeepsInv DEF NoConnection
  <2>3. CASE ReleaseConnection(r)
    BY <2>3, StepKeepsInv DEF ReleaseConnection
  <2>4. CASE UpstreamEnds(r)
    BY <2>4, StepKeepsInv DEF UpstreamEnds
  <2>5. CASE StartCodex(r)
    <3>1. Typing' /\ (\A q \in Request \ {r} : Same(q)) /\ pc[r] = "handling" /\ pc' = pc
      BY <2>5 DEF StartCodex, HandlerWait, Inv, Typing, Same, processVars, AtStage
    <3>2. AtStage(r, "codex")'
      BY <2>5 DEF StartCodex, HandlerWait, AtStage, StagesOf
    <3> QED
      BY <2>5, <3>1, <3>2, HandlerKeepsInv DEF StartCodex, HandlerWait
  <2>6. CASE StoreTask(r)
    BY <2>6, StepKeepsInv DEF StoreTask
  <2>7. CASE FetchTask(r)
    BY <2>7, StepKeepsInv DEF FetchTask
  <2>8. CASE handleOOStream(r)
    BY <2>8, StepKeepsInv DEF handleOOStream
  <2>9. CASE EndStream(r)
    BY <2>9, StepKeepsInv DEF EndStream
  <2>10. CASE BreakStream(r) \/ Answer(r)
    <3>1. /\ Typing' /\ (\A q \in Request \ {r} : Same(q)) /\ pc[r] = "handling"
          /\ pc'[r] \in {"answered", "left", "broken"}
      BY <2>10 DEF BreakStream, Answer, AtStage, Inv, Typing, Same, processVars
    <3>2. ~codex'[r]
      BY <2>10 DEF BreakStream, Answer, AtStage, Inv, Runs, Typing
    <3> QED
      BY <2>10, <3>1, <3>2, HandlerKeepsInv DEF BreakStream, Answer
  <2>11. CASE Abandon(r)
    <3>1. /\ Typing' /\ (\A q \in Request \ {r} : Same(q)) /\ pc[r] = "handling"
          /\ pc'[r] = "left" /\ ~codex'[r]
      BY <2>11 DEF Abandon, Cancelled, AtStage, Inv, Typing, Same, processVars
    <3> QED
      BY <2>11, <3>1, HandlerKeepsInv DEF Abandon, Cancelled
  <2> QED
    BY <1>6, <2>1, <2>2, <2>3, <2>4, <2>5, <2>6, <2>7, <2>8, <2>9, <2>10, <2>11 DEF Handler
<1> QED
  BY <1>1, <1>2, <1>3, <1>4, <1>5, <1>6

LEMMA StutterKeepsInv == Inv /\ UNCHANGED vars => Inv'
  BY DEF Inv, Typing, Current, Ends, Past, Runs, EndedOf, AtStage, StagesOf, vars,
         processVars, handlerVars, storeVars

(* Connections, ends of lives, what was cut off and Codex stay as the invariant says,
   whatever the process and its clients do. *)
THEOREM ServiceInvariant == Spec => []Inv
<1>1. Inv /\ [Next]_vars => Inv'
  BY ProcessKeepsInv, RequestsKeepInv, StutterKeepsInv DEF Next
<1> QED
  BY InitInv, <1>1, PTL DEF Spec

(* However many requests, connections and restarts: a process that ends by itself has
   returned its connections first, so it leaves no transaction of a case behind. *)
THEOREM ServiceCutsNoTransaction == Spec => []NoTransactionCut
<1>1. Inv => NoTransactionCut
  BY DEF Inv, Past, NoTransactionCut
<1> QED
  BY ServiceInvariant, <1>1, PTL

(* A request is cut off, or Codex outlives its run, only when the grace was over, the
   listener failed or the process was killed. *)
THEOREM ServiceExplainsCuts == Spec => []CutExplained
<1>1. Inv => CutExplained
  BY DEF Inv, Past, Runs, AtStage, CutExplained
<1> QED
  BY ServiceInvariant, <1>1, PTL

-----------------------------------------------------------------------------
(* The tasks of the agent. *)

LEMMA StagesOfKind ==
  /\ Stages["create"] = <<"store">> /\ Stages["get"] = <<"fetch">>
  /\ \A kind \in Kind : \A n \in DOMAIN Stages[kind] :
       /\ Stages[kind][n] = "store" => kind = "create"
       /\ Stages[kind][n] = "fetch" => kind = "get"
  BY DEF Stages, Kind

(* Storing is all a creation does, fetching all a look-up does. *)
LEMMA TaskStages ==
  ASSUME NEW r \in Request, Inv, TaskTyping, pc[r] = "handling"
  PROVE  /\ AtStage(r, "store") => ask[r].kind = "create" /\ step[r] = 1
         /\ AtStage(r, "fetch") => ask[r].kind = "get" /\ step[r] = 1
         /\ ask[r].kind = "create" => \A s : AtStage(r, s) => s = "store"
         /\ ask[r].kind = "get" => \A s : AtStage(r, s) => s = "fetch"
<1>1. ask[r].kind \in Kind
  BY ServiceAssumption DEF TaskTyping, Inv, Typing
<1> QED
  BY <1>1, StagesOfKind DEF AtStage, StagesOf

LEMMA InitTaskInv == Init => TaskInv
  BY ServiceAssumption DEF Init, TaskInv, TaskTyping, Held, Found, Settled, IsAsk, Received,
     InitStore, NoTasks, Lives

(* The steps that touch nothing the tasks depend on. *)
LEMMA OtherVarsKeepTasks ==
  ASSUME TaskInv, Alive' = Alive,
         UNCHANGED <<service, life, pc, ask, born, step, known, tasks, reply>>
  PROVE  TaskInv'
  BY ZenonT(60) DEF TaskInv, TaskTyping, Held, Found, Settled, IsAsk, Received, AtStage, StagesOf

LEMMA EndKeepsTasks ==
  ASSUME NEW how, Inv, TaskInv, End(how)
  PROVE  TaskInv'
<1> USE DEF End, handlerVars, storeVars, a2aVars, TaskInv
<1>1. TaskTyping'
  BY DEF Inv, Typing, TaskTyping
<1>2. \A r \in Request : /\ Received(r)' = Received(r) /\ ~AtStage(r, "fetch")'
                         /\ Received(r) => Settled(r)'
  BY DEF Inv, Typing, Received, Settled, AtStage
<1>3. Held'
  BY <1>2 DEF Held, IsAsk, Alive, Settled
<1>4. Found'
  <2> SUFFICES ASSUME NEW r \in Request, IsAsk(r, "get")'
               PROVE  /\ ask[r].task \in Request
                      /\ pc'[r] = "answered" =>
                           /\ known[r] => reply[r] # NotFound
                           /\ reply[r] # NotFound =>
                                Settled(ask[r].task)' /\ reply[r] = reply[ask[r].task]
    BY <1>2 DEF Found, Inv, Typing
  <2>1. IsAsk(r, "get")
    BY <1>2 DEF IsAsk
  <2>2. pc'[r] = "answered" => pc[r] = "answered" /\ Settled(r)
    BY <2>1 DEF Inv, Typing, Settled, IsAsk, AtStage
  <2> QED
    BY <1>2, <2>1, <2>2 DEF Found, Settled
<1> QED
  BY <1>1, <1>3, <1>4

LEMMA ProcessKeepsTasks == Inv /\ TaskInv /\ Process => TaskInv'
<1> SUFFICES ASSUME Inv, TaskInv, Process PROVE TaskInv'
  OBVIOUS
<1>1. CASE ConnectFails \/ Killed \/ Exit \/ (ListenFails /\ service # "agent")
  BY <1>1, EndKeepsTasks DEF ConnectFails, Killed, Exit, ListenFails
<1>2. CASE \/ ProbesEnd \/ Connected \/ Catch \/ Signal \/ Shutdown \/ Drained
           \/ GraceExpires \/ (ListenFails /\ service = "agent")
  <2>1. Alive' = Alive /\ UNCHANGED <<service, life, pc, handlerVars, storeVars>>
    BY <1>2 DEF ProbesEnd, Connected, Catch, Signal, Shutdown, Drained, GraceExpires,
         StopDraining, ListenFails, EnterPhase, Alive
  <2> QED
    BY <2>1, OtherVarsKeepTasks DEF handlerVars, storeVars, a2aVars
<1>3. CASE Restart
  <2> USE <1>3 DEF Restart, handlerVars, TaskInv
  <2>1. \A r \in Request : pc[r] \notin {"connected", "handling"} /\ ~AtStage(r, "fetch")
    BY DEF Alive, Inv, Current, AtStage
  <2>2. TaskTyping'
    BY <2>1, ServiceAssumption DEF TaskTyping, Inv, Typing, NoTasks, Status, Lives
  <2>3. \A r \in Request : /\ Received(r)' = Received(r) /\ Settled(r)' = Settled(r)
                           /\ IsAsk(r, "get")' = IsAsk(r, "get")
                           /\ ~AtStage(r, "fetch")'
    BY <2>1 DEF Received, Settled, IsAsk, AtStage, StagesOf
  <2>4. Held'
    BY <2>1, <2>2 DEF Held, NoTasks, TaskTyping, Inv, Typing, Lives
  <2>5. Found'
    BY <2>1, <2>3 DEF Found
  <2> QED
    BY <2>2, <2>4, <2>5
<1> QED
  BY <1>1, <1>2, <1>3 DEF Process

(* A step of a handler that neither stores nor fetches. *)
LEMMA QuietKeepsTasks ==
  ASSUME NEW r \in Request, Inv, TaskInv, pc[r] = "handling",
         UNCHANGED <<processVars, ask, born, known, tasks, reply>>,
         \A q \in Request \ {r} : Same(q),
         pc'[r] \in {"handling", "answered", "left", "broken"},
         \A s \in {"store", "fetch"} :
           /\ AtStage(r, s)' => AtStage(r, s)
           /\ AtStage(r, s) /\ ~AtStage(r, s)' => pc'[r] \notin {"handling", "answered"}
  PROVE  TaskInv'
<1> USE DEF processVars, TaskInv
<1>1. \A q \in Request \ {r} :
        /\ Received(q)' = Received(q) /\ Settled(q)' = Settled(q)
        /\ \A s \in {"store", "fetch"} : AtStage(q, s)' = AtStage(q, s)
  BY DEF Same, Received, Settled, AtStage, StagesOf
<1>2. /\ Received(r) /\ Received(r)'
      /\ Settled(r) => Settled(r)'
      /\ Settled(r)' /\ pc'[r] \in {"handling", "answered"} => Settled(r)
  BY DEF Received, Settled
<1>3. TaskTyping'
  BY DEF TaskTyping, Same
<1>4. Held'
  BY <1>1, <1>2 DEF Held, IsAsk, Same, Alive
<1>5. Found'
  <2>1. \A q \in Request : Settled(q) => Settled(q)'
    BY <1>1, <1>2
  <2> QED
    BY <1>1, <1>2, <2>1 DEF Found, IsAsk, Same
<1> QED
  BY <1>3, <1>4, <1>5

(* Other handlers never come to a stage that stores or fetches. *)
LEMMA OtherStageKeepsTasks ==
  ASSUME NEW r \in Request, NEW stage \in {"conn", "upstream", "codex", "stream"},
         Inv, Inv', TaskInv, AtStage(r, stage),
         UNCHANGED <<processVars, ask, born, known, tasks, reply>>,
         \A q \in Request \ {r} : Same(q),
         pc'[r] \in {"handling", "answered", "left", "broken"}
  PROVE  TaskInv'
<1>1. pc[r] = "handling" /\ ask[r].kind \notin {"create", "get"} /\ ask[r].kind \in Kind
  BY TaskStages, ServiceAssumption DEF AtStage, TaskInv, TaskTyping, Inv, Typing
<1>2. ~AtStage(r, "store") /\ ~AtStage(r, "fetch")
  BY <1>1, TaskStages DEF TaskInv
<1>3. ~AtStage(r, "store")' /\ ~AtStage(r, "fetch")'
  BY <1>1, StagesOfKind DEF AtStage, StagesOf
<1> QED
  BY <1>1, <1>2, <1>3, QuietKeepsTasks

LEMMA ReceiveKeepsTasks ==
  ASSUME NEW r \in Request, Inv, TaskInv, Receive(r)
  PROVE  TaskInv'
<1> USE DEF Receive, TaskInv, storeVars, a2aVars, processVars
<1>1. PICK a \in Asks[service] :
        /\ ask' = [ask EXCEPT ![r] = a]
        /\ known' = [known EXCEPT ![r] =
             a.kind = "get" /\ pc[a.task] = "answered" /\ ask[a.task].kind = "create"
                            /\ born[a.task] = life]
  OBVIOUS
<1>2. /\ pc'[r] = "handling" /\ step[r] = 1 /\ ask'[r] = a /\ born'[r] = life
      /\ a.kind \in Kind /\ (a.kind = "get" => a.task \in Request)
  BY <1>1, ServiceAssumption DEF Inv, Typing, TaskTyping
<1>3. \A q \in Request \ {r} :
        /\ Received(q)' = Received(q) /\ Settled(q)' = Settled(q)
        /\ pc'[q] = pc[q] /\ ask'[q] = ask[q] /\ born'[q] = born[q] /\ known'[q] = known[q]
        /\ \A s \in {"store", "fetch"} : AtStage(q, s)' = AtStage(q, s)
  BY <1>1 DEF Received, Settled, AtStage, StagesOf, Inv, Typing
<1>4. ~Received(r) /\ ~Settled(r) /\ tasks[r] = NoTask
  BY DEF Received, Settled, Held
<1>5. /\ a.kind = "create" => AtStage(r, "store")'
      /\ a.kind = "get" => AtStage(r, "fetch")'
  BY <1>2, StagesOfKind DEF AtStage, StagesOf
<1>6. TaskTyping'
  BY <1>2, <1>3 DEF TaskTyping, Inv, Typing, Lives
<1>7. Held'
  BY <1>2, <1>3, <1>4, <1>5 DEF Held, IsAsk, Settled, Alive
<1>8. Found'
  <2>1. \A q \in Request : Settled(q) => Settled(q)'
    BY <1>3, <1>4
  <2>2. a.kind = "get" /\ known'[r] => tasks[a.task] # NoTask
    <3> SUFFICES ASSUME a.kind = "get", known'[r] PROVE tasks[a.task] # NoTask
      OBVIOUS
    <3>1. /\ a.task \in Request /\ pc[a.task] = "answered"
          /\ ask[a.task].kind = "create" /\ born[a.task] = life
      BY <1>1, <1>2 DEF Inv, Typing
    <3>2. Settled(a.task) /\ IsAsk(a.task, "create")
      BY <3>1 DEF Settled, Received, IsAsk, AtStage
    <3> QED
      BY <3>1, <3>2 DEF Held
  <2>3. \A q \in Request \ {r} : IsAsk(q, "get")' = IsAsk(q, "get")
    BY <1>3 DEF IsAsk
  <2> QED
    BY <1>2, <1>3, <1>5, <2>1, <2>2, <2>3 DEF Found, IsAsk, Settled
<1> QED
  BY <1>6, <1>7, <1>8

LEMMA StoreKeepsTasks ==
  ASSUME NEW r \in Request, Inv, TaskInv, StoreTask(r)
  PROVE  TaskInv'
<1> USE DEF StoreTask, HandlerWait, GoOn, TaskInv, processVars
<1>1. pc[r] = "handling" /\ ask[r].kind = "create" /\ step[r] = 1
  BY TaskStages DEF AtStage
<1>2. PICK record \in Status : /\ tasks' = [tasks EXCEPT ![r] = record]
                               /\ reply' = [reply EXCEPT ![r] = record]
  BY DEF createTask, Rewritten, evaluateObservabilityRequest, Status
<1>3. Received(r) /\ ~Settled(r) /\ Settled(r)'
  BY <1>1, StagesOfKind DEF Received, Settled, AtStage, StagesOf, Inv, Typing
<1>4. \A q \in Request \ {r} :
        /\ Settled(q)' = Settled(q) /\ reply'[q] = reply[q] /\ tasks'[q] = tasks[q]
        /\ AtStage(q, "fetch")' = AtStage(q, "fetch")
  BY <1>2 DEF Received, Settled, AtStage, StagesOf, Inv, Typing, TaskTyping
<1>5. tasks'[r] = record /\ reply'[r] = record /\ record # NoTask /\ ~IsAsk(r, "get")
  BY <1>1, <1>2 DEF TaskTyping, Status, NoTask, IsAsk
<1>6. TaskTyping'
  BY <1>1, <1>2 DEF TaskTyping, Inv, Typing
<1>7. Held'
  BY <1>1, <1>3, <1>4, <1>5 DEF Held, IsAsk, Received, Alive
<1>8. Found'
  BY <1>3, <1>4, <1>5 DEF Found, IsAsk, Received
<1> QED
  BY <1>6, <1>7, <1>8

LEMMA FetchKeepsTasks ==
  ASSUME NEW r \in Request, Inv, TaskInv, FetchTask(r)
  PROVE  TaskInv'
<1> USE DEF FetchTask, HandlerWait, GoOn, TaskInv, processVars
<1> DEFINE task == ask[r].task
<1>1. pc[r] = "handling" /\ ask[r].kind = "get" /\ step[r] = 1 /\ IsAsk(r, "get")
  BY TaskStages DEF AtStage, IsAsk, Received
<1>2. task \in Request
  BY <1>1 DEF Found
<1>3. /\ tasks' = tasks
      /\ reply' = [reply EXCEPT ![r] = IF tasks[task] = NoTask THEN NotFound
                                       ELSE tasks[task]]
  BY DEF getTask
<1>4. Received(r) /\ ~Settled(r) /\ Settled(r)' /\ tasks[r] = NoTask
  BY <1>1, StagesOfKind DEF Received, Settled, AtStage, StagesOf, Inv, Typing, Held, IsAsk
<1>5. \A q \in Request \ {r} :
        /\ Settled(q)' = Settled(q) /\ reply'[q] = reply[q]
        /\ AtStage(q, "fetch")' = AtStage(q, "fetch")
  BY <1>3 DEF Received, Settled, AtStage, StagesOf, Inv, Typing, TaskTyping
<1>6. TaskTyping'
  BY <1>1, <1>2, <1>3 DEF TaskTyping, Inv, Typing
<1>7. Held'
  BY <1>1, <1>3, <1>4, <1>5 DEF Held, IsAsk, Received, Alive
<1>8. reply'[r] # NotFound => Settled(task)' /\ reply'[r] = reply'[task]
  BY <1>2, <1>3, <1>4, <1>5 DEF Held, TaskTyping
<1>9. known[r] => reply'[r] # NotFound
  <2>1. known[r] => tasks[task] # NoTask
    BY <1>1 DEF Found
  <2>2. tasks[task] # NotFound
    BY <1>2 DEF TaskTyping, Status, NoTask, NotFound
  <2> QED
    BY <1>2, <1>3, <2>1, <2>2 DEF TaskTyping
<1>10. Found'
  <2>1. ~AtStage(r, "fetch")'
    BY <1>4 DEF Settled
  <2>2. \A q \in Request : Settled(q) => Settled(q)'
    BY <1>4, <1>5
  <2> QED
    BY <1>1, <1>2, <1>3, <1>4, <1>5, <1>8, <1>9, <2>1, <2>2 DEF Found, IsAsk, Received
<1> QED
  BY <1>6, <1>7, <1>10

LEMMA RequestsKeepTasks ==
  ASSUME NEW r \in Request, Inv, Inv', TaskInv,
         Connect(r) \/ Receive(r) \/ CloseIdle(r) \/ Leave(r) \/ CodexEnds(r) \/ Handler(r)
  PROVE  TaskInv'
<1> USE DEF handlerVars, storeVars, a2aVars
<1>1. CASE Connect(r) \/ CloseIdle(r)
  <2> USE <1>1 DEF Connect, CloseIdle, TaskInv, processVars
  <2>1. /\ ~Received(r) /\ ~Received(r)' /\ step[r] = 1
        /\ \A q \in Request : /\ Received(q)' = Received(q) /\ Settled(q)' = Settled(q)
                              /\ pc'[q] = pc[q] \/ q = r
                              /\ Received(q) => AtStage(q, "fetch")' = AtStage(q, "fetch")
    BY DEF Received, Settled, AtStage, StagesOf, Inv, Typing, TaskTyping
  <2>2. TaskTyping'
    BY <2>1 DEF TaskTyping, Inv, Typing, Received
  <2>3. Held' /\ Found'
    BY <2>1 DEF Held, Found, IsAsk, Alive
  <2> QED
    BY <2>2, <2>3
<1>2. CASE Receive(r)
  BY <1>2, ReceiveKeepsTasks
<1>3. CASE Leave(r)
  BY <1>3, OtherVarsKeepTasks DEF Leave, processVars, Alive
<1>4. CASE CodexEnds(r)
  <2>1. CASE AtStage(r, "codex")
    <3>1. (\A q \in Request \ {r} : Same(q)) /\ pc[r] = "handling" /\ pc' = pc
      BY <1>4, <2>1 DEF CodexEnds, GoOn, HandlerWait, Inv, Typing, Same, AtStage
    <3> QED
      BY <1>4, <2>1, <3>1, OtherStageKeepsTasks DEF CodexEnds, HandlerWait
  <2>2. CASE ~AtStage(r, "codex")
    BY <1>4, <2>2, OtherVarsKeepTasks DEF CodexEnds, HandlerWait, processVars, Alive
  <2> QED
    BY <2>1, <2>2
<1>5. CASE Handler(r)
  <2>1. CASE \/ UseConnection(r) \/ NoConnection(r) \/ ReleaseConnection(r)
             \/ UpstreamEnds(r) \/ StartCodex(r) \/ handleOOStream(r) \/ EndStream(r)
    <3>1. PICK stage \in {"conn", "upstream", "codex", "stream"} : AtStage(r, stage)
      BY <2>1 DEF UseConnection, NoConnection, ReleaseConnection, UpstreamEnds, StartCodex,
           handleOOStream, EndStream
    <3>2. /\ HandlerWait /\ UNCHANGED <<tasks, reply>>
          /\ \A q \in Request \ {r} : Same(q)
      BY <2>1 DEF UseConnection, NoConnection, ReleaseConnection, UpstreamEnds, StartCodex,
           handleOOStream, EndStream, HandlerWait, GoOn, GiveUp, Same, Inv, Typing
    <3> QED
      BY <3>1, <3>2, OtherStageKeepsTasks DEF HandlerWait, AtStage
  <2>2. CASE StoreTask(r)
    BY <2>2, StoreKeepsTasks
  <2>3. CASE FetchTask(r)
    BY <2>3, FetchKeepsTasks
  <2>4. CASE BreakStream(r) \/ Abandon(r)
    <3>1. PICK stage \in {"conn", "upstream", "codex", "stream"} : AtStage(r, stage)
      BY <2>4 DEF BreakStream, Abandon, Cancelled
    <3>2. /\ UNCHANGED <<processVars, ask, born, known, tasks, reply>>
          /\ pc'[r] \in {"left", "broken"} /\ \A q \in Request \ {r} : Same(q)
      BY <2>4 DEF BreakStream, Abandon, Cancelled, Same, Inv, Typing
    <3> QED
      BY <3>1, <3>2, OtherStageKeepsTasks
  <2>5. CASE Answer(r)
    <3>1. /\ UNCHANGED <<processVars, ask, born, known, tasks, reply>>
          /\ pc[r] = "handling" /\ pc'[r] \in {"answered", "left"}
          /\ \A q \in Request \ {r} : Same(q)
          /\ \A s : ~AtStage(r, s) /\ ~AtStage(r, s)'
      BY <2>5 DEF Answer, Same, Inv, Typing, AtStage
    <3> QED
      BY <3>1, QuietKeepsTasks
  <2> QED
    BY <1>5, <2>1, <2>2, <2>3, <2>4, <2>5 DEF Handler
<1> QED
  BY <1>1, <1>2, <1>3, <1>4, <1>5

LEMMA TaskInvariant == Spec => [](Inv /\ TaskInv)
<1>1. Inv /\ TaskInv /\ [Next]_vars => Inv' /\ TaskInv'
  <2> SUFFICES ASSUME Inv, TaskInv, [Next]_vars PROVE Inv' /\ TaskInv'
    OBVIOUS
  <2>1. Inv'
    BY ProcessKeepsInv, RequestsKeepInv, StutterKeepsInv DEF Next
  <2>2. CASE UNCHANGED vars
    <3>1. UNCHANGED <<phase, service, life, pc, ask, born, step, known, tasks, reply>>
      BY <2>2 DEF vars, processVars, handlerVars, storeVars, a2aVars
    <3> QED
      BY <2>1, <3>1, OtherVarsKeepTasks DEF Alive
  <2> QED
    BY <2>1, <2>2, ProcessKeepsTasks, RequestsKeepTasks DEF Next
<1> QED
  BY InitInv, InitTaskInv, <1>1, PTL DEF Spec

(* However many calls and restarts: a task whose id was answered is found by everyone
   who asks the same process for it, and as it was answered. *)
THEOREM ServiceKeepsTasks == Spec => []TasksReadable
<1>1. Inv /\ TaskInv => TasksReadable
  BY DEF Inv, Typing, TaskInv, Found, IsAsk, Received, Settled, AtStage, TasksReadable
<1> QED
  BY TaskInvariant, <1>1, PTL

-----------------------------------------------------------------------------
(* Types, and the connections of the pool. *)

RestTyping ==
  /\ catching \in BOOLEAN /\ signalled \in BOOLEAN
  /\ ask \in [Request -> Asks[service] \cup {Nothing}]
  /\ step \in [Request -> 1..3] /\ present \in [Request -> BOOLEAN]

(* A connection is held by a handler that uses one, or was when it was cut off. *)
ConnInUse(r) == conn[r] => pc[r] = "cut" \/ AtStage(r, "conn")
PoolHolds == IsFiniteSet(Holders) /\ Cardinality(Holders) <= PoolSize

HoldInv == RestTyping /\ (\A r \in Request : ConnInUse(r)) /\ PoolHolds

LEMMA StagesAreFew ==
  \A kind \in Kind : DOMAIN Stages[kind] \subseteq 1..2 /\ Len(Stages[kind]) \in 1..2
  BY DEF Stages, Kind

LEMMA InitHoldInv == Init => HoldInv
<1> SUFFICES ASSUME Init PROVE HoldInv
  OBVIOUS
<1>1. Holders = {}
  BY DEF Init, Holders, Handled
<1>2. PoolHolds
  BY <1>1, ServiceAssumption, FS_EmptySet DEF PoolHolds
<1>3. catching \in BOOLEAN /\ signalled \in BOOLEAN
  BY DEF Init
<1>4. /\ ask \in [Request -> Asks[service] \cup {Nothing}]
      /\ step \in [Request -> 1..3] /\ present \in [Request -> BOOLEAN]
  BY DEF Init
<1>5. \A r \in Request : ConnInUse(r)
  BY DEF Init, ConnInUse
<1> QED
  BY <1>2, <1>3, <1>4, <1>5 DEF HoldInv, RestTyping

(* Fewer holders fit the pool as well. *)
LEMMA FewerHolders ==
  ASSUME PoolHolds, Holders' \subseteq Holders
  PROVE  PoolHolds'
<1>1. IsFiniteSet(Holders') /\ Cardinality(Holders') <= Cardinality(Holders)
  BY FS_Subset DEF PoolHolds
<1>2. Cardinality(Holders) \in Nat /\ Cardinality(Holders') \in Nat /\ PoolSize \in Nat
  BY <1>1, FS_CardinalityType, ServiceAssumption DEF PoolHolds
<1> QED
  BY <1>1, <1>2 DEF PoolHolds

LEMMA ProcessKeepsHold == Inv /\ HoldInv /\ Process => HoldInv'
<1> SUFFICES ASSUME Inv, HoldInv, Process PROVE HoldInv'
  OBVIOUS
<1> USE DEF handlerVars
<1>1. CASE \E how : End(how)
  <2>1. PICK how : End(how)
    BY <1>1
  <2>2. RestTyping'
    BY <2>1 DEF End, HoldInv, RestTyping
  <2>3. \A r \in Request : ConnInUse(r)'
    BY <2>1 DEF End, HoldInv, ConnInUse, AtStage, Inv, Typing
  <2>4. Holders' = {}
    BY <2>1 DEF End, Holders, Handled
  <2> QED
    BY <2>2, <2>3, <2>4, FewerHolders DEF HoldInv
<1>2. CASE UNCHANGED <<service, pc, ask, step, present, conn>>
            /\ catching' \in BOOLEAN /\ signalled' \in BOOLEAN
  <2>1. RestTyping' /\ \A r \in Request : ConnInUse(r)'
    BY <1>2 DEF HoldInv, RestTyping, ConnInUse, AtStage, StagesOf
  <2>2. Holders' = Holders
    BY <1>2 DEF Holders, Handled
  <2> QED
    BY <2>1, <2>2, FewerHolders DEF HoldInv
<1> QED
  BY <1>1, <1>2 DEF Process, ProbesEnd, Connected, ConnectFails, Catch, Signal, Killed,
     ListenFails, Shutdown, Drained, GraceExpires, StopDraining, Exit, Restart, EnterPhase,
     HoldInv, RestTyping

(* A step of one request that takes no connection. *)
LEMMA RequestKeepsHold ==
  ASSUME NEW r \in Request, HoldInv, RestTyping',
         \A q \in Request \ {r} : Same(q),
         ConnInUse(r)',
         conn'[r] /\ pc'[r] = "handling" => conn[r] /\ pc[r] = "handling"
  PROVE  HoldInv'
<1>1. \A q \in Request : ConnInUse(q)'
  BY DEF HoldInv, ConnInUse, Same, AtStage, StagesOf
<1>2. Holders' \subseteq Holders
  BY DEF Holders, Handled, Same
<1> QED
  BY <1>1, <1>2, FewerHolders DEF HoldInv

LEMMA UseKeepsHold ==
  ASSUME NEW r \in Request, Inv, HoldInv, UseConnection(r)
  PROVE  HoldInv'
<1> USE DEF UseConnection, HandlerWait, processVars
<1>1. RestTyping' /\ \A q \in Request : ConnInUse(q)'
  BY DEF HoldInv, RestTyping, ConnInUse, AtStage, StagesOf, Inv, Typing
<1>2. Holders' = Holders \cup {r}
  BY DEF Holders, Handled, AtStage, Inv, Typing
<1> PICK old : old = Holders
  OBVIOUS
<1>3. IsFiniteSet(old) /\ Cardinality(old) \in Nat /\ Cardinality(old) < PoolSize
  BY FS_CardinalityType DEF HoldInv, PoolHolds
<1>4. /\ IsFiniteSet(old \cup {r})
      /\ Cardinality(old \cup {r}) = IF r \in old THEN Cardinality(old) ELSE Cardinality(old) + 1
  BY <1>3, FS_AddElement
<1>5. PoolHolds'
  BY <1>2, <1>3, <1>4, ServiceAssumption DEF PoolHolds
<1> QED
  BY <1>1, <1>5 DEF HoldInv

(* A handler at a stage goes on, stays, or gives up. *)
LEMMA StageTypes ==
  ASSUME NEW r \in Request, NEW stage, Inv, TaskInv, HoldInv, AtStage(r, stage),
         step' = step \/ GoOn(r) \/ GiveUp(r)
  PROVE  step' \in [Request -> 1..3]
<1>1. ask[r].kind \in Kind /\ step[r] \in DOMAIN StagesOf(r)
  BY ServiceAssumption DEF AtStage, TaskInv, TaskTyping, Inv, Typing
<1> PICK n : n = Len(StagesOf(r))
  OBVIOUS
<1>2. step[r] \in 1..2 /\ n \in 1..2
  BY <1>1, StagesAreFew DEF StagesOf
<1>3. step[r] + 1 \in 1..3 /\ n + 1 \in 1..3
  <2>1. \A k \in 1..2 : k + 1 \in 1..3
    OBVIOUS
  <2> QED
    BY <1>2, <2>1
<1>4. step \in [Request -> 1..3]
  BY DEF HoldInv, RestTyping
<1> QED
  BY <1>3, <1>4 DEF GoOn, GiveUp

LEMMA RequestsKeepHold ==
  ASSUME NEW r \in Request, Inv, TaskInv, HoldInv,
         Connect(r) \/ Receive(r) \/ CloseIdle(r) \/ Leave(r) \/ CodexEnds(r) \/ Handler(r)
  PROVE  HoldInv'
<1> USE DEF handlerVars, storeVars, a2aVars, processVars
<1>1. CASE Connect(r) \/ CloseIdle(r)
  <2>1. RestTyping' /\ (\A q \in Request \ {r} : Same(q)) /\ ~conn'[r]
    BY <1>1 DEF Connect, CloseIdle, HoldInv, RestTyping, ConnInUse, AtStage, Same, Inv, Typing
  <2> QED
    BY <2>1, RequestKeepsHold DEF ConnInUse
<1>2. CASE Receive(r)
  <2>1. PICK a \in Asks[service] : ask' = [ask EXCEPT ![r] = a]
    BY <1>2 DEF Receive
  <2>2. RestTyping' /\ ~conn'[r]
    BY <1>2, <2>1 DEF Receive, HoldInv, RestTyping, ConnInUse, AtStage
  <2>3. \A q \in Request \ {r} : Same(q)
    BY <1>2, <2>1 DEF Receive, Same, Inv, Typing
  <2> QED
    BY <2>2, <2>3, RequestKeepsHold DEF ConnInUse
<1>3. CASE Leave(r)
  <2>1. RestTyping' /\ \A q \in Request \ {r} : Same(q)
    BY <1>3 DEF Leave, HoldInv, RestTyping, Same
  <2>2. ConnInUse(r)' /\ pc' = pc /\ conn' = conn
    BY <1>3 DEF Leave, HoldInv, ConnInUse, AtStage, StagesOf
  <2> QED
    BY <2>1, <2>2, RequestKeepsHold
<1>4. CASE CodexEnds(r)
  <2>1. \A q \in Request \ {r} : Same(q)
    BY <1>4 DEF CodexEnds, GoOn, HandlerWait, Same, Inv, Typing
  <2>2. RestTyping'
    <3>1. step' \in [Request -> 1..3]
      BY <1>4, StageTypes DEF CodexEnds, HoldInv, RestTyping
    <3> QED
      BY <1>4, <3>1 DEF CodexEnds, HandlerWait, HoldInv, RestTyping
  <2>3. ConnInUse(r)' /\ pc' = pc /\ conn' = conn
    BY <1>4 DEF CodexEnds, HandlerWait, HoldInv, ConnInUse, AtStage, StagesOf
  <2> QED
    BY <2>1, <2>2, <2>3, RequestKeepsHold
<1>5. CASE UseConnection(r)
  BY <1>5, UseKeepsHold
<1>6. CASE \/ NoConnection(r) \/ ReleaseConnection(r) \/ UpstreamEnds(r) \/ StartCodex(r)
           \/ StoreTask(r) \/ FetchTask(r) \/ handleOOStream(r) \/ EndStream(r)
  <2>1. PICK stage : AtStage(r, stage) /\ (stage = "conn" => ~conn'[r]) /\ conn'[r] \in {conn[r], FALSE}
    BY <1>6 DEF NoConnection, ReleaseConnection, UpstreamEnds, StartCodex, StoreTask, FetchTask,
         handleOOStream, EndStream, Inv, Typing
  <2>2. HandlerWait /\ (step' = step \/ GoOn(r) \/ GiveUp(r))
    BY <1>6 DEF NoConnection, ReleaseConnection, UpstreamEnds, StartCodex, StoreTask, FetchTask,
         handleOOStream, EndStream
  <2>3. \A q \in Request \ {r} : Same(q)
    BY <1>6 DEF NoConnection, ReleaseConnection, UpstreamEnds, StartCodex, StoreTask, FetchTask,
         handleOOStream, EndStream, HandlerWait, GoOn, GiveUp, Same, Inv, Typing
  <2>4. RestTyping'
    <3>1. step' \in [Request -> 1..3]
      BY <2>1, <2>2, StageTypes
    <3> QED
      BY <2>2, <3>1 DEF HandlerWait, HoldInv, RestTyping
  <2>5. ~conn'[r]
    BY <2>1 DEF HoldInv, ConnInUse, AtStage, Inv, Typing
  <2> QED
    BY <2>3, <2>4, <2>5, RequestKeepsHold DEF ConnInUse
<1>7. CASE BreakStream(r) \/ Answer(r) \/ Abandon(r)
  <2>1. RestTyping' /\ \A q \in Request \ {r} : Same(q)
    BY <1>7 DEF BreakStream, Answer, Abandon, Cancelled, HoldInv, RestTyping, Same, Inv, Typing
  <2>2. ~conn'[r]
    BY <1>7 DEF BreakStream, Answer, Abandon, Cancelled, HoldInv, ConnInUse, AtStage, Inv, Typing
  <2> QED
    BY <2>1, <2>2, RequestKeepsHold DEF ConnInUse
<1> QED
  BY <1>1, <1>2, <1>3, <1>4, <1>5, <1>6, <1>7 DEF Handler

(* The variables have their types, nobody has two connections, and all of them together
   no more than the pool (cmd/main.go:180) has; who is answered, was refused or has left
   has none. *)
THEOREM ServiceTypeCorrect == Spec => []TypeOK
<1>1. Inv /\ TaskInv /\ HoldInv /\ [Next]_vars => HoldInv'
  <2> SUFFICES ASSUME Inv, TaskInv, HoldInv, [Next]_vars PROVE HoldInv'
    OBVIOUS
  <2>1. CASE UNCHANGED vars
    <3>1. UNCHANGED <<service, catching, signalled, pc, ask, step, present, conn>>
      BY <2>1 DEF vars, processVars, handlerVars
    <3>2. RestTyping' /\ \A r \in Request : ConnInUse(r)'
      BY <3>1 DEF HoldInv, RestTyping, ConnInUse, AtStage, StagesOf
    <3>3. Holders' = Holders
      BY <3>1 DEF Holders, Handled
    <3> QED
      BY <3>2, <3>3, FewerHolders DEF HoldInv
  <2> QED
    BY <2>1, ProcessKeepsHold, RequestsKeepHold DEF Next
<1>2. ASSUME Inv, TaskInv, HoldInv PROVE TypeOK
  <2>1. \A r \in Request : conn[r] => pc[r] \in {"handling", "cut"}
    BY <1>2 DEF HoldInv, ConnInUse, AtStage
  <2> QED
    BY <1>2, <2>1 DEF TypeOK, Inv, Typing, TaskInv, TaskTyping, HoldInv, RestTyping, PoolHolds
<1> QED
  BY <1>1, <1>2, InitHoldInv, TaskInvariant, PTL DEF Spec

-----------------------------------------------------------------------------
(* The stream of the bridge.  First what the records of the first lines are: their recursive
   definition has a solution, because the least length without one would be one more than
   a length that has one. *)

LEMMA SmallestIn ==
  ASSUME NEW T, T \subseteq Nat, T # {}
  PROVE  \E x \in T : \A y \in T : ~(y < x)
<1> DEFINE Less == {ss \in Nat \X Nat : ss[1] < ss[2]}
<1>1. IsWellFoundedOn(Less, Nat)
  BY ONLY NatLessThanWellFounded, Zenon DEF OpToRel
<1>2. \E x \in T : \A y \in T : ~(<<y, x>> \in Less)
  <2> HIDE DEF Less
  <2> QED
    BY <1>1, WFMin
<1> QED
  BY <1>2

Tag(line, type, tenant) == [type |-> type, tenant |-> tenant, record |-> line]
Entry(tenant) == [type : Type, tenant : {tenant}, record : Record]

(* What the first n lines give, when f says what fewer lines give. *)
ReadOn(f, n, lines, type, tenant) ==
  IF n = 0 THEN <<>>
  ELSE IF lines[n] \in Record THEN Append(f[n - 1], Tag(lines[n], type, tenant)) ELSE f[n - 1]

Reads(f, m, lines, type, tenant) ==
  f = [n \in 0..m |-> ReadOn(f, n, lines, type, tenant)]

LEMMA ReadingExists ==
  ASSUME NEW lines, NEW type, NEW tenant, NEW m \in Nat
  PROVE  \E f : Reads(f, m, lines, type, tenant)
<1> DEFINE T == {n \in Nat : ~\E f : Reads(f, n, lines, type, tenant)}
<1>1. SUFFICES ASSUME T # {} PROVE FALSE
  OBVIOUS
<1>2. PICK x \in T : \A y \in T : ~(y < x)
  <2> HIDE DEF T
  <2>1. T \subseteq Nat
    BY DEF T
  <2> QED
    BY <1>1, <2>1, SmallestIn
<1>3. CASE x = 0
  <2> DEFINE f == [n \in 0..0 |-> <<>>]
  <2>1. Reads(f, 0, lines, type, tenant)
    BY DEF Reads, ReadOn
  <2> QED
    BY <1>2, <1>3, <2>1
<1>4. CASE x # 0
  <2>1. x - 1 \in Nat /\ x - 1 < x
    BY <1>2, <1>4
  <2>2. PICK f : Reads(f, x - 1, lines, type, tenant)
    BY <1>2, <2>1
  <2> DEFINE g == [n \in 0..x |-> ReadOn(f, n, lines, type, tenant)]
  <2>3. \A n \in 0..(x - 1) : f[n] = ReadOn(f, n, lines, type, tenant)
    BY <2>2 DEF Reads
  <2>4. \A n \in 0..x : ReadOn(g, n, lines, type, tenant) = ReadOn(f, n, lines, type, tenant)
    <3> SUFFICES ASSUME NEW n \in 0..x
                 PROVE  ReadOn(g, n, lines, type, tenant) = ReadOn(f, n, lines, type, tenant)
      OBVIOUS
    <3>1. CASE n = 0
      BY <3>1, Zenon DEF ReadOn
    <3>2. CASE n # 0
      <4>1. n - 1 \in 0..(x - 1) /\ n - 1 \in 0..x
        BY <1>2, <3>2
      <4>2. g[n - 1] = f[n - 1]
        BY <2>3, <4>1
      <4> HIDE DEF g
      <4> QED
        BY <3>2, <4>2 DEF ReadOn
    <3> QED
      BY <3>1, <3>2
  <2>5. Reads(g, x, lines, type, tenant)
    BY <2>4 DEF Reads
  <2> QED
    BY <1>2, <2>5
<1> QED
  BY <1>3, <1>4

LEMMA TaggedReads ==
  ASSUME NEW lines, NEW type, NEW tenant, Len(lines) \in Nat
  PROVE  Reads(Tagged(lines, type, tenant), Len(lines), lines, type, tenant)
<1>1. PICK f : Reads(f, Len(lines), lines, type, tenant)
  BY ReadingExists
<1> QED
  BY ONLY <1>1, Zenon DEF Reads, ReadOn, Tag, Tagged

LEMMA TaggedIs ==
  ASSUME NEW lines \in Seq(Line), NEW type \in Type, NEW tenant
  PROVE  /\ Tagged(lines, type, tenant)[0] = <<>>
         /\ \A n \in 1..Len(lines) :
              Tagged(lines, type, tenant)[n] =
                ReadOn(Tagged(lines, type, tenant), n, lines, type, tenant)
         /\ \A n \in 0..Len(lines) : Tagged(lines, type, tenant)[n] \in Seq(Entry(tenant))
<1> DEFINE f == Tagged(lines, type, tenant)
<1>0. Len(lines) \in Nat
  OBVIOUS
<1>1. \A n \in 0..Len(lines) : f[n] = ReadOn(f, n, lines, type, tenant)
  BY <1>0, TaggedReads DEF Reads
<1> HIDE DEF f
<1>2. f[0] = <<>>
  BY <1>0, <1>1 DEF ReadOn
<1>3. ASSUME NEW n \in 1..Len(lines), f[n - 1] \in Seq(Entry(tenant))
      PROVE  f[n] \in Seq(Entry(tenant))
  <2>1. f[n] = ReadOn(f, n, lines, type, tenant) /\ n # 0
    BY <1>1
  <2>2. lines[n] \in Record => Tag(lines[n], type, tenant) \in Entry(tenant)
    BY DEF Tag, Entry
  <2> QED
    BY <1>3, <2>1, <2>2 DEF ReadOn
<1>4. ASSUME NEW n \in 0..Len(lines) PROVE f[n] \in Seq(Entry(tenant))
  <2> DEFINE T == {k \in 0..Len(lines) : f[k] \notin Seq(Entry(tenant))}
  <2>1. SUFFICES ASSUME T # {} PROVE FALSE
    OBVIOUS
  <2>2. PICK x \in T : \A y \in T : ~(y < x)
    <3>1. T \subseteq Nat
      OBVIOUS
    <3> HIDE DEF T
    <3> QED
      BY <2>1, <3>1, SmallestIn
  <2>3. x # 0
    <3>1. <<>> \in Seq(Entry(tenant))
      OBVIOUS
    <3> QED
      BY <1>2, <2>2, <3>1
  <2>4. x \in 1..Len(lines) /\ x - 1 \in 0..Len(lines) /\ x - 1 < x
    BY <2>2, <2>3
  <2>5. f[x - 1] \in Seq(Entry(tenant))
    BY <2>2, <2>4
  <2> QED
    BY <1>3, <2>2, <2>4, <2>5
<1> QED
  BY <1>1, <1>2, <1>4 DEF f

LEMMA OneMoreTagged ==
  ASSUME NEW lines \in Seq(Line), NEW type \in Type, NEW tenant, NEW n \in Nat, n < Len(lines)
  PROVE  Tagged(lines, type, tenant)[n + 1] =
           IF lines[n + 1] \in Record
           THEN Append(Tagged(lines, type, tenant)[n], Tag(lines[n + 1], type, tenant))
           ELSE Tagged(lines, type, tenant)[n]
<1>1. n + 1 \in 1..Len(lines) /\ n + 1 # 0 /\ (n + 1) - 1 = n
  OBVIOUS
<1> DEFINE f == Tagged(lines, type, tenant)
<1>2. f[n + 1] = ReadOn(f, n + 1, lines, type, tenant)
  BY <1>1, TaggedIs
<1> HIDE DEF f
<1>3. f[n + 1] = IF lines[n + 1] \in Record THEN Append(f[n], Tag(lines[n + 1], type, tenant)) ELSE f[n]
  BY <1>1, <1>2 DEF ReadOn
<1> QED
  BY <1>3 DEF f

LEMMA AppendToLast ==
  ASSUME NEW S, NEW a \in Seq(S), NEW b \in Seq(S), NEW e \in S
  PROVE  Append(a \o b, e) = a \o Append(b, e)
<1>1. <<e>> \in Seq(S) /\ a \o b \in Seq(S)
  OBVIOUS
<1>2. Append(a \o b, e) = (a \o b) \o <<e>> /\ Append(b, e) = b \o <<e>>
  BY <1>1, AppendIsConcat
<1> QED
  BY <1>1, <1>2, ConcatAssociative

(* Three pieces, of which one grows and the later ones are empty. *)
LEMMA PieceGrows ==
  ASSUME NEW S, NEW a \in Seq(S), NEW b \in Seq(S), NEW e \in S
  PROVE  /\ Append(a, e) \o <<>> \o <<>> = Append(a \o <<>> \o <<>>, e)
         /\ a \o Append(b, e) \o <<>> = Append(a \o b \o <<>>, e)
<1>1. a \o b \in Seq(S) /\ Append(a, e) \in Seq(S) /\ Append(b, e) \in Seq(S)
  OBVIOUS
<1>2. a \o Append(b, e) \in Seq(S)
  BY <1>1
<1>3. Append(a, e) \o <<>> \o <<>> = Append(a \o <<>> \o <<>>, e)
  BY <1>1, ConcatEmptySeq
<1>4. a \o Append(b, e) \o <<>> = Append(a \o b \o <<>>, e)
  BY <1>1, <1>2, ConcatEmptySeq, AppendToLast
<1> QED
  BY <1>3, <1>4

From(source, tenant, read) == FirstRecords(source, tenant, read[1], read[2], read[3])

(* Of the kinds after the k-th nothing is read, and a line of the k-th is left. *)
IsReading(source, read, k) ==
  /\ k \in 1..3 /\ read \in [1..3 -> Nat]
  /\ \A n \in 1..3 : read[n] <= Len(source[Types[n]]) /\ (n > k => read[n] = 0)
  /\ read[k] < Len(source[Types[k]])

GoesOn(read, more, k) == \A n \in 1..3 : more[n] = IF n = k THEN read[k] + 1 ELSE read[n]
NextLine(source, read, k) == source[Types[k]][read[k] + 1]

LEMMA OneMoreLine ==
  ASSUME NEW source \in [Type -> Seq(Line)], NEW tenant, NEW read, NEW k, NEW more,
         IsReading(source, read, k), GoesOn(read, more, k)
  PROVE  From(source, tenant, more) =
           IF NextLine(source, read, k) \in Record
           THEN Append(From(source, tenant, read), Tag(NextLine(source, read, k), Types[k], tenant))
           ELSE From(source, tenant, read)
<1> DEFINE S == Entry(tenant)
           line == NextLine(source, read, k)
           f(n) == Tagged(source[Types[n]], Types[n], tenant)
           tag == Tag(line, Types[k], tenant)
<1>0. /\ k \in 1..3 /\ read \in [1..3 -> Nat] /\ read[k] < Len(source[Types[k]])
      /\ \A n \in 1..3 : read[n] <= Len(source[Types[n]]) /\ (n > k => read[n] = 0)
  BY DEF IsReading
<1>1. /\ Types[1] = "logs" /\ Types[2] = "metrics" /\ Types[3] = "traces"
      /\ \A n \in 1..3 : Types[n] \in Type
  BY DEF Type, Types
<1>2. \A n \in 1..3 : source[Types[n]] \in Seq(Line) /\ read[n] \in 0..Len(source[Types[n]])
  BY <1>0, <1>1
<1>3. \A n \in 1..3 : more[n] = IF n = k THEN read[k] + 1 ELSE read[n]
  BY DEF GoesOn
<1>4. \A n \in 1..3 : f(n)[read[n]] \in Seq(S) /\ f(n)[0] = <<>>
  BY <1>1, <1>2, TaggedIs
<1>5. \A any : From(source, tenant, any) = f(1)[any[1]] \o f(2)[any[2]] \o f(3)[any[3]]
  BY <1>1, Zenon DEF From, FirstRecords
<1>6. f(k)[read[k] + 1] = IF line \in Record THEN Append(f(k)[read[k]], tag) ELSE f(k)[read[k]]
  <2>1. Types[k] \in Type /\ source[Types[k]] \in Seq(Line) /\ read[k] \in Nat
    BY <1>0, <1>1, <1>2
  <2> QED
    BY <1>0, <2>1, OneMoreTagged DEF NextLine
<1>7. line \in Record => tag \in S
  BY <1>0, <1>1 DEF Tag, Entry
<1>8. f(1)[read[1]] \in Seq(S) /\ f(2)[read[2]] \in Seq(S) /\ f(3)[read[3]] \in Seq(S)
  BY <1>4
<1>9. f(1)[0] = <<>> /\ f(2)[0] = <<>> /\ f(3)[0] = <<>>
  BY <1>4
<1>10. k = 1 \/ k = 2 \/ k = 3
  BY <1>0
<1>11. /\ k # 1 => more[1] = read[1]
       /\ k # 2 => more[2] = read[2]
       /\ k # 3 => more[3] = read[3]
       /\ more[k] = read[k] + 1
       /\ k < 3 => read[3] = 0
       /\ k < 2 => read[2] = 0
  BY <1>0, <1>3
<1> HIDE DEF f, line, tag, S
<1>12. CASE line \notin Record
  <2>1. f(1)[more[1]] = f(1)[read[1]] /\ f(2)[more[2]] = f(2)[read[2]] /\ f(3)[more[3]] = f(3)[read[3]]
    BY <1>6, <1>10, <1>11, <1>12
  <2>2. From(source, tenant, more) = From(source, tenant, read)
    BY ONLY <1>5, <2>1
  <2> QED
    BY <1>12, <2>2 DEF line
<1>13. CASE line \in Record
  <2>1. tag \in S /\ f(k)[more[k]] = Append(f(k)[read[k]], tag)
    BY <1>6, <1>7, <1>11, <1>13
  <2>2. PICK a, b, c : a = f(1)[read[1]] /\ b = f(2)[read[2]] /\ c = f(3)[read[3]]
    OBVIOUS
  <2>3. a \in Seq(S) /\ b \in Seq(S) /\ c \in Seq(S)
    BY ONLY <1>8, <2>2
  <2>4. From(source, tenant, read) = a \o b \o c
    BY ONLY <1>5, <2>2
  <2>5. From(source, tenant, more) = Append(From(source, tenant, read), tag)
    <3>1. CASE k = 1
      <4>1. b = <<>> /\ c = <<>>
        BY ONLY <1>9, <1>11, <2>2, <3>1
      <4>2. f(1)[more[1]] = Append(a, tag)
        BY ONLY <2>1, <2>2, <3>1
      <4>3. f(2)[more[2]] = b /\ f(3)[more[3]] = c
        BY ONLY <1>11, <2>2, <3>1
      <4>4. From(source, tenant, more) = Append(a, tag) \o <<>> \o <<>>
        BY ONLY <1>5, <4>1, <4>2, <4>3
      <4> QED
        BY ONLY <2>1, <2>3, <2>4, <4>1, <4>4, PieceGrows
    <3>2. CASE k = 2
      <4>1. c = <<>>
        BY ONLY <1>9, <1>11, <2>2, <3>2
      <4>2. f(2)[more[2]] = Append(b, tag)
        BY ONLY <2>1, <2>2, <3>2
      <4>3. f(1)[more[1]] = a /\ f(3)[more[3]] = c
        BY ONLY <1>11, <2>2, <3>2
      <4>4. From(source, tenant, more) = a \o Append(b, tag) \o <<>>
        BY ONLY <1>5, <4>1, <4>2, <4>3
      <4> QED
        BY ONLY <2>1, <2>3, <2>4, <4>1, <4>4, PieceGrows
    <3>3. CASE k = 3
      <4>1. f(3)[more[3]] = Append(c, tag)
        BY ONLY <2>1, <2>2, <3>3
      <4>2. f(1)[more[1]] = a /\ f(2)[more[2]] = b
        BY ONLY <1>11, <2>2, <3>3
      <4>3. From(source, tenant, more) = a \o b \o Append(c, tag)
        BY ONLY <1>5, <4>1, <4>2
      <4>4. a \o b \o Append(c, tag) = Append(a \o b \o c, tag)
        <5>1. a \o b \in Seq(S)
          BY ONLY <2>3
        <5>2. c \in Seq(S) /\ tag \in S
          BY ONLY <2>1, <2>3
        <5>3. \A d \in Seq(S), x \in Seq(S), e \in S : d \o Append(x, e) = Append(d \o x, e)
          BY ONLY AppendToLast
        <5> QED
          BY ONLY <5>1, <5>2, <5>3
      <4> QED
        BY ONLY <2>4, <4>3, <4>4
    <3> QED
      BY <1>10, <3>1, <3>2, <3>3
  <2> QED
    BY <1>13, <2>5 DEF line, tag
<1> QED
  BY <1>12, <1>13

(* How far a stream is. *)
Streamed(tenant) ==
  [type : 1..4, open : BOOLEAN, line : Nat \ {0}, got : Seq(Entry(tenant)), sound : BOOLEAN]
Cursor(s) == IF s.open THEN s.line - 1 ELSE 0

(* The kinds before this one are read, to the end while OpenObserve is sound, this one as
   far as the cursor, and those after it not at all. *)
HasRead(s, source, tenant, read) ==
  /\ s \in Streamed(tenant) /\ read \in [1..3 -> Nat]
  /\ \A n \in 1..3 :
       /\ read[n] <= Len(source[Types[n]])
       /\ n < s.type /\ s.sound => read[n] = Len(source[Types[n]])
       /\ n = s.type => read[n] = Cursor(s)
       /\ n > s.type => read[n] = 0
  /\ s.got = From(source, tenant, read)

LEMMA StreamedFields ==
  ASSUME NEW tenant, NEW s \in Streamed(tenant),
         NEW a \in 1..4, NEW b \in BOOLEAN, NEW c \in BOOLEAN, NEW n \in Nat \ {0}
  PROVE  /\ [s EXCEPT !.open = b, !.line = n] \in Streamed(tenant)
         /\ [s EXCEPT !.type = a, !.sound = c] \in Streamed(tenant)
         /\ [s EXCEPT !.type = a, !.open = b, !.sound = c] \in Streamed(tenant)
  BY DEF Streamed

InOrder(s, source, tenant) == \E read : HasRead(s, source, tenant, read)

LEMMA StartInOrder ==
  ASSUME NEW source \in [Type -> Seq(Line)], NEW tenant
  PROVE  InOrder(NotStreamed, source, tenant)
<1> DEFINE read == [n \in 1..3 |-> 0]
<1>1. \A n \in 1..3 : Types[n] \in Type /\ Len(source[Types[n]]) \in Nat
  BY DEF Type, Types
<1>2. <<>> \in Seq(Entry(tenant))
  OBVIOUS
<1>3. NotStreamed \in Streamed(tenant)
  BY <1>2 DEF NotStreamed, Streamed
<1>4. From(source, tenant, read) = <<>>
  <2>1. /\ Tagged(source["logs"], "logs", tenant)[0] = <<>>
        /\ Tagged(source["metrics"], "metrics", tenant)[0] = <<>>
        /\ Tagged(source["traces"], "traces", tenant)[0] = <<>>
    <3>1. "logs" \in Type /\ "metrics" \in Type /\ "traces" \in Type
      BY DEF Type, Types
    <3>2. \A type \in Type : source[type] \in Seq(Line)
      OBVIOUS
    <3> QED
      BY ONLY <3>1, <3>2, TaggedIs
  <2>2. <<>> \o <<>> \o <<>> = <<>>
    BY <1>2, ConcatEmptySeq
  <2>3. read[1] = 0 /\ read[2] = 0 /\ read[3] = 0
    OBVIOUS
  <2> HIDE DEF read
  <2> QED
    BY ONLY <2>1, <2>2, <2>3 DEF From, FirstRecords
<1>5. NotStreamed.type = 1 /\ Cursor(NotStreamed) = 0 /\ NotStreamed.got = <<>>
  BY DEF NotStreamed, Cursor
<1> QED
  BY <1>1, <1>3, <1>4, <1>5 DEF InOrder, HasRead

LEMMA OpenInOrder ==
  ASSUME NEW source, NEW tenant, NEW s, InOrder(s, source, tenant), ~s.open,
         NEW s2, s2 = [s EXCEPT !.open = TRUE, !.line = 1]
  PROVE  InOrder(s2, source, tenant)
<1>1. PICK read : HasRead(s, source, tenant, read)
  BY DEF InOrder
<1>2. s2 \in Streamed(tenant)
  <2>1. s \in Streamed(tenant)
    BY <1>1 DEF HasRead
  <2>2. 1 \in Nat \ {0} /\ 4 \in 1..4
    OBVIOUS
  <2>3. TRUE \in BOOLEAN
    OBVIOUS
  <2> QED
    BY ONLY <2>1, <2>2, <2>3, StreamedFields, s2 = [s EXCEPT !.open = TRUE, !.line = 1], Zenon
<1>3. /\ s2.type = s.type /\ s2.sound = s.sound /\ s2.got = s.got
      /\ Cursor(s2) = Cursor(s)
  BY <1>1 DEF HasRead, Streamed, Cursor
<1> QED
  BY <1>1, <1>2, <1>3 DEF InOrder, HasRead

LEMMA FailInOrder ==
  ASSUME NEW source, NEW tenant, NEW s, InOrder(s, source, tenant), ~s.open, s.type \in 1..3,
         NEW s2, s2 = [s EXCEPT !.type = 4, !.sound = FALSE]
  PROVE  InOrder(s2, source, tenant)
<1>1. PICK read : HasRead(s, source, tenant, read)
  BY DEF InOrder
<1>2. s2 \in Streamed(tenant)
  <2>1. s \in Streamed(tenant)
    BY <1>1 DEF HasRead
  <2>2. 1 \in Nat \ {0} /\ 4 \in 1..4
    OBVIOUS
  <2>3. FALSE \in BOOLEAN
    OBVIOUS
  <2> QED
    BY ONLY <2>1, <2>2, <2>3, StreamedFields, s2 = [s EXCEPT !.type = 4, !.sound = FALSE], Zenon
<1>3. s2.type = 4 /\ ~s2.sound /\ s2.got = s.got
  BY <1>1 DEF HasRead, Streamed
<1> QED
  BY <1>1, <1>2, <1>3 DEF InOrder, HasRead

LEMMA StopInOrder ==
  ASSUME NEW source \in [Type -> Seq(Line)], NEW tenant, NEW s, InOrder(s, source, tenant),
         s.open, s.type \in 1..3, NEW toEnd \in BOOLEAN,
         toEnd => s.line > Len(source[Types[s.type]]),
         NEW s2, s2 = [s EXCEPT !.type = @ + 1, !.open = FALSE, !.sound = @ /\ toEnd]
  PROVE  InOrder(s2, source, tenant)
<1>1. PICK read : HasRead(s, source, tenant, read)
  BY DEF InOrder
<1>2. s2 \in Streamed(tenant)
  <2>1. s \in Streamed(tenant)
    BY <1>1 DEF HasRead
  <2>2. PICK a \in 1..4 : a = s.type + 1
    OBVIOUS
  <2>3. PICK b \in BOOLEAN : b = FALSE
    BY Zenon
  <2>4. PICK c \in BOOLEAN : c = (s.sound /\ toEnd)
    BY Zenon
  <2>5. s2 = [s EXCEPT !.type = a, !.open = b, !.sound = c]
    BY ONLY <2>2, <2>3, <2>4, Zenon, s2 = [s EXCEPT !.type = @ + 1, !.open = FALSE, !.sound = @ /\ toEnd]
  <2>6. [s EXCEPT !.type = a, !.open = b, !.sound = c] \in Streamed(tenant)
    BY ONLY <2>1, 1 \in Nat \ {0}, a \in 1..4, b \in BOOLEAN, c \in BOOLEAN, StreamedFields
  <2> QED
    BY <2>5, <2>6
<1>3. s2.type = s.type + 1 /\ ~s2.open /\ s2.got = s.got
  BY <1>1 DEF HasRead, Streamed
<1>4. s2.sound => s.sound /\ toEnd
  BY <1>1 DEF HasRead, Streamed
<1>5. Cursor(s2) = 0 /\ read[s.type] = s.line - 1
  BY <1>1, <1>3 DEF HasRead, Cursor
<1>6. s2.sound => read[s.type] = Len(source[Types[s.type]])
  <2>1. Types[s.type] \in Type
    BY DEF Type
  <2>2. Len(source[Types[s.type]]) \in Nat /\ s.line \in Nat
    BY <1>1, <2>1 DEF HasRead, Streamed
  <2>3. read[s.type] <= Len(source[Types[s.type]])
    BY <1>1 DEF HasRead
  <2> QED
    BY <1>4, <1>5, <2>2, <2>3
<1>7. ASSUME NEW n \in 1..3
      PROVE  /\ read[n] <= Len(source[Types[n]])
             /\ n < s2.type /\ s2.sound => read[n] = Len(source[Types[n]])
             /\ n = s2.type => read[n] = Cursor(s2)
             /\ n > s2.type => read[n] = 0
  BY <1>1, <1>3, <1>4, <1>5, <1>6 DEF HasRead
<1> QED
  BY <1>1, <1>2, <1>3, <1>7 DEF InOrder, HasRead

LEMMA LineInOrder ==
  ASSUME NEW source \in [Type -> Seq(Line)], NEW tenant, NEW s, InOrder(s, source, tenant),
         s.open, s.type \in 1..3, s.line <= Len(source[Types[s.type]]),
         NEW s2 \in Streamed(tenant), s2.type = s.type, s2.open, s2.sound = s.sound,
         s2.line = s.line + 1,
         s2.got = IF source[Types[s.type]][s.line] \in Record
                  THEN Append(s.got, Tag(source[Types[s.type]][s.line], Types[s.type], tenant))
                  ELSE s.got
  PROVE  InOrder(s2, source, tenant)
<1>1. PICK read : HasRead(s, source, tenant, read)
  BY DEF InOrder
<1> DEFINE k == s.type
           more == [read EXCEPT ![k] = @ + 1]
<1>2. s.line \in Nat /\ read \in [1..3 -> Nat]
  BY <1>1 DEF HasRead, Streamed
<1>3. read[k] = s.line - 1 /\ Cursor(s2) = s.line
  BY <1>1, <1>2 DEF HasRead, Cursor
<1>4. read[k] + 1 = s.line
  BY <1>2, <1>3
<1>5. Types[k] \in Type
  BY DEF Type
<1>6. Len(source[Types[k]]) \in Nat
  BY <1>5
<1>7. more \in [1..3 -> Nat] /\ \A n \in 1..3 : more[n] = IF n = k THEN s.line ELSE read[n]
  BY <1>2, <1>4
<1>8. s2.got = From(source, tenant, more)
  <2>1. read[k] < Len(source[Types[k]])
    BY <1>2, <1>3, <1>6
  <2>2. IsReading(source, read, k)
    BY <1>1, <1>2, <2>1 DEF HasRead, IsReading
  <2>3. GoesOn(read, more, k) /\ NextLine(source, read, k) = source[Types[k]][s.line]
    BY <1>4, <1>7 DEF GoesOn, NextLine
  <2>4. s.got = From(source, tenant, read)
    BY <1>1 DEF HasRead
  <2> HIDE DEF more
  <2> QED
    BY <2>2, <2>3, <2>4, OneMoreLine
<1>9. ASSUME NEW n \in 1..3
      PROVE  /\ more[n] <= Len(source[Types[n]])
             /\ n < s2.type /\ s2.sound => more[n] = Len(source[Types[n]])
             /\ n = s2.type => more[n] = Cursor(s2)
             /\ n > s2.type => more[n] = 0
  <2>1. CASE n = k
    BY <1>3, <1>7, <2>1
  <2>2. CASE n # k
    BY <1>1, <1>7, <2>2 DEF HasRead
  <2> QED
    BY <2>1, <2>2
<1> HIDE DEF more
<1> QED
  BY <1>7, <1>8, <1>9 DEF InOrder, HasRead

(* What a request has streamed. *)
StreamOf(r) ==
  /\ pc[r] \in {"idle", "connected"} => stream[r] = NotStreamed
  /\ ask[r].kind = "stream" =>
       /\ ask[r].lines \in [Type -> Seq(Line)]
       /\ InOrder(stream[r], ask[r].lines, ask[r].tenant)
       /\ ask[r].window /\ step[r] # 1 => stream[r].type = 4
       /\ pc[r] = "answered" => step[r] # 1

StreamInv == DOMAIN stream = Request /\ \A r \in Request : StreamOf(r)

LEMMA QuietKeepsStream ==
  ASSUME NEW r \in Request, StreamOf(r),
         ask'[r] = ask[r], step'[r] = step[r], stream'[r] = stream[r],
         pc'[r] \in {"idle", "connected"} => pc[r] \in {"idle", "connected"},
         pc'[r] = "answered" => pc[r] = "answered"
  PROVE  StreamOf(r)'
  BY DEF StreamOf

(* A request for something else streams nothing. *)
LEMMA OthersStreamNothing ==
  ASSUME NEW r \in Request, ask'[r].kind # "stream", pc'[r] \notin {"idle", "connected"}
  PROVE  StreamOf(r)'
  BY DEF StreamOf

LEMMA StreamStages ==
  ASSUME NEW r \in Request, Inv, TaskInv, pc[r] = "handling"
  PROVE  /\ AtStage(r, "stream") => ask[r].kind = "stream"
         /\ ask[r].kind = "stream" =>
              /\ \A s : AtStage(r, s) => s = "stream" /\ step[r] = 1
              /\ step[r] \notin DOMAIN StagesOf(r) => step[r] # 1
<1>1. ask[r].kind \in Kind
  BY ServiceAssumption DEF TaskInv, TaskTyping, Inv, Typing
<1>2. /\ Stages["stream"] = <<"stream">>
      /\ \A kind \in Kind : \A n \in DOMAIN Stages[kind] : Stages[kind][n] = "stream" => kind = "stream"
  BY DEF Stages, Kind
<1> QED
  BY <1>1, <1>2 DEF AtStage, StagesOf

LEMMA ReceiveKeepsStream ==
  ASSUME NEW r \in Request, Inv, TaskInv, StreamOf(r), Receive(r)
  PROVE  StreamOf(r)'
<1>1. PICK a \in Asks[service] : ask' = [ask EXCEPT ![r] = a]
  BY DEF Receive
<1>2. ask'[r] = a /\ pc'[r] = "handling" /\ step'[r] = 1
  BY <1>1 DEF Receive, TaskInv, TaskTyping, Inv, Typing
<1>3. stream'[r] = NotStreamed
  BY DEF Receive, StreamOf, storeVars
<1>4. a.kind = "stream" => a.lines \in [Type -> Seq(Line)]
  BY ServiceAssumption DEF Inv, Typing
<1>5. a.kind = "stream" => InOrder(NotStreamed, a.lines, a.tenant)
  BY <1>4, StartInOrder
<1> QED
  BY <1>2, <1>3, <1>4, <1>5 DEF StreamOf

LEMMA ReadKeepsStream ==
  ASSUME NEW r \in Request, Inv, TaskInv, StreamInv, handleOOStream(r)
  PROVE  StreamOf(r)'
<1> DEFINE s == stream[r]
           source == ask[r].lines
           tenant == ask[r].tenant
<1>1. /\ pc[r] = "handling" /\ ask[r].kind = "stream" /\ step[r] = 1
      /\ UNCHANGED <<pc, ask, step>>
  BY StreamStages DEF handleOOStream, AtStage, HandlerWait
<1>2. source \in [Type -> Seq(Line)] /\ InOrder(s, source, tenant)
  BY <1>1 DEF StreamInv, StreamOf
<1>3. s.type \in 1..4 /\ s \in Streamed(tenant)
  BY <1>2 DEF InOrder, HasRead, Streamed
<1>4. Len(Types) = 3 /\ DOMAIN stream = Request
  BY DEF Types, StreamInv
<1>5. SUFFICES InOrder(stream'[r], source, tenant)
  BY <1>1, <1>2 DEF StreamOf
<1>6. CASE Open(r)
  <2>1. ~s.open /\ stream'[r] = [s EXCEPT !.open = TRUE, !.line = 1]
    BY <1>4, <1>6 DEF Open
  <2> QED
    BY <1>2, <2>1, OpenInOrder
<1>7. CASE OpenFails(r)
  <2>1. ~s.open /\ s.type \in 1..3 /\ stream'[r] = [s EXCEPT !.type = 4, !.sound = FALSE]
    BY <1>3, <1>4, <1>7 DEF OpenFails, Streaming
  <2> QED
    BY <1>2, <2>1, FailInOrder
<1>8. CASE Streaming(r) /\ ScannerStops(r, Lines(r))
  <2>1. PICK toEnd \in BOOLEAN : toEnd <=> s.line > Len(Lines(r))
    <3>1. CASE s.line > Len(Lines(r))
      BY <3>1, TRUE \in BOOLEAN, Zenon
    <3>2. CASE ~(s.line > Len(Lines(r)))
      BY <3>2, FALSE \in BOOLEAN, Zenon
    <3> QED
      BY <3>1, <3>2
  <2>2. stream'[r] = [s EXCEPT !.type = @ + 1, !.open = FALSE, !.sound = @ /\ toEnd]
    BY <1>4, <1>8, <2>1 DEF ScannerStops, ToNextType
  <2>3. s.open /\ s.type \in 1..3
    BY <1>3, <1>4, <1>8 DEF ScannerStops, Streaming
  <2>4. toEnd => s.line > Len(source[Types[s.type]])
    BY ONLY <2>1 DEF Lines, OpenType
  <2> QED
    BY <1>2, <2>2, <2>3, <2>4, StopInOrder
<1>9. CASE Streaming(r) /\ PassOn(r, Lines(r), ask[r].tenant)
  <2>1. /\ s.open /\ s.type \in 1..3 /\ s.line <= Len(source[Types[s.type]])
        /\ source[Types[s.type]][s.line] \in Record
    BY <1>3, <1>4, <1>9 DEF PassOn, Streaming, Lines, OpenType
  <2>2. stream'[r] = [s EXCEPT !.line = @ + 1,
                       !.got = Append(@, Tag(source[Types[s.type]][s.line], Types[s.type], tenant))]
    BY <1>4, <1>9 DEF PassOn, Lines, OpenType, Tag
  <2>3. Tag(source[Types[s.type]][s.line], Types[s.type], tenant) \in Entry(tenant)
    BY <2>1 DEF Tag, Entry, Type
  <2>4. PICK tag \in Entry(tenant) : tag = Tag(source[Types[s.type]][s.line], Types[s.type], tenant)
    BY <2>3
  <2>5. stream'[r] = [s EXCEPT !.line = @ + 1, !.got = Append(@, tag)]
    BY <2>2, <2>4
  <2>6. PICK n, got : n = s.line + 1 /\ got = Append(s.got, tag)
    OBVIOUS
  <2>7. n \in Nat \ {0} /\ got \in Seq(Entry(tenant))
    <3>1. s.line \in Nat /\ s.got \in Seq(Entry(tenant))
      BY <1>3 DEF Streamed
    <3>2. n \in Nat \ {0}
      BY <2>6, <3>1
    <3>3. Append(s.got, tag) \in Seq(Entry(tenant))
      BY ONLY <3>1, tag \in Entry(tenant)
    <3> QED
      BY <2>6, <3>2, <3>3
  <2>8. stream'[r] = [s EXCEPT !.line = n, !.got = got]
    BY <2>5, <2>6
  <2>9. /\ stream'[r] \in Streamed(tenant) /\ stream'[r].type = s.type
        /\ stream'[r].open = s.open /\ stream'[r].sound = s.sound
        /\ stream'[r].line = n /\ stream'[r].got = got
    BY <1>3, <2>7, <2>8 DEF Streamed
  <2> QED
    BY <1>2, <2>1, <2>4, <2>6, <2>9, LineInOrder
<1>10. CASE Streaming(r) /\ SkipMalformed(r, Lines(r))
  <2>1. /\ s.open /\ s.type \in 1..3 /\ s.line <= Len(source[Types[s.type]])
        /\ source[Types[s.type]][s.line] = Malformed
    BY <1>3, <1>4, <1>10 DEF SkipMalformed, AtMalformed, Streaming, Lines, OpenType
  <2>2. source[Types[s.type]][s.line] \notin Record
    BY <2>1, RecordAssumption
  <2>3. stream'[r] = [s EXCEPT !.line = @ + 1]
    BY <1>4, <1>10 DEF SkipMalformed
  <2>4. /\ stream'[r] \in Streamed(tenant) /\ stream'[r].type = s.type
        /\ stream'[r].open = s.open /\ stream'[r].sound = s.sound
        /\ stream'[r].line = s.line + 1 /\ stream'[r].got = s.got
    BY <1>3, <2>3 DEF Streamed
  <2> QED
    BY <1>2, <2>1, <2>2, <2>4, LineInOrder
<1> QED
  BY <1>6, <1>7, <1>8, <1>9, <1>10 DEF handleOOStream

(* Everybody else's stream stands while one request goes on. *)
LEMMA OthersKeepStream ==
  ASSUME NEW r \in Request, StreamInv, DOMAIN stream' = Request, StreamOf(r)',
         \A q \in Request \ {r} : Same(q) /\ stream'[q] = stream[q]
  PROVE  StreamInv'
<1>1. ASSUME NEW q \in Request \ {r} PROVE StreamOf(q)'
  <2>1. StreamOf(q) /\ Same(q) /\ stream'[q] = stream[q]
    BY DEF StreamInv
  <2> QED
    BY <2>1, QuietKeepsStream DEF Same
<1> QED
  BY <1>1 DEF StreamInv

LEMMA ProcessKeepsStreams ==
  ASSUME Inv, StreamInv, Process
  PROVE  StreamInv'
<1>1. UNCHANGED <<ask, step, stream>>
  BY DEF Process, ProbesEnd, Connected, ConnectFails, Catch, Signal, Killed, ListenFails,
     Shutdown, Drained, GraceExpires, StopDraining, Exit, Restart, EnterPhase, End,
     handlerVars, storeVars
<1>2. \A r \in Request : pc'[r] = pc[r] \/ pc'[r] \in {"cut", "refused"}
  BY DEF Process, ProbesEnd, Connected, ConnectFails, Catch, Signal, Killed, ListenFails,
     Shutdown, Drained, GraceExpires, StopDraining, Exit, Restart, EnterPhase, End
<1>3. ASSUME NEW r \in Request PROVE StreamOf(r)'
  <2>1. StreamOf(r)
    BY DEF StreamInv
  <2> QED
    BY <1>1, <1>2, <2>1, QuietKeepsStream
<1> QED
  BY <1>1, <1>3 DEF StreamInv

LEMMA RequestsKeepStreams ==
  ASSUME NEW r \in Request, Inv, TaskInv, StreamInv,
         Connect(r) \/ Receive(r) \/ CloseIdle(r) \/ Leave(r) \/ CodexEnds(r) \/ Handler(r)
  PROVE  StreamInv'
<1> USE DEF handlerVars, storeVars, a2aVars
<1>0. StreamOf(r) /\ DOMAIN stream = Request
  BY DEF StreamInv
<1>1. \A q \in Request \ {r} : Same(q)
  <2>1. CASE Receive(r)
    BY <2>1 DEF Receive, Same, Inv, Typing
  <2>2. CASE Connect(r) \/ CloseIdle(r) \/ Leave(r) \/ CodexEnds(r)
    BY <2>2 DEF Connect, CloseIdle, Leave, CodexEnds, HandlerWait, GoOn, Same, Inv, Typing
  <2>3. CASE Handler(r)
    <3>1. CASE UseConnection(r) \/ NoConnection(r) \/ ReleaseConnection(r) \/ UpstreamEnds(r)
      BY <3>1 DEF UseConnection, NoConnection, ReleaseConnection, UpstreamEnds, HandlerWait,
         GoOn, GiveUp, Same, Inv, Typing
    <3>2. CASE \/ StartCodex(r) \/ StoreTask(r) \/ FetchTask(r) \/ handleOOStream(r)
               \/ EndStream(r)
      BY <3>2 DEF StartCodex, StoreTask, FetchTask, handleOOStream, EndStream, HandlerWait,
         GoOn, Same, Inv, Typing
    <3>3. CASE BreakStream(r) \/ Answer(r) \/ Abandon(r)
      BY <3>3 DEF BreakStream, Answer, Abandon, Cancelled, Same, Inv, Typing
    <3> QED
      BY <2>3, <3>1, <3>2, <3>3 DEF Handler
  <2> QED
    BY <2>1, <2>2, <2>3
<1>2. DOMAIN stream' = Request /\ \A q \in Request \ {r} : stream'[q] = stream[q]
  <2>1. CASE handleOOStream(r)
    BY <1>0, <2>1 DEF handleOOStream, Open, OpenFails, ScannerStops, ToNextType, PassOn,
       SkipMalformed
  <2>2. CASE ~handleOOStream(r)
    <3>1. stream' = stream
      BY <2>2 DEF Connect, Receive, CloseIdle, Leave, CodexEnds, Handler, UseConnection,
         NoConnection, ReleaseConnection, UpstreamEnds, StartCodex, StoreTask, FetchTask,
         EndStream, BreakStream, Answer, Abandon, Cancelled
    <3> QED
      BY <1>0, <3>1
  <2> QED
    BY <2>1, <2>2
<1>3. StreamOf(r)'
  <2>1. CASE Connect(r) \/ CloseIdle(r) \/ Leave(r) \/ BreakStream(r) \/ Abandon(r)
             \/ UseConnection(r) \/ StartCodex(r)
    <3>1. UNCHANGED <<ask, step, stream>>
      BY <2>1 DEF Connect, CloseIdle, Leave, BreakStream, Abandon, Cancelled, UseConnection,
         StartCodex, HandlerWait
    <3>2. /\ pc'[r] \in {"idle", "connected"} => pc[r] \in {"idle", "connected"}
          /\ pc'[r] = "answered" => pc[r] = "answered"
      BY <2>1 DEF Connect, CloseIdle, Leave, BreakStream, Abandon, Cancelled, UseConnection,
         StartCodex, HandlerWait, Inv, Typing
    <3> QED
      BY <1>0, <3>1, <3>2, QuietKeepsStream
  <2>2. CASE Receive(r)
    BY <1>0, <2>2, ReceiveKeepsStream
  <2>3. CASE CodexEnds(r) /\ ~AtStage(r, "codex")
    BY <1>0, <2>3, QuietKeepsStream DEF CodexEnds, HandlerWait
  <2>4. CASE \/ CodexEnds(r) /\ AtStage(r, "codex")
             \/ NoConnection(r) \/ ReleaseConnection(r) \/ UpstreamEnds(r)
             \/ StoreTask(r) \/ FetchTask(r)
    <3>1. PICK s : AtStage(r, s) /\ s # "stream"
      BY <2>4 DEF NoConnection, ReleaseConnection, UpstreamEnds, StoreTask, FetchTask
    <3>2. pc' = pc /\ ask' = ask /\ pc[r] = "handling"
      BY <2>4 DEF CodexEnds, NoConnection, ReleaseConnection, UpstreamEnds, StoreTask,
         FetchTask, HandlerWait, AtStage
    <3>3. ask[r].kind # "stream"
      BY <3>1, <3>2, StreamStages
    <3> QED
      BY <3>2, <3>3, OthersStreamNothing
  <2>5. CASE handleOOStream(r)
    BY <2>5, ReadKeepsStream
  <2>6. CASE EndStream(r)
    <3>1. /\ pc' = pc /\ ask' = ask /\ stream' = stream /\ step' = [step EXCEPT ![r] = @ + 1]
          /\ pc[r] = "handling"
          /\ ask[r].window => ~Streaming(r)
      BY <2>6 DEF EndStream, HandlerWait, GoOn, AtStage
    <3>2. ask[r].kind = "stream" /\ step[r] = 1
      <4>1. AtStage(r, "stream") /\ pc[r] = "handling"
        BY <2>6, <3>1 DEF EndStream
      <4>2. ask[r].kind = "stream"
        BY <4>1, StreamStages
      <4> QED
        BY <4>1, <4>2, StreamStages
    <3>3. InOrder(stream[r], ask[r].lines, ask[r].tenant)
      BY <1>0, <3>2 DEF StreamOf
    <3>4. ask[r].window => stream[r].type = 4
      <4>1. Len(Types) = 3
        BY DEF Types
      <4>2. stream[r].type \in 1..4
        BY <3>3 DEF InOrder, HasRead, Streamed
      <4> QED
        BY <3>1, <4>1, <4>2 DEF Streaming
    <3> QED
      BY <1>0, <3>1, <3>2, <3>4 DEF StreamOf
  <2>7. CASE Answer(r)
    <3>1. /\ ask' = ask /\ stream' = stream /\ step' = step /\ pc[r] = "handling"
          /\ pc'[r] \in {"answered", "left"} /\ step[r] \notin DOMAIN StagesOf(r)
      BY <2>7 DEF Answer, Inv, Typing
    <3>2. ask[r].kind = "stream" => step[r] # 1
      BY <3>1, StreamStages
    <3> QED
      BY <1>0, <3>1, <3>2 DEF StreamOf
  <2> QED
    BY <2>1, <2>2, <2>3, <2>4, <2>5, <2>6, <2>7 DEF Handler
<1> QED
  BY <1>0, <1>1, <1>2, <1>3, OthersKeepStream

(* A stream that ended in order, with OpenObserve sound, passed on every record of the
   window, in order, once and tagged, and no stream passes on anything but the records of
   the first lines of each kind (oo.go:18-53). *)
THEOREM ServiceStreamsComplete == Spec => []StreamComplete
<1>1. Init => StreamInv
  <2> SUFFICES ASSUME Init PROVE StreamInv
    OBVIOUS
  <2>1. DOMAIN stream = Request /\ \A r \in Request : stream[r] = NotStreamed
    BY DEF Init, InitStream
  <2>2. \A r \in Request : ask[r].kind # "stream"
    BY DEF Init, Nothing
  <2> QED
    BY <2>1, <2>2 DEF StreamInv, StreamOf
<1>2. Inv /\ TaskInv /\ StreamInv /\ [Next]_vars => StreamInv'
  <2> SUFFICES ASSUME Inv, TaskInv, StreamInv, [Next]_vars PROVE StreamInv'
    OBVIOUS
  <2>1. CASE UNCHANGED vars
    <3>1. UNCHANGED <<pc, ask, step, stream>>
      BY <2>1 DEF vars, handlerVars, storeVars
    <3> QED
      BY <3>1, QuietKeepsStream DEF StreamInv
  <2> QED
    BY <2>1, ProcessKeepsStreams, RequestsKeepStreams DEF Next
<1>3. ASSUME StreamInv PROVE StreamComplete
  <2> SUFFICES ASSUME NEW r \in Request, ask[r].kind = "stream"
               PROVE  LET source == ask[r].lines
                      IN  /\ \E l \in 0..Len(source["logs"]), m \in 0..Len(source["metrics"]),
                                t \in 0..Len(source["traces"]) :
                               stream[r].got = FirstRecords(source, ask[r].tenant, l, m, t)
                          /\ pc[r] = "answered" /\ ask[r].window /\ stream[r].sound =>
                               stream[r].got = Whole(source, ask[r].tenant)
    BY DEF StreamComplete
  <2> DEFINE source == ask[r].lines
             tenant == ask[r].tenant
  <2>1. StreamOf(r)
    BY <1>3 DEF StreamInv
  <2>2. source \in [Type -> Seq(Line)]
    BY <2>1 DEF StreamOf
  <2>3. PICK read : HasRead(stream[r], source, tenant, read)
    BY <2>1 DEF StreamOf, InOrder
  <2>4. /\ Types[1] = "logs" /\ Types[2] = "metrics" /\ Types[3] = "traces"
        /\ \A n \in 1..3 : Types[n] \in Type
    BY DEF Type, Types
  <2>5. /\ read[1] \in 0..Len(source["logs"]) /\ read[2] \in 0..Len(source["metrics"])
        /\ read[3] \in 0..Len(source["traces"])
    BY <2>2, <2>3, <2>4 DEF HasRead
  <2>6. stream[r].got = FirstRecords(source, tenant, read[1], read[2], read[3])
    BY <2>3 DEF HasRead, From
  <2>7. ASSUME pc[r] = "answered", ask[r].window, stream[r].sound
        PROVE  stream[r].got = Whole(source, tenant)
    <3>1. stream[r].type = 4
      BY <2>1, <2>7 DEF StreamOf
    <3>2. /\ read[1] = Len(source["logs"]) /\ read[2] = Len(source["metrics"])
          /\ read[3] = Len(source["traces"])
      BY <2>3, <2>4, <2>7, <3>1 DEF HasRead
    <3> QED
      BY ONLY <2>6, <3>2 DEF Whole
  <2> QED
    BY <2>5, <2>6, <2>7
<1> QED
  BY <1>1, <1>2, <1>3, TaskInvariant, PTL DEF Spec

=============================================================================
