-------------------------- MODULE ToolCallsProofs --------------------------
(***************************************************************************)
(* Proofs about ToolCalls, for any number of calls, any requests and any   *)
(* timeouts: what a call asks for, what it answers and what it leaves      *)
(* running.                                                                *)
(***************************************************************************)
EXTENDS ToolCalls, TLAPS

Upstream == Templates \cup {"analysis"}
Args == [tenant : STRING, start : Int, end : Int]
PC == {"none", "next", "asking", "answering", "done"}
RunPC == {"none", "posted", "collecting", "reasoning", "reported", "over"}
Live == {"posted", "collecting", "reasoning", "reported"}
Nothing == <<>>
Done(steps) == steps = Nothing

(* A call that is answered by asking others. *)
Executes(r) == ~(Unauthorized(r) \/ Reads(r) \/ Unusable(r))
Working(c) == pc[c] # "none" /\ Executes(request[c])
IsAnalysis(c) == request[c].name \in Analyses

Own(c) == {q \in asked : q.call = c}
AskedOf(c) == {q.template : q \in Own(c)}

Types ==
  /\ now \in 1..MaxTime /\ codexTimeout \in CodexTimeouts
  /\ pc \in [Call -> PC] /\ DOMAIN request = Call
  /\ received \in [Call -> Nat] /\ parsed \in [Call -> Args]
  /\ todo \in [Call -> Seq(Upstream)] /\ found \in [Call -> SUBSET Upstream]
  /\ deadline \in [Call -> Nat] /\ codexUntil \in [Call -> Nat]
  /\ answer \in [Call -> {"none", "error", "result"}]
  /\ outcome \in [Call -> {"none", "error", "result", "lost"}]
  /\ run \in [Call -> RunPC]
  /\ \A q \in asked : q.call \in Call

(* What a call asks for itself, it has asked once it is answered; a call that asks nobody
   has nothing to do. *)
Place(c) ==
  /\ pc[c] # "none" => request[c] \in Incoming \cup CodexAsks
  /\ pc[c] \in {"none", "next", "asking"} => answer[c] = "none"
  /\ pc[c] # "done" => outcome[c] = "none"
  /\ outcome[c] = "result" => answer[c] = "result"
  /\ ~Working(c) =>
       /\ Done(todo[c]) /\ found[c] = {} /\ run[c] = "none" /\ Own(c) = {}
       /\ pc[c] \in {"none", "answering", "done"}
       /\ pc[c] # "none" /\ request[c].method = "tools/call" => answer[c] = "error"

(* Which steps are left, and which were answered. *)
Work(c) ==
  Working(c) =>
    /\ parsed[c] = parseSharedArgs(request[c], received[c])
    /\ found[c] \cup ToSet(todo[c]) = ToSet(ExecuteTool(request[c]))
    /\ IF IsAnalysis(c)
       THEN \/ todo[c] = <<"analysis">> /\ found[c] = {}
            \/ Done(todo[c]) /\ found[c] = {"analysis"}
       ELSE todo[c] \in Seq(Templates) /\ found[c] \subseteq Templates /\ run[c] = "none"
    /\ answer[c] = "result" => Done(todo[c])
    /\ pc[c] = "asking" => ~Done(todo[c])

(* The queries sent for a call: its own, or those of its run. *)
Sent(c) ==
  Working(c) =>
    IF IsAnalysis(c)
    THEN run[c] \in {"collecting", "reasoning", "reported"} \/ found[c] # {} =>
           AskedOf(c) = Templates
    ELSE /\ pc[c] = "next" \/ answer[c] = "result" => AskedOf(c) = found[c]
         /\ pc[c] = "asking" => AskedOf(c) = found[c] \cup {Head(todo[c])}

QueryOK(q, c) ==
  /\ q.template \in Templates
  /\ q.start = parsed[c].start /\ q.end = parsed[c].end
  /\ q.tenant = IF IsAnalysis(c) THEN AgentArgs(c).tenant ELSE parsed[c].tenant

(* The clock waits for timers, and for closed connections to be noticed. *)
InTime(c) ==
  /\ received[c] <= now /\ deadline[c] <= now + UpstreamTimeout
  /\ pc[c] = "asking" \/ run[c] \in Live => now <= deadline[c]
  /\ run[c] = "reasoning" => now <= codexUntil[c]
  /\ run[c] \in Live => IsAnalysis(c) /\ Working(c)

CallInv(c) ==
  Place(c) /\ Work(c) /\ Sent(c) /\ (\A q \in Own(c) : QueryOK(q, c)) /\ InTime(c)

Inv == Types /\ \A c \in Call : CallInv(c)

-----------------------------------------------------------------------------
(* Requests and tools. *)

LEMMA TemplatesAre ==
  /\ Metrics \in Seq(Templates) /\ ToSet(Metrics) \subseteq Templates
  /\ "analysis" \notin Templates
  /\ {"service_error_logs", "service_error_traces", "service_topology_logs"} \subseteq Templates
<1>1. ToSet(Metrics) = {"service_error_rate", "service_latency_p95"}
  BY DEF ToSet, Metrics
<1>2. Templates = {"service_error_rate", "service_latency_p95", "service_error_logs",
                   "service_error_traces", "service_topology_logs"}
  BY <1>1 DEF Templates
<1> QED
  BY <1>1, <1>2 DEF Metrics

LEMMA ToolSteps ==
  ASSUME NEW r, r.name \in Tools
  PROVE  IF r.name \in Analyses THEN ExecuteTool(r) = <<"analysis">>
         ELSE ExecuteTool(r) \in Seq(Templates)
<1>1. CASE r.name \in Analyses
  BY <1>1 DEF ExecuteTool, Analyses
<1>2. CASE r.name = "query_metrics"
  <2>1. ExecuteTool(r) = queryMetrics(r.args) /\ r.name \notin Analyses
    BY <1>2 DEF ExecuteTool, Analyses
  <2>2. queryMetrics(r.args) \in Seq(Templates)
    BY TemplatesAre DEF queryMetrics
  <2> QED
    BY <2>1, <2>2
<1>3. CASE r.name = "query_logs" \/ r.name = "query_traces"
  <2>1. r.name \notin Analyses
    BY <1>3 DEF Analyses
  <2>2. PICK t \in Templates : ExecuteTool(r) = <<t>>
    BY <1>3, TemplatesAre DEF ExecuteTool, Analyses
  <2> QED
    BY <2>1, <2>2
<1> QED
  BY <1>1, <1>2, <1>3 DEF Tools

LEMMA StepsAreUpstream ==
  /\ <<"analysis">> \in Seq(Upstream)
  /\ \A s \in Seq(Templates) : s \in Seq(Upstream)
<1>1. "analysis" \in Upstream /\ Templates \subseteq Upstream
  BY DEF Upstream
<1>2. <<"analysis">> \in Seq(Upstream)
  <2>1. PICK t \in Upstream : t = "analysis"
    BY <1>1
  <2> QED
    BY <2>1
<1>3. ASSUME NEW s \in Seq(Templates) PROVE s \in Seq(Upstream)
  BY <1>1
<1> QED
  BY <1>2, <1>3

(* A request that is executed names a tool, and its arguments parse. *)
LEMMA Executed ==
  ASSUME NEW r \in Incoming \cup CodexAsks, Executes(r), NEW t \in Nat
  PROVE  /\ r.method = "tools/call" /\ r.name \in Tools
         /\ parseSharedArgs(r, t) \in Args
<1>1. r.method = "tools/call" /\ r.name \in Tools /\ Parses(r.args)
  BY DEF Executes, Unusable
<1>2. IsRequest(r)
  BY RequestAssumption
<1>3. /\ Gives(r.args, "start") => r.args["start"] \in Int \cup {Bad}
      /\ Gives(r.args, "end") => r.args["end"] \in Int \cup {Bad}
      /\ Gives(r.args, "window") => r.args["window"] \in Int \cup {Bad}
  BY <1>2 DEF IsRequest
<1>4. Value(r.args, "end", t) \in Int /\ Window(r.args) \in Int
  BY <1>1, <1>3, ToolAssumption DEF Parses, Value, Window
<1>5. Value(r.args, "start", Value(r.args, "end", t) - Window(r.args)) \in Int
  BY <1>1, <1>3, <1>4 DEF Parses, Value
<1>6. Tenant(r) \in STRING
  BY <1>2, ToolAssumption DEF Tenant, IsRequest
<1> QED
  BY <1>1, <1>4, <1>5, <1>6 DEF parseSharedArgs, Args

LEMMA HeadAndTail ==
  ASSUME NEW S, NEW s \in Seq(S), ~Done(s)
  PROVE  /\ Head(s) \in S /\ Tail(s) \in Seq(S) /\ Head(s) \in ToSet(s)
         /\ ToSet(s) = {Head(s)} \cup ToSet(Tail(s))
<1>1. /\ Len(s) \in Nat /\ Len(s) > 0 /\ DOMAIN s = 1..Len(s)
      /\ Head(s) = s[1] /\ Tail(s) \in Seq(S) /\ Len(Tail(s)) = Len(s) - 1
      /\ DOMAIN Tail(s) = 1..(Len(s) - 1)
      /\ \A i \in 1..(Len(s) - 1) : Tail(s)[i] = s[i + 1]
  BY DEF Done, Nothing
<1>2. Head(s) \in S /\ Head(s) \in ToSet(s)
  BY <1>1 DEF ToSet
<1>3. \A e \in ToSet(Tail(s)) : e \in ToSet(s)
  BY <1>1 DEF ToSet
<1>4. ASSUME NEW i \in 1..Len(s), i # 1 PROVE s[i] \in ToSet(Tail(s))
  <2>1. i - 1 \in 1..(Len(s) - 1) /\ (i - 1) + 1 = i
    BY <1>1, <1>4
  <2>2. Tail(s)[i - 1] = s[i]
    BY <1>1, <2>1
  <2> QED
    BY <1>1, <2>1, <2>2 DEF ToSet
<1>5. \A e \in ToSet(s) : e = Head(s) \/ e \in ToSet(Tail(s))
  BY <1>1, <1>4 DEF ToSet
<1> QED
  BY <1>1, <1>2, <1>3, <1>5

-----------------------------------------------------------------------------
(* Steps of one call leave the others alone. *)

Same(d) ==
  /\ pc'[d] = pc[d] /\ request'[d] = request[d] /\ received'[d] = received[d]
  /\ parsed'[d] = parsed[d] /\ todo'[d] = todo[d] /\ found'[d] = found[d]
  /\ deadline'[d] = deadline[d] /\ answer'[d] = answer[d] /\ outcome'[d] = outcome[d]
  /\ run'[d] = run[d] /\ codexUntil'[d] = codexUntil[d]
  /\ Own(d)' = Own(d)

LEMMA SameKeeps ==
  ASSUME NEW d \in Call, CallInv(d), now' = now, Same(d)
  PROVE  CallInv(d)'
<1>1. AskedOf(d)' = AskedOf(d)
  BY DEF Same, AskedOf
<1>2. Working(d)' = Working(d) /\ IsAnalysis(d)' = IsAnalysis(d) /\ AgentArgs(d)' = AgentArgs(d)
  BY DEF Same, Working, IsAnalysis, AgentArgs
<1>3. Place(d)'
  BY <1>2 DEF CallInv, Place, Same
<1>4. Work(d)'
  BY <1>2 DEF CallInv, Work, Same
<1>5. Sent(d)'
  BY <1>1, <1>2 DEF CallInv, Sent, Same
<1>6. \A q \in Own(d)' : QueryOK(q, d)'
  BY <1>2 DEF CallInv, QueryOK, Same
<1>7. InTime(d)'
  BY <1>2 DEF CallInv, InTime, Same
<1> QED
  BY <1>3, <1>4, <1>5, <1>6, <1>7 DEF CallInv

LEMMA OneCall ==
  ASSUME Inv, NEW c \in Call, now' = now, Types',
         \A d \in Call \ {c} : Same(d),
         CallInv(c)'
  PROVE  Inv'
BY SameKeeps DEF Inv

LEMMA InitInv == Init => Inv
<1> SUFFICES ASSUME Init PROVE Inv
  OBVIOUS
<1>1. Types
  <2>1. now \in 1..MaxTime /\ codexTimeout \in CodexTimeouts /\ asked = {}
    BY ToolAssumption DEF Init
  <2>2. /\ pc \in [Call -> PC] /\ DOMAIN request = Call /\ received \in [Call -> Nat]
        /\ todo \in [Call -> Seq(Upstream)] /\ found \in [Call -> SUBSET Upstream]
        /\ deadline \in [Call -> Nat] /\ codexUntil \in [Call -> Nat]
    BY DEF Init, PC
  <2>3. /\ answer \in [Call -> {"none", "error", "result"}]
        /\ outcome \in [Call -> {"none", "error", "result", "lost"}]
        /\ run \in [Call -> RunPC]
    BY DEF Init, RunPC
  <2>4. NotParsed \in Args
    BY ToolAssumption DEF NotParsed, Args
  <2>5. parsed \in [Call -> Args]
    BY <2>4 DEF Init
  <2> QED
    BY <2>1, <2>2, <2>3, <2>5 DEF Types
<1>2. ASSUME NEW c \in Call PROVE CallInv(c)
  <2>1. /\ ~Working(c) /\ Own(c) = {} /\ pc[c] = "none" /\ run[c] = "none" /\ answer[c] = "none"
        /\ outcome[c] = "none" /\ Done(todo[c]) /\ found[c] = {}
    BY DEF Init, Working, Own, Done, Nothing
  <2>2. received[c] <= now /\ deadline[c] <= now + UpstreamTimeout
    BY ToolAssumption DEF Init
  <2> QED
    BY <2>1, <2>2 DEF CallInv, Place, Work, Sent, InTime, Live
<1> QED
  BY <1>1, <1>2 DEF Inv

-----------------------------------------------------------------------------
(* A call is received. *)

LEMMA ServeKeepsInv ==
  ASSUME Inv, NEW c \in Call, NEW r \in Incoming \cup CodexAsks, Serve(c, r)
  PROVE  Inv'
<1>1. /\ pc[c] = "none" /\ now' = now /\ codexTimeout' = codexTimeout
      /\ request' = [request EXCEPT ![c] = r] /\ received' = [received EXCEPT ![c] = now]
      /\ UNCHANGED <<found, deadline, outcome, run, codexUntil, asked>>
  BY DEF Serve, runVars
<1>2. /\ ~Working(c) /\ Done(todo[c]) /\ found[c] = {} /\ run[c] = "none" /\ Own(c) = {}
      /\ answer[c] = "none" /\ outcome[c] = "none"
  BY <1>1 DEF Inv, CallInv, Place, Working
<1>3. now \in Nat /\ deadline[c] <= now + UpstreamTimeout
  BY ToolAssumption DEF Inv, Types, CallInv, InTime
<1>4. \A d \in Call : Own(d)' = Own(d)
  BY <1>1 DEF Own
<1>5. CASE ~Executes(r)
  <2>1. /\ pc' = [pc EXCEPT ![c] = "answering"]
        /\ answer' = [answer EXCEPT ![c] = IF r.authorized /\ Reads(r) THEN "result" ELSE "error"]
        /\ UNCHANGED <<parsed, todo>>
    BY <1>5 DEF Serve, Executes
  <2>2. Types'
    BY <1>1, <1>3, <2>1 DEF Inv, Types, PC
  <2>3. \A d \in Call \ {c} : Same(d)
    BY <1>1, <1>4, <2>1 DEF Same, Inv, Types
  <2>4. /\ pc'[c] = "answering" /\ request'[c] = r /\ received'[c] = now
        /\ answer'[c] \in {"result", "error"} /\ (r.method = "tools/call" => answer'[c] = "error")
    BY <1>1, <2>1 DEF Inv, Types, Reads
  <2>5. ~Working(c)'
    BY <1>5, <2>4 DEF Working
  <2>6. CallInv(c)'
    BY <1>1, <1>2, <1>3, <1>4, <2>1, <2>4, <2>5 DEF CallInv, Place, Work, Sent, InTime, Live
  <2> QED
    BY <1>1, <2>2, <2>3, <2>6, OneCall
<1>6. CASE Executes(r)
  <2>1. /\ pc' = [pc EXCEPT ![c] = "next"]
        /\ parsed' = [parsed EXCEPT ![c] = parseSharedArgs(r, now)]
        /\ todo' = [todo EXCEPT ![c] = ExecuteTool(r)]
        /\ answer' = answer
    BY <1>6 DEF Serve, Executes
  <2>2. r.method = "tools/call" /\ r.name \in Tools /\ parseSharedArgs(r, now) \in Args
    BY <1>3, <1>6, Executed
  <2>3. /\ r.name \in Analyses => ExecuteTool(r) = <<"analysis">>
        /\ r.name \notin Analyses => ExecuteTool(r) \in Seq(Templates)
    BY <2>2, ToolSteps
  <2>4. ExecuteTool(r) \in Seq(Upstream)
    BY <2>3, StepsAreUpstream
  <2>5. Types'
    BY <1>1, <1>3, <2>1, <2>2, <2>4 DEF Inv, Types, PC
  <2>6. \A d \in Call \ {c} : Same(d)
    BY <1>1, <1>4, <2>1 DEF Same, Inv, Types
  <2>7. /\ pc'[c] = "next" /\ request'[c] = r /\ received'[c] = now
        /\ parsed'[c] = parseSharedArgs(r, now) /\ todo'[c] = ExecuteTool(r)
    BY <1>1, <2>1 DEF Inv, Types
  <2>8. Working(c)' /\ (IsAnalysis(c)' <=> r.name \in Analyses) /\ AskedOf(c)' = {}
    BY <1>2, <1>4, <1>6, <2>7 DEF Working, IsAnalysis, AskedOf
  <2>9. Place(c)' /\ Sent(c)' /\ InTime(c)' /\ \A q \in Own(c)' : QueryOK(q, c)'
    BY <1>1, <1>2, <1>3, <1>4, <2>1, <2>7, <2>8 DEF Place, Sent, InTime, Live
  <2>10. Work(c)'
    BY <1>1, <1>2, <2>1, <2>3, <2>7, <2>8 DEF Work
  <2>11. CallInv(c)'
    BY <2>9, <2>10 DEF CallInv
  <2> QED
    BY <1>1, <2>5, <2>6, <2>11, OneCall
<1> QED
  BY <1>5, <1>6

-----------------------------------------------------------------------------
(* The calls upstream. *)

(* The step that is due is a query, or the analysis itself. *)
LEMMA NextStep ==
  ASSUME Inv, NEW c \in Call, Working(c), ~Done(todo[c])
  PROVE  /\ answer[c] = "none" \/ answer[c] = "error"
         /\ Head(todo[c]) \in Upstream /\ Tail(todo[c]) \in Seq(Upstream)
         /\ ToSet(todo[c]) = {Head(todo[c])} \cup ToSet(Tail(todo[c]))
         /\ IF IsAnalysis(c)
            THEN /\ Head(todo[c]) = "analysis" /\ Done(Tail(todo[c])) /\ found[c] = {}
            ELSE /\ Head(todo[c]) \in Templates /\ Tail(todo[c]) \in Seq(Templates)
                 /\ Head(todo[c]) # "analysis" /\ found[c] \subseteq Templates
                 /\ run[c] = "none"
<1>1. todo[c] \in Seq(Upstream) /\ answer[c] \in {"none", "error", "result"}
  BY DEF Inv, Types
<1>2. Work(c)
  BY DEF Inv, CallInv
<1>3. answer[c] # "result"
  BY <1>2 DEF Work
<1>4. CASE IsAnalysis(c)
  <2>1. todo[c] = <<"analysis">> /\ found[c] = {}
    BY <1>2, <1>4 DEF Work
  <2>2. Head(todo[c]) = "analysis" /\ Done(Tail(todo[c]))
    BY <2>1 DEF Done, Nothing
  <2> QED
    BY <1>1, <1>3, <1>4, <2>1, <2>2, HeadAndTail
<1>5. CASE ~IsAnalysis(c)
  <2>1. todo[c] \in Seq(Templates) /\ found[c] \subseteq Templates /\ run[c] = "none"
    BY <1>2, <1>5 DEF Work
  <2>2. Head(todo[c]) \in Templates /\ Tail(todo[c]) \in Seq(Templates)
    BY <2>1, HeadAndTail
  <2> QED
    BY <1>1, <1>3, <1>5, <2>1, <2>2, HeadAndTail, TemplatesAre
<1> QED
  BY <1>4, <1>5

(* Whose queries a step adds. *)
LEMMA OthersAskNothing ==
  ASSUME NEW c \in Call, NEW new, \A q \in new : q.call = c, asked' = asked \cup new
  PROVE  /\ \A d \in Call \ {c} : Own(d)' = Own(d)
         /\ Own(c)' = Own(c) \cup new
BY DEF Own

LEMMA PostJSONKeepsInv ==
  ASSUME Inv, NEW c \in Call, PostJSON(c)
  PROVE  Inv'
<1> DEFINE q == Query(c, Head(todo[c]), parsed[c])
<1>1. /\ pc[c] = "next" /\ ~Done(todo[c])
      /\ pc' = [pc EXCEPT ![c] = "asking"]
      /\ deadline' = [deadline EXCEPT ![c] = now + UpstreamTimeout]
      /\ UNCHANGED <<now, codexTimeout, request, received, parsed, todo, found, answer,
                     outcome, codexUntil>>
  BY DEF PostJSON, Done, Nothing
<1>2. Working(c) /\ answer[c] = "none" /\ outcome[c] = "none"
  BY <1>1 DEF Inv, CallInv, Place
<1>3. now \in Nat /\ UpstreamTimeout \in Nat /\ received[c] <= now
  BY ToolAssumption DEF Inv, Types, CallInv, InTime
<1>4. /\ pc'[c] = "asking" /\ deadline'[c] = now + UpstreamTimeout
      /\ Working(c)' /\ (IsAnalysis(c)' <=> IsAnalysis(c)) /\ (AgentArgs(c)' = AgentArgs(c))
  BY <1>1, <1>2 DEF Inv, Types, Working, IsAnalysis, AgentArgs
<1>5. Place(c)'
  BY <1>1, <1>2, <1>4 DEF Inv, CallInv, Place
<1>6. CASE IsAnalysis(c)
  <2>1. run' = [run EXCEPT ![c] = "posted"] /\ asked' = asked
    BY <1>1, <1>2, <1>6, NextStep DEF PostJSON
  <2>2. Types'
    BY <1>1, <1>3, <2>1 DEF Inv, Types, PC, RunPC
  <2>3. \A d \in Call : Own(d)' = Own(d)
    BY <2>1 DEF Own
  <2>4. \A d \in Call \ {c} : Same(d)
    BY <1>1, <2>1, <2>3 DEF Same, Inv, Types
  <2>5. run'[c] = "posted" /\ found[c] = {}
    BY <1>1, <1>2, <1>6, <2>1, NextStep DEF Inv, Types
  <2>6. Work(c)'
    BY <1>1, <1>2, <1>4, <1>6 DEF Inv, CallInv, Work
  <2>7. Sent(c)'
    BY <1>1, <1>4, <1>6, <2>5 DEF Sent
  <2>8. \A p \in Own(c)' : QueryOK(p, c)'
    BY <1>1, <1>4, <2>3 DEF Inv, CallInv, QueryOK
  <2>9. InTime(c)'
    BY <1>1, <1>3, <1>4, <1>6, <2>5 DEF InTime, Live
  <2>10. CallInv(c)'
    BY <1>5, <2>6, <2>7, <2>8, <2>9 DEF CallInv
  <2> QED
    BY <1>1, <2>2, <2>4, <2>10, OneCall
<1>7. CASE ~IsAnalysis(c)
  <2>1. Head(todo[c]) \in Templates /\ Head(todo[c]) # "analysis" /\ run[c] = "none"
    BY <1>1, <1>2, <1>7, NextStep
  <2>2. run' = run /\ asked' = asked \cup {q}
    BY <2>1 DEF PostJSON
  <2>3. /\ q.call = c /\ q.template = Head(todo[c]) /\ q.tenant = parsed[c].tenant
        /\ q.start = parsed[c].start /\ q.end = parsed[c].end
    BY DEF Query
  <2> HIDE DEF q
  <2>4. Types'
    BY <1>1, <1>3, <2>2, <2>3 DEF Inv, Types, PC
  <2>5. (\A d \in Call \ {c} : Own(d)' = Own(d)) /\ Own(c)' = Own(c) \cup {q}
    BY <2>2, <2>3, OthersAskNothing
  <2>6. \A d \in Call \ {c} : Same(d)
    BY <1>1, <2>2, <2>5 DEF Same, Inv, Types
  <2>7. Work(c)'
    BY <1>1, <1>2, <1>4, <1>7, <2>2 DEF Inv, CallInv, Work
  <2>8. AskedOf(c)' = AskedOf(c) \cup {Head(todo[c])} /\ AskedOf(c) = found[c]
    BY <1>1, <1>2, <1>7, <2>3, <2>5 DEF AskedOf, Inv, CallInv, Sent
  <2>9. Sent(c)'
    BY <1>1, <1>2, <1>4, <1>7, <2>8 DEF Sent
  <2>10. \A p \in Own(c)' : QueryOK(p, c)'
    BY <1>1, <1>4, <1>7, <2>1, <2>3, <2>5 DEF Inv, CallInv, QueryOK
  <2>11. InTime(c)'
    BY <1>1, <1>3, <1>4, <2>1, <2>2 DEF InTime, Live
  <2>12. CallInv(c)'
    BY <1>5, <2>7, <2>9, <2>10, <2>11 DEF CallInv
  <2> QED
    BY <1>1, <2>4, <2>6, <2>12, OneCall
<1> QED
  BY <1>6, <1>7

-----------------------------------------------------------------------------
(* What comes back. *)

LEMMA GatewayAnswersKeepsInv ==
  ASSUME Inv, NEW c \in Call, GatewayAnswers(c)
  PROVE  Inv'
<1>1. /\ pc[c] = "asking" /\ Head(todo[c]) # "analysis"
      /\ pc' = [pc EXCEPT ![c] = "next"]
      /\ found' = [found EXCEPT ![c] = @ \cup {Head(todo[c])}]
      /\ todo' = [todo EXCEPT ![c] = Tail(@)]
      /\ UNCHANGED <<now, codexTimeout, request, received, parsed, deadline, answer, outcome,
                     codexUntil, asked, run>>
  BY DEF GatewayAnswers, Answered
<1>2. Working(c) /\ answer[c] = "none" /\ outcome[c] = "none" /\ ~Done(todo[c])
  BY <1>1 DEF Inv, CallInv, Place, Work
<1>3. /\ ~IsAnalysis(c) /\ run[c] = "none" /\ found[c] \subseteq Templates
      /\ Head(todo[c]) \in Templates /\ Tail(todo[c]) \in Seq(Templates)
      /\ Tail(todo[c]) \in Seq(Upstream) /\ Head(todo[c]) \in Upstream
      /\ ToSet(todo[c]) = {Head(todo[c])} \cup ToSet(Tail(todo[c]))
  BY <1>1, <1>2, NextStep
<1>4. Types'
  BY <1>1, <1>3 DEF Inv, Types, PC
<1>5. \A d \in Call : Own(d)' = Own(d)
  BY <1>1 DEF Own
<1>6. \A d \in Call \ {c} : Same(d)
  BY <1>1, <1>5 DEF Same, Inv, Types
<1>7. /\ pc'[c] = "next" /\ todo'[c] = Tail(todo[c]) /\ found'[c] = found[c] \cup {Head(todo[c])}
      /\ Working(c)' /\ ~IsAnalysis(c)' /\ AskedOf(c)' = AskedOf(c)
  BY <1>1, <1>2, <1>3, <1>5 DEF Inv, Types, Working, IsAnalysis, AskedOf
<1>8. Place(c)'
  BY <1>1, <1>2, <1>7 DEF Inv, CallInv, Place
<1>9. Work(c)'
  <2>1. found'[c] \cup ToSet(todo'[c]) = found[c] \cup ToSet(todo[c])
    BY <1>3, <1>7
  <2>2. /\ parsed'[c] = parseSharedArgs(request'[c], received'[c])
        /\ found'[c] \cup ToSet(todo'[c]) = ToSet(ExecuteTool(request'[c]))
    BY <1>1, <1>2, <2>1 DEF Inv, CallInv, Work
  <2>3. todo'[c] \in Seq(Templates) /\ found'[c] \subseteq Templates /\ run'[c] = "none"
    BY <1>1, <1>3, <1>7
  <2> QED
    BY <1>1, <1>2, <1>7, <2>2, <2>3 DEF Work
<1>10. Sent(c)'
  BY <1>1, <1>2, <1>3, <1>7 DEF Inv, CallInv, Sent
<1>11. \A p \in Own(c)' : QueryOK(p, c)'
  BY <1>1, <1>3, <1>5, <1>7 DEF Inv, CallInv, QueryOK
<1>12. InTime(c)'
  BY <1>1, <1>3, <1>7 DEF Inv, CallInv, InTime, Live
<1>13. CallInv(c)'
  BY <1>8, <1>9, <1>10, <1>11, <1>12 DEF CallInv
<1> QED
  BY <1>1, <1>4, <1>6, <1>13, OneCall

LEMMA AgentAnswersKeepsInv ==
  ASSUME Inv, NEW c \in Call, AgentAnswers(c)
  PROVE  Inv'
<1>1. /\ pc[c] = "asking" /\ run[c] = "reported"
      /\ pc' = [pc EXCEPT ![c] = "next"]
      /\ found' = [found EXCEPT ![c] = @ \cup {Head(todo[c])}]
      /\ todo' = [todo EXCEPT ![c] = Tail(@)]
      /\ run' = [run EXCEPT ![c] = "over"]
      /\ UNCHANGED <<now, codexTimeout, request, received, parsed, deadline, answer, outcome,
                     codexUntil, asked>>
  BY DEF AgentAnswers, Answered
<1>2. Working(c) /\ answer[c] = "none" /\ outcome[c] = "none" /\ ~Done(todo[c])
  BY <1>1 DEF Inv, CallInv, Place, Work
<1>3. /\ IsAnalysis(c) /\ found[c] = {}
      /\ Head(todo[c]) = "analysis" /\ Done(Tail(todo[c]))
      /\ Tail(todo[c]) \in Seq(Upstream) /\ Head(todo[c]) \in Upstream
      /\ ToSet(todo[c]) = {Head(todo[c])} \cup ToSet(Tail(todo[c]))
  BY <1>1, <1>2, NextStep
<1>4. Types'
  BY <1>1, <1>3 DEF Inv, Types, PC, RunPC
<1>5. \A d \in Call : Own(d)' = Own(d)
  BY <1>1 DEF Own
<1>6. \A d \in Call \ {c} : Same(d)
  BY <1>1, <1>5 DEF Same, Inv, Types
<1>7. /\ pc'[c] = "next" /\ todo'[c] = Tail(todo[c]) /\ found'[c] = {"analysis"}
      /\ run'[c] = "over"
      /\ Working(c)' /\ IsAnalysis(c)' /\ AskedOf(c)' = AskedOf(c)
      /\ AgentArgs(c)' = AgentArgs(c)
  BY <1>1, <1>2, <1>3, <1>5 DEF Inv, Types, Working, IsAnalysis, AskedOf, AgentArgs
<1>8. Place(c)'
  BY <1>1, <1>2, <1>7 DEF Inv, CallInv, Place
<1>9. Work(c)'
  <2>1. found'[c] \cup ToSet(todo'[c]) = found[c] \cup ToSet(todo[c])
    BY <1>3, <1>7
  <2>2. /\ parsed'[c] = parseSharedArgs(request'[c], received'[c])
        /\ found'[c] \cup ToSet(todo'[c]) = ToSet(ExecuteTool(request'[c]))
    BY <1>1, <1>2, <2>1 DEF Inv, CallInv, Work
  <2>3. Done(todo'[c]) /\ found'[c] = {"analysis"}
    BY <1>3, <1>7
  <2>4. (Done(todo[c]))' /\ answer'[c] = "none" /\ pc'[c] # "asking"
    BY <1>1, <1>2, <1>7, <2>3 DEF Done, Nothing
  <2> QED
    BY <1>7, <2>2, <2>3, <2>4 DEF Work
<1>10. Sent(c)'
  BY <1>1, <1>2, <1>3, <1>7 DEF Inv, CallInv, Sent
<1>11. \A p \in Own(c)' : QueryOK(p, c)'
  BY <1>1, <1>3, <1>5, <1>7 DEF Inv, CallInv, QueryOK
<1>12. InTime(c)'
  BY <1>1, <1>3, <1>7 DEF Inv, CallInv, InTime, Live
<1>13. CallInv(c)'
  BY <1>8, <1>9, <1>10, <1>11, <1>12 DEF CallInv
<1> QED
  BY <1>1, <1>4, <1>6, <1>13, OneCall

(* Steps of the handler that only decide what is answered. *)
LEMMA AnswerKeepsInv ==
  ASSUME Inv, NEW c \in Call, NEW a \in {"error", "result"},
         pc[c] \in {"next", "asking"},
         a = "result" => pc[c] = "next" /\ Done(todo[c]),
         pc' = [pc EXCEPT ![c] = "answering"],
         answer' = [answer EXCEPT ![c] = a],
         UNCHANGED <<now, codexTimeout, request, received, parsed, todo, found, deadline,
                     outcome, runVars>>
  PROVE  Inv'
<1>1. UNCHANGED <<run, codexUntil, asked>>
  BY DEF runVars
<1>2. Working(c) /\ answer[c] = "none" /\ outcome[c] = "none"
  BY DEF Inv, CallInv, Place
<1>3. Types'
  BY <1>1 DEF Inv, Types, PC
<1>4. \A d \in Call : Own(d)' = Own(d)
  BY <1>1 DEF Own
<1>5. \A d \in Call \ {c} : Same(d)
  BY <1>1, <1>4 DEF Same, Inv, Types
<1>6. /\ pc'[c] = "answering" /\ answer'[c] = a /\ Working(c)' /\ AskedOf(c)' = AskedOf(c)
      /\ (IsAnalysis(c)' <=> IsAnalysis(c)) /\ (AgentArgs(c)' = AgentArgs(c))
  BY <1>1, <1>2, <1>4 DEF Inv, Types, Working, IsAnalysis, AskedOf, AgentArgs
<1>7. Place(c)'
  BY <1>1, <1>2, <1>6 DEF Inv, CallInv, Place
<1>8. Work(c)'
  BY <1>1, <1>2, <1>6 DEF Inv, CallInv, Work
<1>9. Sent(c)'
  BY <1>1, <1>2, <1>6 DEF Inv, CallInv, Sent
<1>10. \A p \in Own(c)' : QueryOK(p, c)'
  BY <1>1, <1>4, <1>6 DEF Inv, CallInv, QueryOK
<1>11. InTime(c)'
  BY <1>1, <1>2, <1>6 DEF Inv, CallInv, InTime
<1>12. CallInv(c)'
  BY <1>7, <1>8, <1>9, <1>10, <1>11 DEF CallInv
<1> QED
  BY <1>3, <1>5, <1>12, OneCall

LEMMA RespondKeepsInv ==
  ASSUME Inv, NEW c \in Call, Respond(c)
  PROVE  Inv'
<1> DEFINE heard == IF now > received[c] + WriteTimeout THEN "lost" ELSE answer[c]
<1>1. /\ pc[c] = "answering" /\ pc' = [pc EXCEPT ![c] = "done"]
      /\ outcome' = [outcome EXCEPT ![c] = heard]
      /\ UNCHANGED <<now, codexTimeout, request, received, parsed, todo, found, deadline,
                     answer, run, codexUntil, asked>>
  BY DEF Respond, runVars
<1>2. /\ heard \in {"none", "error", "result", "lost"}
      /\ heard = "result" => answer[c] = "result"
  BY DEF Inv, Types
<1> HIDE DEF heard
<1>3. Types'
  BY <1>1, <1>2 DEF Inv, Types, PC
<1>4. \A d \in Call : Own(d)' = Own(d)
  BY <1>1 DEF Own
<1>5. \A d \in Call \ {c} : Same(d)
  BY <1>1, <1>4 DEF Same, Inv, Types
<1>6. /\ pc'[c] = "done" /\ outcome'[c] = heard /\ AskedOf(c)' = AskedOf(c)
      /\ (Working(c)' <=> Working(c))
      /\ (IsAnalysis(c)' <=> IsAnalysis(c)) /\ (AgentArgs(c)' = AgentArgs(c))
  BY <1>1, <1>4 DEF Inv, Types, Working, IsAnalysis, AskedOf, AgentArgs
<1>7. Place(c)'
  BY <1>1, <1>2, <1>4, <1>6 DEF Inv, CallInv, Place, Done
<1>8. Work(c)'
  BY <1>1, <1>6 DEF Inv, CallInv, Work
<1>9. Sent(c)'
  BY <1>1, <1>6 DEF Inv, CallInv, Sent
<1>10. \A p \in Own(c)' : QueryOK(p, c)'
  BY <1>1, <1>4, <1>6 DEF Inv, CallInv, QueryOK
<1>11. InTime(c)'
  BY <1>1, <1>6 DEF Inv, CallInv, InTime
<1>12. CallInv(c)'
  BY <1>7, <1>8, <1>9, <1>10, <1>11 DEF CallInv
<1> QED
  BY <1>1, <1>3, <1>5, <1>12, OneCall

-----------------------------------------------------------------------------
(* The agent's runs. *)

LEMMA RunAnalysisKeepsInv ==
  ASSUME Inv, NEW c \in Call, RunAnalysis(c)
  PROVE  Inv'
<1> DEFINE new == {Query(c, t, AgentArgs(c)) : t \in Templates}
<1>1. /\ run[c] = "posted" /\ run' = [run EXCEPT ![c] = "collecting"]
      /\ asked' = asked \cup new
      /\ UNCHANGED <<now, codexTimeout, pc, request, received, parsed, todo, found, deadline,
                     answer, outcome, codexUntil>>
  BY DEF RunAnalysis, callVars
<1>2. /\ \A q \in new : q.call = c
      /\ \A q \in new : /\ q.template \in Templates /\ q.tenant = AgentArgs(c).tenant
                        /\ q.start = AgentArgs(c).start /\ q.end = AgentArgs(c).end
      /\ \A t \in Templates : \E q \in new : q.template = t
  <2>1. ASSUME NEW t \in Templates
        PROVE  LET q == Query(c, t, AgentArgs(c))
               IN  /\ q \in new /\ q.call = c /\ q.template = t
                   /\ q.tenant = AgentArgs(c).tenant
                   /\ q.start = AgentArgs(c).start /\ q.end = AgentArgs(c).end
    BY DEF Query
  <2>2. \A q \in new : \E t \in Templates : q = Query(c, t, AgentArgs(c))
    OBVIOUS
  <2> QED
    BY <2>1, <2>2
<1> HIDE DEF new
<1>3. IsAnalysis(c) /\ Working(c) /\ now <= deadline[c]
  BY <1>1 DEF Inv, CallInv, InTime, Live
<1>4. AgentArgs(c).start = parsed[c].start /\ AgentArgs(c).end = parsed[c].end
  BY DEF AgentArgs, Inv, Types, Args
<1>5. Types'
  <2>1. \A q \in asked' : q.call \in Call
    BY <1>1, <1>2 DEF Inv, Types
  <2> QED
    BY <1>1, <2>1 DEF Inv, Types, RunPC
<1>6. (\A d \in Call \ {c} : Own(d)' = Own(d)) /\ Own(c)' = Own(c) \cup new
  BY <1>1, <1>2, OthersAskNothing
<1>7. \A d \in Call \ {c} : Same(d)
  BY <1>1, <1>6 DEF Same, Inv, Types
<1>8. /\ run'[c] = "collecting" /\ Working(c)' /\ IsAnalysis(c)'
      /\ AgentArgs(c)' = AgentArgs(c)
  BY <1>1, <1>3 DEF Inv, Types, Working, IsAnalysis, AgentArgs
<1>9. AskedOf(c)' = Templates
  <2>1. \A q \in Own(c) : q.template \in Templates
    BY DEF Inv, CallInv, QueryOK
  <2>2. \A q \in Own(c)' : q.template \in Templates
    BY <1>2, <1>6, <2>1
  <2>3. \A t \in Templates : \E q \in Own(c)' : q.template = t
    BY <1>2, <1>6
  <2> QED
    BY <2>2, <2>3 DEF AskedOf
<1>10. Place(c)'
  BY <1>1, <1>8 DEF Inv, CallInv, Place
<1>11. Work(c)'
  BY <1>1, <1>3, <1>8 DEF Inv, CallInv, Work
<1>12. Sent(c)'
  BY <1>8, <1>9 DEF Sent
<1>13. \A p \in Own(c)' : QueryOK(p, c)'
  BY <1>1, <1>2, <1>3, <1>4, <1>6, <1>8 DEF Inv, CallInv, QueryOK
<1>14. InTime(c)'
  BY <1>1, <1>3, <1>8 DEF Inv, CallInv, InTime
<1>15. CallInv(c)'
  BY <1>10, <1>11, <1>12, <1>13, <1>14 DEF CallInv
<1> QED
  BY <1>1, <1>5, <1>7, <1>15, OneCall

(* The run goes on, or is over: nothing is asked. *)
LEMMA RunKeepsInv ==
  ASSUME Inv, NEW c \in Call, NEW to \in {"reasoning", "reported", "over"}, NEW until \in Nat,
         run[c] \in Live,
         to # "over" => run[c] \in {"collecting", "reasoning"},
         to = "reasoning" => now <= until,
         run' = [run EXCEPT ![c] = to],
         codexUntil' = [codexUntil EXCEPT ![c] = until],
         UNCHANGED <<now, codexTimeout, callVars, asked>>
  PROVE  Inv'
<1>1. UNCHANGED <<pc, request, received, parsed, todo, found, deadline, answer, outcome>>
  BY DEF callVars
<1>2. IsAnalysis(c) /\ Working(c) /\ now <= deadline[c]
  BY DEF Inv, CallInv, InTime
<1>3. Types'
  BY <1>1 DEF Inv, Types, RunPC
<1>4. \A d \in Call : Own(d)' = Own(d)
  BY DEF Own
<1>5. \A d \in Call \ {c} : Same(d)
  BY <1>1, <1>4 DEF Same, Inv, Types
<1>6. /\ run'[c] = to /\ codexUntil'[c] = until
      /\ Working(c)' /\ IsAnalysis(c)' /\ AskedOf(c)' = AskedOf(c)
      /\ AgentArgs(c)' = AgentArgs(c)
  BY <1>1, <1>2, <1>4 DEF Inv, Types, Working, IsAnalysis, AskedOf, AgentArgs
<1>7. Place(c)'
  BY <1>1, <1>6 DEF Inv, CallInv, Place
<1>8. Work(c)'
  BY <1>1, <1>2, <1>6 DEF Inv, CallInv, Work
<1>9. Sent(c)'
  BY <1>1, <1>2, <1>6 DEF Inv, CallInv, Sent
<1>10. \A p \in Own(c)' : QueryOK(p, c)'
  BY <1>1, <1>2, <1>4, <1>6 DEF Inv, CallInv, QueryOK
<1>11. InTime(c)'
  BY <1>1, <1>2, <1>6 DEF Inv, CallInv, InTime
<1>12. CallInv(c)'
  BY <1>7, <1>8, <1>9, <1>10, <1>11 DEF CallInv
<1> QED
  BY <1>3, <1>5, <1>12, OneCall

LEMMA RunStepsKeepInv ==
  ASSUME Inv, NEW c \in Call, StartCodex(c) \/ CodexEnds(c) \/ Cancel(c)
  PROVE  Inv'
<1>1. /\ now \in Nat /\ codexTimeout \in Nat /\ codexUntil \in [Call -> Nat]
      /\ codexUntil = [codexUntil EXCEPT ![c] = codexUntil[c]]
  BY ToolAssumption DEF Inv, Types
<1>2. CASE StartCodex(c) /\ run' = [run EXCEPT ![c] = "reasoning"]
                         /\ codexUntil' = [codexUntil EXCEPT ![c] = now + codexTimeout]
  <2>1. run[c] = "collecting" /\ UNCHANGED <<now, codexTimeout, callVars, asked>>
    BY <1>2 DEF StartCodex
  <2>2. now + codexTimeout \in Nat /\ now <= now + codexTimeout
    BY <1>1
  <2> QED
    BY <1>2, <2>1, <2>2, RunKeepsInv DEF Live
<1>3. CASE StartCodex(c) /\ run' = [run EXCEPT ![c] = "reported"] /\ UNCHANGED codexUntil
  <2>1. run[c] = "collecting" /\ UNCHANGED <<now, codexTimeout, callVars, asked>>
    BY <1>3 DEF StartCodex
  <2> QED
    BY <1>1, <1>3, <2>1, RunKeepsInv DEF Live
<1>4. CASE CodexEnds(c)
  <2>1. /\ run[c] = "reasoning" /\ run' = [run EXCEPT ![c] = "reported"]
        /\ UNCHANGED <<now, codexTimeout, callVars, codexUntil, asked>>
    BY <1>4 DEF CodexEnds
  <2> QED
    BY <1>1, <2>1, RunKeepsInv DEF Live
<1>5. CASE Cancel(c)
  <2>1. /\ run[c] \in Live /\ run' = [run EXCEPT ![c] = "over"]
        /\ UNCHANGED <<now, codexTimeout, callVars, codexUntil, asked>>
    BY <1>5 DEF Cancel, Abandoned, Live
  <2> QED
    BY <1>1, <2>1, RunKeepsInv
<1> QED
  BY <1>2, <1>3, <1>4, <1>5 DEF StartCodex

-----------------------------------------------------------------------------
(* Time passes only while every call waits for an answer, its own time is not up and its
   connection is open. *)

LEMMA TickKeepsInv ==
  ASSUME Inv, Tick
  PROVE  Inv'
<1>1. /\ now < MaxTime /\ now' = now + 1
      /\ UNCHANGED <<codexTimeout, pc, request, received, parsed, todo, found, deadline,
                     answer, outcome, run, codexUntil, asked>>
  BY DEF Tick, callVars, runVars
<1>2. MaxTime \in Nat /\ UpstreamTimeout \in Nat /\ now \in Nat
  BY ToolAssumption DEF Inv, Types
<1>3. Types'
  BY <1>1, <1>2 DEF Inv, Types
<1>4. ASSUME NEW c \in Call PROVE CallInv(c)'
  <2>1. CallInv(c) /\ deadline[c] \in Nat /\ codexUntil[c] \in Nat /\ received[c] \in Nat
    BY DEF Inv, Types
  <2>2. /\ Working(c)' = Working(c) /\ IsAnalysis(c)' = IsAnalysis(c) /\ Own(c)' = Own(c)
        /\ AgentArgs(c)' = AgentArgs(c) /\ AskedOf(c)' = AskedOf(c)
    BY <1>1 DEF Working, IsAnalysis, AgentArgs, AskedOf, Own
  <2>3. Place(c)' /\ Work(c)' /\ Sent(c)' /\ \A q \in Own(c)' : QueryOK(q, c)'
    BY <1>1, <2>1, <2>2 DEF CallInv, Place, Work, Sent, QueryOK
  <2>4. /\ pc[c] \in {"none", "done"} \/ (pc[c] = "asking" /\ now < deadline[c])
        /\ ~CodexExpires(c) /\ ~Abandoned(c)
    BY DEF Tick
  <2>5. pc[c] = "asking" \/ run[c] \in Live => now < deadline[c]
    BY <2>4 DEF Abandoned, Live
  <2>6. run[c] = "reasoning" => now <= codexUntil[c] /\ now # codexUntil[c]
    BY <2>1, <2>4 DEF CodexExpires, CallInv, InTime
  <2>7. InTime(c)'
    BY <1>1, <1>2, <2>1, <2>2, <2>5, <2>6 DEF CallInv, InTime
  <2> QED
    BY <2>3, <2>7 DEF CallInv
<1> QED
  BY <1>3, <1>4 DEF Inv

-----------------------------------------------------------------------------
LEMMA NextKeepsInv == Inv /\ [Next]_vars => Inv'
<1> SUFFICES ASSUME Inv, [Next]_vars PROVE Inv'
  OBVIOUS
<1>1. CASE Tick
  BY <1>1, TickKeepsInv
<1>2. ASSUME NEW c \in Call, ServeHTTP(c) \/ CodexCalls(c) PROVE Inv'
  BY <1>2, ServeKeepsInv DEF ServeHTTP, CodexCalls
<1>3. ASSUME NEW c \in Call, PostJSON(c) \/ GatewayAnswers(c) \/ AgentAnswers(c) PROVE Inv'
  BY <1>3, PostJSONKeepsInv, GatewayAnswersKeepsInv, AgentAnswersKeepsInv
<1>4. ASSUME NEW c \in Call, Timeout(c) \/ UpstreamFails(c) PROVE Inv'
  <2>1. pc[c] = "asking" /\ Fails(c)
    BY <1>4 DEF Timeout, Expires, UpstreamFails
  <2> QED
    BY <2>1, AnswerKeepsInv DEF Fails
<1>5. ASSUME NEW c \in Call, Complete(c) PROVE Inv'
  BY <1>5, AnswerKeepsInv DEF Complete, Done, Nothing
<1>6. ASSUME NEW c \in Call, Respond(c) PROVE Inv'
  BY <1>6, RespondKeepsInv
<1>7. ASSUME NEW c \in Call, RunAnalysis(c) \/ StartCodex(c) \/ CodexEnds(c) \/ Cancel(c)
      PROVE  Inv'
  BY <1>7, RunAnalysisKeepsInv, RunStepsKeepInv
<1>8. CASE UNCHANGED vars
  <2>1. UNCHANGED <<now, codexTimeout, pc, request, received, parsed, todo, found, deadline,
                    answer, outcome, run, codexUntil, asked>>
    BY <1>8 DEF vars, callVars, runVars
  <2>2. Types'
    BY <2>1 DEF Inv, Types
  <2>3. \A d \in Call : Same(d)
    BY <2>1 DEF Same, Own
  <2>4. \A d \in Call : CallInv(d)'
    BY <2>1, <2>3, SameKeeps DEF Inv
  <2> QED
    BY <2>2, <2>4 DEF Inv
<1> QED
  BY <1>1, <1>2, <1>3, <1>4, <1>5, <1>6, <1>7, <1>8 DEF Next, Handle

LEMMA ToolInvariant == Spec => []Inv
BY InitInv, NextKeepsInv, PTL DEF Spec

-----------------------------------------------------------------------------
(* What follows. *)

LEMMA InvTypes == Inv => TypeOK
<1> SUFFICES ASSUME Inv PROVE TypeOK
  OBVIOUS
<1>1. ASSUME NEW c \in Call
      PROVE  /\ ToSet(todo[c]) \cup found[c] \subseteq Templates \cup {"analysis"}
             /\ pc[c] # "none" => request[c] \in Incoming \cup CodexAsks
             /\ pc[c] = "asking" => ~Done(todo[c]) /\ now <= deadline[c]
             /\ received[c] <= now /\ deadline[c] <= now + UpstreamTimeout
  <2>1. ToSet(todo[c]) \subseteq Upstream /\ found[c] \subseteq Upstream
    BY DEF Inv, Types, ToSet
  <2>2. pc[c] = "asking" => ~Done(todo[c])
    BY DEF Inv, CallInv, Place, Work
  <2> QED
    BY <2>1, <2>2 DEF Inv, CallInv, Place, InTime, Upstream
<1>2. ASSUME NEW q \in asked PROVE q.call \in Call /\ q.template \in Templates
  <2>1. q.call \in Call
    BY DEF Inv, Types
  <2> QED
    BY <2>1 DEF Inv, CallInv, Own, QueryOK
<1>3. \A c \in Call : ~Done(todo[c]) => todo[c] # <<>>
  BY DEF Done, Nothing
<1> QED
  BY <1>1, <1>2, <1>3 DEF TypeOK, Inv, Types, PC, RunPC, Args

(* A request that is executed has a text for a tenant only if it names it. *)
LEMMA TenantOf ==
  ASSUME NEW r \in Incoming \cup CodexAsks
  PROVE  /\ Gives(r.args, "tenant") => Tenant(r) = r.args.tenant /\ r.args.tenant # Unset
         /\ ~Gives(r.args, "tenant") /\ r.header # Unset => Tenant(r) = r.header
<1>1. IsRequest(r)
  BY RequestAssumption
<1> QED
  BY <1>1 DEF Tenant, IsRequest

LEMMA InvQueries == Inv => QueriesFitCall
<1> SUFFICES ASSUME Inv, NEW q \in asked
    PROVE  LET args == request[q.call].args
           IN  /\ q.end = Value(args, "end", received[q.call])
               /\ \A p \in asked : p.call = q.call =>
                    p.start = q.start /\ p.end = q.end /\ p.tenant = q.tenant
               /\ Gives(args, "tenant") => q.tenant = args.tenant
               /\ ~Gives(args, "tenant") /\ request[q.call].header # Unset =>
                    q.tenant = request[q.call].header
  BY DEF QueriesFitCall
<1>1. PICK c \in Call : q.call = c
  BY DEF Inv, Types
<1>2. \A p \in asked : p.call = c => QueryOK(p, c)
  BY DEF Inv, CallInv, Own
<1>3. Working(c) /\ request[c] \in Incoming \cup CodexAsks
  BY <1>1 DEF Inv, CallInv, Place, Own, Working
<1>4. parsed[c] = parseSharedArgs(request[c], received[c]) /\ parsed[c] \in Args
  BY <1>3 DEF Inv, Types, CallInv, Work
<1>5. /\ parsed[c].end = Value(request[c].args, "end", received[c])
      /\ parsed[c].tenant = Tenant(request[c])
  BY <1>4 DEF parseSharedArgs
<1>6. parsed[c].tenant # Unset => AgentArgs(c).tenant = parsed[c].tenant
  BY <1>4 DEF AgentArgs, Args
<1>7. /\ Gives(request[c].args, "tenant") => q.tenant = request[c].args.tenant
      /\ ~Gives(request[c].args, "tenant") /\ request[c].header # Unset =>
           q.tenant = request[c].header
  BY <1>1, <1>2, <1>3, <1>5, <1>6, TenantOf DEF QueryOK
<1>8. q.end = Value(request[c].args, "end", received[c])
  BY <1>1, <1>2, <1>5 DEF QueryOK
<1>9. \A p \in asked : p.call = c => p.start = q.start /\ p.end = q.end /\ p.tenant = q.tenant
  BY <1>1, <1>2 DEF QueryOK
<1> QED
  BY <1>1, <1>7, <1>8, <1>9

LEMMA InvWhole == Inv => ResultIsWhole
<1> SUFFICES ASSUME Inv, NEW c \in Call, Called(c), outcome[c] = "result"
    PROVE  /\ found[c] = ToSet(ExecuteTool(request[c]))
           /\ {q.template : q \in {a \in asked : a.call = c}} =
                IF request[c].name \in Analyses THEN Templates ELSE found[c]
  BY DEF ResultIsWhole
<1>1. answer[c] = "result" /\ Working(c)
  BY DEF Inv, CallInv, Place, Called
<1>2. Done(todo[c]) /\ found[c] \cup ToSet(todo[c]) = ToSet(ExecuteTool(request[c]))
  BY <1>1 DEF Inv, CallInv, Work
<1>3. ToSet(todo[c]) = {}
  BY <1>2 DEF Done, Nothing, ToSet
<1>4. found[c] = ToSet(ExecuteTool(request[c]))
  BY <1>2, <1>3
<1>5. AskedOf(c) = IF IsAnalysis(c) THEN Templates ELSE found[c]
  <2>1. CASE IsAnalysis(c)
    <3>1. found[c] = {"analysis"}
      BY <1>1, <1>2, <2>1 DEF Inv, CallInv, Work, Done, Nothing
    <3> QED
      BY <1>1, <2>1, <3>1 DEF Inv, CallInv, Sent
  <2>2. CASE ~IsAnalysis(c)
    BY <1>1, <2>2 DEF Inv, CallInv, Sent
  <2> QED
    BY <2>1, <2>2
<1> QED
  BY <1>4, <1>5 DEF AskedOf, Own, IsAnalysis

(* Every variable keeps its type; a handler waits only for a step that is left, and never
   past its deadline (observability.go:305). *)
THEOREM ToolsTypeCorrect == Spec => []TypeOK
BY ToolInvariant, InvTypes, PTL

(* Whatever services a call goes through, and whoever calls beside it, its queries ask
   for the range and the tenant of the caller: the tool server parses the arguments once
   (observability.go:324) and the agent replaces nothing that is given. *)
THEOREM QueriesFit == Spec => []QueriesFitCall
BY ToolInvariant, InvQueries, PTL

(* A result that is heard is whole, since one failure fails the tool: every source it
   selects was asked and has answered (observability.go:192). *)
THEOREM ResultsAreWhole == Spec => []ResultIsWhole
BY ToolInvariant, InvWhole, PTL

(* Codex is not left running: a run goes on only while its handler waits, so that neither
   its own deadline nor the handler's is passed (observability.go:305, service.go:407). *)
THEOREM CodexDies == Spec => []CodexDiesWithCall
<1>1. Inv => CodexDiesWithCall
  BY DEF Inv, CallInv, InTime, CodexDiesWithCall, Live
<1> QED
  BY <1>1, ToolInvariant, PTL
=============================================================================
