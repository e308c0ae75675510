----------------------------- MODULE ToolCalls -----------------------------
(***************************************************************************)
(* POST /mcp (mcp-server): tool calls, the calls they make of the gateway  *)
(* and of the agent, and the deadlines on the way.  The agent's Codex may  *)
(* call tools itself (scripts/codex/setup-project-home.sh registers this   *)
(* server with it), so calls nest.                                         *)
(*                                                                         *)
(* The server keeps no state of its own; what is modelled is the handler   *)
(* goroutine of each call and the run it started.  The run is that of      *)
(* AnalysisService without its goroutines and its report.  External: the   *)
(* gateway's answers, Codex, the clients.  A query is noted in asked when  *)
(* it is sent.                                                             *)
(***************************************************************************)
EXTENDS Integers, Sequences, FiniteSets, SequencesExt

CONSTANTS
  Call,             \* 1 .. n
  Incoming,         \* requests that clients may send
  CodexAsks,        \* requests that Codex may send
  McpTenant,        \* the tenant each service takes if none is given, or Unset
  AgentTenant,
  Hour,             \* the window if none is given
  Bad,              \* a text that is no time or no duration
  UpstreamTimeout,  \* 20 s in the code
  WriteTimeout,     \* 10 s
  CodexTimeouts,    \* configurations to explore, 90 s in the code
  MaxTime           \* bound on the clock

Metrics == <<"service_error_rate", "service_latency_p95">>
Templates == ToSet(Metrics) \cup
  {"service_error_logs", "service_error_traces", "service_topology_logs"}

Analyses == {"get_topology", "analyze_incident", "summarize_service_health",
             "propose_remediation"}
Resources == {"monitoring_capabilities", "analysis_templates"}
Tools == {"query_metrics", "query_logs", "query_traces"} \cup Analyses

(* A text that is not given. *)
Unset == ""

ASSUME ToolAssumption ==
  /\ Call \in SUBSET Nat /\ IsFiniteSet(Call)
  /\ {Unset, McpTenant, AgentTenant} \subseteq STRING
  /\ Hour \in Nat /\ Bad \notin Int
  /\ UpstreamTimeout \in Nat \ {0} /\ WriteTimeout \in Nat
  /\ CodexTimeouts \in SUBSET (Nat \ {0}) /\ MaxTime \in Nat \ {0}

(* Arguments: a JSON object is a function on the names it gives; an empty text counts
   as not given. *)
Gives(args, name) == name \in DOMAIN args
Value(args, name, default) == IF Gives(args, name) THEN args[name] ELSE default

IsRequest(r) ==
  /\ r.authorized \in BOOLEAN /\ r.header \in STRING
  /\ Gives(r.args, "tenant") => r.args.tenant \in STRING \ {Unset}
  /\ \A name \in {"start", "end", "window"} :
       Gives(r.args, name) => r.args[name] \in Int \cup {Bad}

ASSUME RequestAssumption == \A r \in Incoming \cup CodexAsks : IsRequest(r)

VARIABLES
  now, codexTimeout,
  pc, request, received,
  parsed,    \* the arguments of each call
  todo,      \* upstream calls it has yet to make
  found,     \* those that were answered
  deadline,  \* of the one it waits for
  answer, outcome,  \* what the handler answers, what the caller hears
  run,       \* the agent's run for it
  codexUntil,
  asked      \* every query sent to the gateway

callVars == <<pc, request, received, parsed, todo, found, deadline, answer, outcome>>
runVars == <<run, codexUntil, asked>>
vars == <<now, codexTimeout, callVars, runVars>>

-----------------------------------------------------------------------------
NotParsed == [tenant |-> Unset, start |-> 0, end |-> 0]

Parses(args) ==
  Gives(args, "service") /\ Value(args, "start", 0) # Bad /\ Value(args, "end", 0) # Bad

(* The caller's header speaks if the arguments do not, and the configuration if
   neither does. *)
Tenant(r) ==
  IF Gives(r.args, "tenant") THEN r.args.tenant
  ELSE IF r.header # Unset THEN r.header ELSE McpTenant

Window(args) == IF Value(args, "window", Hour) = Bad THEN Hour ELSE Value(args, "window", Hour)

parseSharedArgs(r, time) ==
  LET end == Value(r.args, "end", time)
  IN  [tenant |-> Tenant(r),
       start  |-> Value(r.args, "start", end - Window(r.args)),
       end    |-> end]

(* A metric that is not known selects nothing, and is no error. *)
queryMetrics(args) ==
  IF ~Gives(args, "metric") THEN Metrics
  ELSE IF args.metric \in ToSet(Metrics) THEN <<args.metric>> ELSE <<>>

ExecuteTool(r) ==
  CASE r.name = "query_metrics" -> queryMetrics(r.args)
    [] r.name = "query_logs"    -> <<"service_error_logs">>
    [] r.name = "query_traces"  -> <<"service_error_traces">>
    [] r.name \in Analyses      -> <<"analysis">>

-----------------------------------------------------------------------------
Init ==
  /\ now = 1 /\ codexTimeout \in CodexTimeouts
  /\ pc = [c \in Call |-> "none"]
  /\ request = [c \in Call |-> [method |-> "none"]]
  /\ received = [c \in Call |-> 0]
  /\ parsed = [c \in Call |-> NotParsed]
  /\ todo = [c \in Call |-> <<>>] /\ found = [c \in Call |-> {}]
  /\ deadline = [c \in Call |-> 0]
  /\ answer = [c \in Call |-> "none"] /\ outcome = [c \in Call |-> "none"]
  /\ run = [c \in Call |-> "none"] /\ codexUntil = [c \in Call |-> 0]
  /\ asked = {}

(* What the server answers without asking anybody. *)
Unauthorized(r) == ~r.authorized

Reads(r) ==
  \/ r.method \in {"resources/list", "tools/list", "manifest/get"}
  \/ r.method = "resources/get" /\ r.name \in Resources

\* Mutation: the errors of time.Parse are dropped.
UnusableUnparsed(r) == r.method # "tools/call" \/ r.name \notin Tools

Unusable(r) == r.method # "tools/call" \/ r.name \notin Tools \/ ~Parses(r.args)

(* ServeHTTP up to the first call upstream.  The arguments are parsed once. *)
Serve(c, r) ==
  /\ pc[c] = "none" /\ \A d \in Call : d < c => pc[d] # "none"
  /\ now + 2 * UpstreamTimeout <= MaxTime
  /\ request' = [request EXCEPT ![c] = r]
  /\ received' = [received EXCEPT ![c] = now]
  /\ IF Unauthorized(r) \/ Reads(r) \/ Unusable(r)
     THEN /\ pc' = [pc EXCEPT ![c] = "answering"]
          /\ answer' = [answer EXCEPT ![c] = IF r.authorized /\ Reads(r) THEN "result" ELSE "error"]
          /\ UNCHANGED <<parsed, todo>>
     ELSE /\ pc' = [pc EXCEPT ![c] = "next"]
          /\ parsed' = [parsed EXCEPT ![c] = parseSharedArgs(r, now)]
          /\ todo' = [todo EXCEPT ![c] = ExecuteTool(r)]
          /\ UNCHANGED answer
  /\ UNCHANGED <<now, codexTimeout, found, deadline, outcome, runVars>>

ServeHTTP(c) == \E r \in Incoming : Serve(c, r)

CodexCalls(c) == (\E d \in Call : run[d] = "reasoning") /\ \E r \in CodexAsks : Serve(c, r)

Query(c, template, args) ==
  [call |-> c, template |-> template, tenant |-> args.tenant,
   start |-> args.start, end |-> args.end]

(* postJSON: the request is sent, and the client's timeout starts. *)
PostJSON(c) ==
  /\ pc[c] = "next" /\ todo[c] # <<>>
  /\ pc' = [pc EXCEPT ![c] = "asking"]
  /\ deadline' = [deadline EXCEPT ![c] = now + UpstreamTimeout]
  /\ IF Head(todo[c]) = "analysis"
     THEN run' = [run EXCEPT ![c] = "posted"] /\ UNCHANGED asked
     ELSE asked' = asked \cup {Query(c, Head(todo[c]), parsed[c])} /\ UNCHANGED run
  /\ UNCHANGED <<now, codexTimeout, request, received, parsed, todo, found, answer,
                 outcome, codexUntil>>

Answered(c) ==
  /\ pc' = [pc EXCEPT ![c] = "next"]
  /\ found' = [found EXCEPT ![c] = @ \cup {Head(todo[c])}]
  /\ todo' = [todo EXCEPT ![c] = Tail(@)]
  /\ UNCHANGED <<now, codexTimeout, request, received, parsed, deadline, answer, outcome,
                 codexUntil, asked>>

GatewayAnswers(c) ==
  /\ pc[c] = "asking" /\ Head(todo[c]) # "analysis"
  /\ Answered(c)
  /\ UNCHANGED run

(* The connection breaks, the status is an error, or the body is no object: one
   failure fails the tool, whatever was found before. *)
Fails(c) ==
  /\ pc' = [pc EXCEPT ![c] = "answering"]
  /\ answer' = [answer EXCEPT ![c] = "error"]
  /\ UNCHANGED <<now, codexTimeout, request, received, parsed, todo, found, deadline,
                 outcome, runVars>>

UpstreamFails(c) == pc[c] = "asking" /\ Fails(c)

\* Mutation: the client has no timeout.
ExpiresNever(c) == FALSE

Expires(c) == pc[c] = "asking" /\ now = deadline[c]

Timeout(c) == Expires(c) /\ Fails(c)

-----------------------------------------------------------------------------
(* The agent. *)

\* Mutation: a tenant is taken from the configuration first.
AgentArgsOfConfig(c) == [parsed[c] EXCEPT !.tenant = AgentTenant]

(* POST /analysis/run: the body has the tenant, and both ends of the range, so the
   agent computes none; its header and its default replace an empty tenant only. *)
AgentArgs(c) == [parsed[c] EXCEPT !.tenant = IF @ = Unset THEN AgentTenant ELSE @]

RunAnalysis(c) ==
  /\ run[c] = "posted"
  /\ run' = [run EXCEPT ![c] = "collecting"]
  /\ asked' = asked \cup {Query(c, t, AgentArgs(c)) : t \in Templates}
  /\ UNCHANGED <<now, codexTimeout, callVars, codexUntil>>

(* The queries are over; Codex is started, or there is none. *)
StartCodex(c) ==
  /\ run[c] = "collecting"
  /\ \/ /\ run' = [run EXCEPT ![c] = "reasoning"]
        /\ codexUntil' = [codexUntil EXCEPT ![c] = now + codexTimeout]
     \/ run' = [run EXCEPT ![c] = "reported"] /\ UNCHANGED codexUntil
  /\ UNCHANGED <<now, codexTimeout, callVars, asked>>

CodexExpires(c) == run[c] = "reasoning" /\ now = codexUntil[c]

(* It exits, or its deadline kills it; either way there is a report. *)
CodexEnds(c) ==
  /\ run[c] = "reasoning"
  /\ run' = [run EXCEPT ![c] = "reported"]
  /\ UNCHANGED <<now, codexTimeout, callVars, codexUntil, asked>>

AgentAnswers(c) ==
  /\ pc[c] = "asking" /\ run[c] = "reported"
  /\ Answered(c)
  /\ run' = [run EXCEPT ![c] = "over"]

\* Mutation: the process of Codex is not started under the request's context.
AbandonedBeforeCodex(c) == run[c] \in {"posted", "collecting", "reported"} /\ pc[c] # "asking"

(* Nobody waits for the run any more: the connection is closed, which cancels the
   context of the request, the queries and Codex. *)
Abandoned(c) ==
  run[c] \in {"posted", "collecting", "reasoning", "reported"} /\ pc[c] # "asking"

Cancel(c) ==
  /\ Abandoned(c)
  /\ run' = [run EXCEPT ![c] = "over"]
  /\ UNCHANGED <<now, codexTimeout, callVars, codexUntil, asked>>

-----------------------------------------------------------------------------
\* Mutation: a tool reports what it has found.
CompleteWithAny(c) ==
  /\ pc[c] = "next" /\ (todo[c] = <<>> \/ found[c] # {})
  /\ pc' = [pc EXCEPT ![c] = "answering"]
  /\ answer' = [answer EXCEPT ![c] = "result"]
  /\ UNCHANGED <<now, codexTimeout, request, received, parsed, todo, found, deadline,
                 outcome, runVars>>

Complete(c) ==
  /\ pc[c] = "next" /\ todo[c] = <<>>
  /\ pc' = [pc EXCEPT ![c] = "answering"]
  /\ answer' = [answer EXCEPT ![c] = "result"]
  /\ UNCHANGED <<now, codexTimeout, request, received, parsed, todo, found, deadline,
                 outcome, runVars>>

(* Past the write deadline the connection takes nothing more.  The handler works on
   till then: it does not look at the request's context. *)
Respond(c) ==
  /\ pc[c] = "answering"
  /\ pc' = [pc EXCEPT ![c] = "done"]
  /\ outcome' = [outcome EXCEPT ![c] =
                   IF now > received[c] + WriteTimeout THEN "lost" ELSE answer[c]]
  /\ UNCHANGED <<now, codexTimeout, request, received, parsed, todo, found, deadline,
                 answer, runVars>>

(* Only waiting takes time: before the clock goes on, handlers have done what they can,
   timers have fired and closed connections are noticed. *)
Tick ==
  /\ now < MaxTime
  /\ \A c \in Call : /\ pc[c] \in {"none", "done"} \/ (pc[c] = "asking" /\ now < deadline[c])
                     /\ ~CodexExpires(c) /\ ~Abandoned(c)
  /\ now' = now + 1
  /\ UNCHANGED <<codexTimeout, callVars, runVars>>

Handle(c) == PostJSON(c) \/ Timeout(c) \/ Complete(c) \/ Respond(c)

Next ==
  \/ \E c \in Call :
       \/ ServeHTTP(c) \/ CodexCalls(c)
       \/ Handle(c) \/ GatewayAnswers(c) \/ UpstreamFails(c)
       \/ RunAnalysis(c) \/ StartCodex(c) \/ CodexEnds(c) \/ AgentAnswers(c) \/ Cancel(c)
  \/ Tick

(* Handlers are scheduled, timers fire and time passes.  Nothing makes the gateway,
   the agent or Codex answer. *)
Fairness ==
  /\ WF_vars(Tick)
  /\ \A c \in Call : /\ WF_vars(Handle(c)) /\ WF_vars(Cancel(c))
                     /\ WF_vars(CodexExpires(c) /\ CodexEnds(c))

Spec == Init /\ [][Next]_vars
FairSpec == Spec /\ Fairness

-----------------------------------------------------------------------------
(* Properties. *)

TypeOK ==
  /\ now \in 1 .. MaxTime /\ codexTimeout \in CodexTimeouts
  /\ pc \in [Call -> {"none", "next", "asking", "answering", "done"}]
  /\ \A c \in Call : pc[c] # "none" => request[c] \in Incoming \cup CodexAsks
  /\ parsed \in [Call -> [tenant : STRING, start : Int, end : Int]]
  /\ \A c \in Call : received[c] <= now /\ deadline[c] <= now + UpstreamTimeout
  /\ \A c \in Call : ToSet(todo[c]) \cup found[c] \subseteq Templates \cup {"analysis"}
  /\ \A c \in Call : pc[c] = "asking" => todo[c] # <<>> /\ now <= deadline[c]
  /\ answer \in [Call -> {"none", "error", "result"}]
  /\ outcome \in [Call -> {"none", "error", "result", "lost"}]
  /\ run \in [Call -> {"none", "posted", "collecting", "reasoning", "reported", "over"}]
  /\ \A q \in asked : q.call \in Call /\ q.template \in Templates

Called(c) == pc[c] # "none" /\ request[c].method = "tools/call"

(* Through whichever services a call goes, and however long each step takes, all its
   queries ask for one range, which ends where the caller said or when the call was
   received, and for the tenant of the caller (observability.go:259, handlers.go:149). *)
QueriesFitCall ==
  \A q \in asked :
    LET args == request[q.call].args
    IN  /\ q.end = Value(args, "end", received[q.call])
        /\ \A p \in asked : p.call = q.call =>
             p.start = q.start /\ p.end = q.end /\ p.tenant = q.tenant
        /\ Gives(args, "tenant") => q.tenant = args.tenant
        /\ ~Gives(args, "tenant") /\ request[q.call].header # Unset =>
             q.tenant = request[q.call].header

(* A caller that hears a result has all of it: every metric it selected, and for an
   analysis all five sources were asked (observability.go:192). *)
ResultIsWhole ==
  \A c \in Call : Called(c) /\ outcome[c] = "result" =>
    /\ found[c] = ToSet(ExecuteTool(request[c]))
    /\ {q.template : q \in {a \in asked : a.call = c}} =
         IF request[c].name \in Analyses THEN Templates ELSE found[c]

(* Codex does not outlive the call it works for, although neither knows of the other's
   deadline: when the tool server gives up, the agent's run is cancelled and
   Codex killed (observability.go:305, service.go:407). *)
CodexDiesWithCall ==
  \A c \in Call : run[c] = "reasoning" => now <= deadline[c] /\ now <= codexUntil[c]

(* The handler of every call ends, and with it the run that it started, whether or not
   the gateway, the agent or Codex answer, and although a call may wait for a Codex that
   waits for a call (observability.go:54).  It need not be heard: a handler that waited
   for its 20 seconds writes after the 10 seconds of the server's WriteTimeout
   (server.go:62), and its answer is lost. *)
EveryCallEnds ==
  \A c \in Call : pc[c] # "none" ~> pc[c] = "done" /\ run[c] \in {"none", "over"}
=============================================================================
