---------------------------- MODULE MCToolCalls ----------------------------
(***************************************************************************)
(* A small instance of ToolCalls: clients of two tenants, and a Codex      *)
(* that asks for metrics and for another analysis.                         *)
(***************************************************************************)
EXTENDS ToolCalls, TLC

Ask(name, header, args) ==
  [method |-> "tools/call", authorized |-> TRUE, header |-> header, name |-> name,
   args |-> "service" :> "checkout" @@ args]

ClientRequests ==
  {Ask("analyze_incident", "acme", "tenant" :> "globex"),
   Ask("get_topology", "", <<>>),
   Ask("query_metrics", "acme", "window" :> 2),
   Ask("query_traces", "acme", "window" :> Bad),
   [Ask("query_logs", "", "start" :> Bad) EXCEPT !.authorized = FALSE],
   [Ask("", "", <<>>) EXCEPT !.method = "tools/list"]}

(* Codex sends the header of its environment. *)
CodexRequests ==
  {Ask("query_metrics", "acme", "metric" :> "service_latency_p95" @@ "end" :> 3),
   Ask("summarize_service_health", "acme", <<>>),
   Ask("query_logs", "acme", "start" :> 2 @@ "end" :> Bad)}
=============================================================================
