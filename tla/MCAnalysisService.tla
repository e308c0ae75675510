------------------------- MODULE MCAnalysisService -------------------------
(***************************************************************************)
(* A small instance of AnalysisService: record counts at the thresholds,   *)
(* and requests with every way to give a range.                            *)
(***************************************************************************)
EXTENDS AnalysisService, TLC

RecordCounts ==
  "metric_error_rate" :> {1} @@ "metric_latency_p95" :> {1} @@
  "logs" :> {0, 24, 25} @@ "traces" :> {0, 9, 10} @@ "topology" :> {1}

Ask(start, end, window) ==
  [service |-> "checkout", start |-> start, end |-> end, window |-> window]

(* The last two: a malformed window that is sent as it is, and a range reversed by a
   negative window. *)
Requests == {NoRequest, Ask(0, 9, NoWindow), Ask(5, 0, BadWindow), Ask(0, 0, -2)}
=============================================================================
