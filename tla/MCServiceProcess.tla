-------------------------- MODULE MCServiceProcess --------------------------
(***************************************************************************)
(* A small instance of ServiceProcess: two requests, one connection, one   *)
(* restart, each of the four programs.                                     *)
(***************************************************************************)
EXTENDS ServiceProcess, TLC

CONSTANTS r1, r2, x, y

Create(topics) == [kind |-> "create", topics |-> topics]
Get(r) == [kind |-> "get", task |-> r]
Read(window, tenant, logs, metrics, traces) ==
  [kind |-> "stream", window |-> window, tenant |-> tenant,
   lines |-> "logs" :> logs @@ "metrics" :> metrics @@ "traces" :> traces]

(* Every status of a task; lines of every sort before and after a record. *)
Clients ==
  "agent" :> {[kind |-> "case"], [kind |-> "analysis"], Get(r1), Get(r2), Create({}),
              Create({"infrastructure"}), Create({"infrastructure", "operations"})} @@
  "gateway" :> {[kind |-> "query"]} @@
  "mcp" :> {[kind |-> "call"]} @@
  "bridge" :> {Read(FALSE, "a", <<>>, <<>>, <<>>),
               Read(TRUE, "a", <<x, Malformed, y>>, <<>>, <<x>>),
               Read(TRUE, "", <<>>, <<Long, y>>, <<Null>>)}
=============================================================================
