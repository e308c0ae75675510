-------------------------- MODULE AnalysisService --------------------------
(***************************************************************************)
(* POST /analysis/run (llm-ops-agent/internal/analysis): five goroutines   *)
(* query the gateway, each sends what it got into one buffered channel, a  *)
(* sixth closes the channel when all are done, and Run folds the results   *)
(* into a report.  An optional reasoner, the Codex command, may replace    *)
(* the heuristic diagnosis within its timeout.                             *)
(*                                                                         *)
(* Runs share no state, so one is modelled.  External: the gateway, the    *)
(* Codex process, and a process it starts that inherits its output.        *)
(***************************************************************************)
EXTENDS Integers, Sequences, FiniteSets, SequencesExt

CONSTANTS
  Incoming,       \* requests that may arrive
  Counts,         \* [Source -> set of record counts the gateway may return]
  Reasoners,      \* configurations to explore: {TRUE, FALSE} with and without reasoner
  Now,            \* the time at which the run starts, in half minutes
  DefaultWindow   \* one hour in the code

Metric == {"metric_error_rate", "metric_latency_p95"}
Source == Metric \cup {"logs", "traces", "topology"}

ASSUME AnalysisAssumption ==
  /\ Incoming \subseteq [service : STRING, start : Nat, end : Nat, window : Int]
  /\ Counts \in [Source -> SUBSET Nat]
  /\ Reasoners \subseteq BOOLEAN
  /\ DefaultWindow \in Nat \ {0} /\ Now \in Nat \ {0}

VARIABLES
  pc, req,
  query,       \* where each goroutine is
  said,        \* what the gateway told it
  results,     \* the channel
  closed,
  evidence,    \* the report: evidence per source,
  errs,        \* the errors,
  health,      \* the state of the service,
  diagnosis,   \* who diagnosed it,
  status,      \* and whether the reasoner did
  codex,       \* the process of the reasoner
  child        \* another process holds its output open

reportVars == <<evidence, errs, health, diagnosis, status>>
channelVars == <<query, said, results, closed>>
vars == <<pc, req, channelVars, reportVars, codex, child>>

None == "none"
NoWindow == 1000001
BadWindow == 1000002
NoRequest == [service |-> "", start |-> 0, end |-> 0, window |-> NoWindow]

Found(n) == [count |-> n, error |-> FALSE]
Failed == [count |-> 0, error |-> TRUE]

-----------------------------------------------------------------------------
(* Requests: 0 is a time that is not given; durations are in half minutes and may be
   negative. *)
GivesWindow(r) == r.window # NoWindow
Parses(window) == window # BadWindow

(* Round(time.Minute). *)
RoundToMinute(d) == 2 * ((d + 1) \div 2)

(* The window falls back to the default only if it has to tell the start. *)
normalizeRequest(r) ==
  LET end    == IF r.end = 0 THEN Now ELSE r.end
      length == IF GivesWindow(r) /\ Parses(r.window) THEN r.window ELSE DefaultWindow
  IN  IF r.start = 0
      THEN [r EXCEPT !.start = end - length, !.end = end, !.window = length]
      ELSE [r EXCEPT !.end = end,
                     !.window = IF GivesWindow(r) THEN @ ELSE RoundToMinute(end - r.start)]

-----------------------------------------------------------------------------
Init ==
  /\ pc = "idle" /\ req = NoRequest
  /\ query = [k \in Source |-> "idle"]
  /\ said = [k \in Source |-> Found(0)]
  /\ results = <<>> /\ closed = FALSE
  /\ evidence = [k \in Source \ Metric |-> Found(0)]
  /\ errs = <<>> /\ health = None /\ diagnosis = None /\ status = None
  /\ codex = None /\ child = FALSE

(* A request without a service is refused, with status 400. *)
Run ==
  /\ pc = "idle"
  /\ \E r \in Incoming :
       IF r.service = ""
       THEN pc' = "refused" /\ UNCHANGED <<req, query>>
       ELSE /\ req' = normalizeRequest(r)
            /\ query' = [k \in Source |-> "asked"]
            /\ pc' = "collecting"
  /\ UNCHANGED <<said, results, closed, reportVars, codex, child>>

(* What the gateway may answer: it refuses logs and traces of a reversed range
   and a metric over a window that does not parse, and may always fail. *)
Refused(k) ==
  IF k \in Metric THEN ~Parses(req.window) ELSE req.start > req.end

Answers(k) == {Failed} \cup (IF Refused(k) THEN {} ELSE {Found(n) : n \in Counts[k]})

Send(k, answer) ==
  /\ Len(results) < 5
  /\ said' = [said EXCEPT ![k] = answer]
  /\ results' = Append(results, [key |-> k, evidence |-> answer])

\* Mutation: an early return on an error skips wg.Done.
queryTemplateDoneOnSuccess(k) ==
  /\ query[k] = "asked"
  /\ \E answer \in Answers(k) :
       /\ Send(k, answer)
       /\ query' = [query EXCEPT ![k] = IF answer.error THEN "idle" ELSE "over"]
  /\ UNCHANGED <<pc, req, closed, reportVars, codex, child>>

(* The answer arrives, or the call fails or times out, and goes into the channel;
   wg.Done follows, which only the closing goroutine can tell. *)
queryTemplate(k) ==
  /\ query[k] = "asked"
  /\ \E answer \in Answers(k) : Send(k, answer)
  /\ query' = [query EXCEPT ![k] = "over"]
  /\ UNCHANGED <<pc, req, closed, reportVars, codex, child>>

\* Mutation: wg.Add(4) when the fifth query was added.
CloseAfterFour ==
  /\ ~closed /\ Cardinality({k \in Source : query[k] = "over"}) >= 4
  /\ closed' = TRUE
  /\ UNCHANGED <<pc, req, query, said, results, reportVars, codex, child>>

(* wg.Wait and close. *)
CloseResults ==
  /\ ~closed /\ \A k \in Source : query[k] = "over"
  /\ closed' = TRUE
  /\ UNCHANGED <<pc, req, query, said, results, reportVars, codex, child>>

\* Mutation: the case for "topology" is copied from "logs" and not changed.
StoreInLogs(k, e) ==
  evidence' = [s \in DOMAIN evidence \cup {k} |->
                 IF s = (IF k = "topology" THEN "logs" ELSE k) THEN e
                 ELSE IF s \in DOMAIN evidence THEN evidence[s] ELSE Found(0)]

Store(k, e) ==
  evidence' = [s \in DOMAIN evidence \cup {k} |-> IF s = k THEN e ELSE evidence[s]]

(* The loop over the channel. *)
Collect ==
  /\ pc = "collecting" /\ results # <<>>
  /\ LET res == Head(results)
     IN  /\ Store(res.key, res.evidence)
         /\ errs' = IF res.evidence.error THEN Append(errs, res.key) ELSE errs
  /\ results' = Tail(results)
  /\ UNCHANGED <<pc, req, query, said, closed, health, diagnosis, status,
                 codex, child>>

-----------------------------------------------------------------------------
\* Mutation: failed sources do not count.
summarizeHealthOfAnswers(found, failures) ==
  IF found["logs"].count >= 25 \/ found["traces"].count >= 10 THEN "critical"
  ELSE IF found["logs"].count > 0 \/ found["traces"].count > 0 THEN "degraded"
  ELSE "healthy"

summarizeHealth(found, failures) ==
  IF found["logs"].count >= 25 \/ found["traces"].count >= 10 THEN "critical"
  ELSE IF found["logs"].count > 0 \/ found["traces"].count > 0 \/ failures # <<>>
       THEN "degraded"
  ELSE "healthy"

(* Its text is left out. *)
heuristicDiagnosis == "heuristic-fallback"

(* The channel is closed and drained.  Whether there is a reasoner is configured, and
   first asked here. *)
Summarize ==
  /\ pc = "collecting" /\ results = <<>> /\ closed
  /\ health' = summarizeHealth(evidence, errs)
  /\ diagnosis' = heuristicDiagnosis /\ status' = "fallback"
  /\ \E reasoner \in Reasoners : pc' = IF reasoner THEN "analyzing" ELSE "done"
  /\ UNCHANGED <<req, channelVars, evidence, errs, codex, child>>

(* The command starts, or cannot be started. *)
StartCodex ==
  /\ pc = "analyzing" /\ codex = None
  /\ codex' \in {"running", "failed"}
  /\ UNCHANGED <<pc, req, channelVars, reportVars, child>>

CodexForks ==
  /\ codex = "running" /\ ~child
  /\ child' = TRUE
  /\ UNCHANGED <<pc, req, channelVars, reportVars, codex>>

(* It exits: with a diagnosis, with output that holds none, or with an error. *)
CodexExits ==
  /\ codex = "running"
  /\ codex' \in {"diagnosed", "unreadable", "failed"}
  /\ UNCHANGED <<pc, req, channelVars, reportVars, child>>

\* Mutation: the process is killed without having been started.
KillUnstarted ==
  /\ codex \in {None, "running"} /\ pc # "idle"
  /\ codex' = "killed"
  /\ UNCHANGED <<pc, req, channelVars, reportVars, child>>

(* The deadline, or the client has gone: the process is killed, and nothing else. *)
Kill ==
  /\ codex = "running"
  /\ codex' = "killed"
  /\ UNCHANGED <<pc, req, channelVars, reportVars, child>>

ChildEnds ==
  /\ child
  /\ child' = FALSE
  /\ UNCHANGED <<pc, req, channelVars, reportVars, codex>>

Exited == codex \notin {None, "running"}

\* Mutation: the error is noted, but not looked at.
AdoptAny ==
  /\ diagnosis' = "codex" /\ status' = "completed"
  /\ errs' = IF codex = "diagnosed" THEN errs ELSE Append(errs, "reasoner")

Adopt ==
  IF codex = "diagnosed"
  THEN diagnosis' = "codex" /\ status' = "completed" /\ UNCHANGED errs
  ELSE errs' = Append(errs, "reasoner") /\ UNCHANGED <<diagnosis, status>>

(* CombinedOutput returns when the process has exited and nobody holds its output. *)
Analyze ==
  /\ pc = "analyzing" /\ Exited /\ ~child
  /\ Adopt
  /\ pc' = "done"
  /\ UNCHANGED <<req, channelVars, evidence, health, codex, child>>

Next ==
  \/ Run
  \/ \E k \in Source : queryTemplate(k)
  \/ CloseResults \/ Collect \/ Summarize
  \/ StartCodex \/ CodexForks \/ CodexExits \/ Kill \/ ChildEnds \/ Analyze

(* Every call of the gateway has a timeout, the goroutines and the loop are
   scheduled, and the reasoner's deadline expires.  Nothing ends another process. *)
Fairness ==
  /\ \A k \in Source : WF_vars(queryTemplate(k))
  /\ WF_vars(CloseResults) /\ WF_vars(Collect) /\ WF_vars(Summarize)
  /\ WF_vars(StartCodex) /\ WF_vars(Kill) /\ WF_vars(Analyze)

Spec == Init /\ [][Next]_vars
FairSpec == Spec /\ Fairness

-----------------------------------------------------------------------------
(* Properties. *)

Evidence == [count : Nat, error : BOOLEAN]

TypeOK ==
  /\ pc \in {"idle", "refused", "collecting", "analyzing", "done"}
  /\ query \in [Source -> {"idle", "asked", "over"}]
  /\ said \in [Source -> Evidence]
  /\ Len(results) <= Cardinality({k \in Source : query[k] # "asked"})
  /\ DOMAIN evidence \subseteq Source /\ \A k \in DOMAIN evidence : evidence[k] \in Evidence
  /\ Len(errs) <= 6 /\ ToSet(errs) \subseteq Source \cup {"reasoner"}
  /\ health \in {None, "healthy", "degraded", "critical"}
  /\ diagnosis \in {None, heuristicDiagnosis, "codex"}
  /\ status \in {None, "fallback", "completed"}
  /\ codex \in {None, "running", "diagnosed", "unreadable", "failed", "killed"}
  /\ codex # None => pc \in {"analyzing", "done"}

(* No goroutine sends into a closed channel, which would end the whole process
   (service.go:302). *)
NeverSendsOnClosed == closed => \A k \in Source : query[k] # "asked"

(* In whatever order the answers arrive, the report shows for every source what the
   gateway said of it, and names every failed source once (service.go:306). *)
ReportComplete ==
  pc \in {"analyzing", "done"} =>
    /\ evidence = said
    /\ ToSet(errs) \ {"reasoner"} = {k \in Source : said[k].error}
    /\ Cardinality(ToSet(errs)) = Len(errs)

(* A service is not called healthy while a source could not be asked, as for a
   reversed range, and more records never improve its state
   (service.go:475). *)
HealthyIsKnown ==
  pc \in {"analyzing", "done"} =>
    /\ health = "healthy" =>
         /\ req.start <= req.end
         /\ \A k \in Source : ~said[k].error
         /\ said["logs"].count = 0 /\ said["traces"].count = 0
    /\ said["logs"].count >= 25 \/ said["traces"].count >= 10 => health = "critical"

(* The report says who diagnosed: "completed" means the reasoner's diagnosis, and
   a reasoner that was asked and failed is among the errors (service.go:204). *)
ReasonerTold ==
  pc = "done" =>
    /\ status = "completed" <=> diagnosis = "codex"
    /\ "reasoner" \in ToSet(errs) <=> codex # None /\ diagnosis # "codex"
    /\ diagnosis = "codex" => codex = "diagnosed"

(* Every run is answered, unless a process that outlives Codex keeps its output
   open: the kill at the deadline does not reach it (service.go:421). *)
RunAnswered ==
  pc = "collecting" ~> pc = "done" \/ (Exited /\ child)
=============================================================================
