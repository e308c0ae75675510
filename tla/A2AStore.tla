------------------------------ MODULE A2AStore ------------------------------
(***************************************************************************)
(* The tasks that other agents hand to the operations agent                *)
(* (llm-ops-agent/api/a2a.go).  Tasks live in a map of the process, under  *)
(* the random id of the call that created them; the model names a task by  *)
(* that call.                                                              *)
(***************************************************************************)
VARIABLES
  tasks,   \* the map of the process: the status of each task
  reply    \* what the handler of a call answers: a status, or NotFound

a2aVars == <<tasks, reply>>

NoTask == "none"
NotFound == "404"
Status == {"completed", "needs_input", "declined"}

NoTasks(calls) == [r \in calls |-> NoTask]

InitStore(calls) == tasks = NoTasks(calls) /\ reply = NoTasks(calls)

-----------------------------------------------------------------------------

(* What the intent and the goal ask for: topics of an infrastructure change and of
   operational command; the later of the two checks wins. *)
evaluateObservabilityRequest(topics) ==
  CASE "operations" \in topics                                    -> "declined"
    [] "operations" \notin topics /\ "infrastructure" \in topics  -> "needs_input"
    [] OTHER                                                      -> "accepted"

(* An accepted request is rewritten before the record is stored. *)
Rewritten(status) == IF status = "accepted" THEN "completed" ELSE status

\* Mutation: the record goes into the map before its status is rewritten.
createTaskStoredEarly(r, topics) ==
  LET status == evaluateObservabilityRequest(topics)
  IN  /\ tasks' = [tasks EXCEPT ![r] = status]
      /\ reply' = [reply EXCEPT ![r] = Rewritten(status)]

createTask(r, topics) ==
  LET record == Rewritten(evaluateObservabilityRequest(topics))
  IN  /\ tasks' = [tasks EXCEPT ![r] = record]
      /\ reply' = [reply EXCEPT ![r] = record]

getTask(r, task) ==
  /\ reply' = [reply EXCEPT ![r] = IF tasks[task] = NoTask THEN NotFound ELSE tasks[task]]
  /\ UNCHANGED tasks

=============================================================================
