--------------------------- MODULE AnalysisProofs ---------------------------
(***************************************************************************)
(* Proofs about AnalysisService, for any requests, record counts and       *)
(* configurations, and any order of the answers.                           *)
(***************************************************************************)
EXTENDS AnalysisService, TLAPS, FiniteSetTheorems

Result == [key : Source, evidence : Evidence]
Name == Source \cup {"reasoner"}
Started == pc \in {"collecting", "analyzing", "done"}
Summarized == pc \in {"analyzing", "done"}

InChannel(k) == \E i \in DOMAIN results : results[i].key = k
Named(k) == \E i \in DOMAIN errs : errs[i] = k

Typing ==
  /\ pc \in {"idle", "refused", "collecting", "analyzing", "done"}
  /\ req.start \in Int /\ req.end \in Int
  /\ query \in [Source -> {"idle", "asked", "over"}]
  /\ said \in [Source -> Evidence]
  /\ results \in Seq(Result)
  /\ closed \in BOOLEAN
  /\ DOMAIN evidence \subseteq Source /\ {"logs", "traces"} \subseteq DOMAIN evidence
  /\ evidence \in [DOMAIN evidence -> Evidence]
  /\ errs \in Seq(Name)
  /\ health \in {None, "healthy", "degraded", "critical"}
  /\ codex \in {None, "running", "diagnosed", "unreadable", "failed", "killed"}

(* Who has begun, and who is over. *)
Progress ==
  /\ Started <=> \A k \in Source : query[k] # "idle"
  /\ ~Started => results = <<>> /\ \A k \in Source : query[k] = "idle"
  /\ closed => \A k \in Source : query[k] = "over"
  /\ Summarized => closed /\ results = <<>>
  /\ codex # None => Summarized
  /\ codex = "running" => pc = "analyzing"

(* The channel holds what was said of a source that is over, once. *)
Channel ==
  /\ \A i \in DOMAIN results :
       query[results[i].key] = "over" /\ results[i].evidence = said[results[i].key]
  /\ \A i, j \in DOMAIN results : results[i].key = results[j].key => i = j

(* Every source is still asked, in the channel, or in the report. *)
Accounted ==
  \A k \in Source :
    IF query[k] = "over" /\ ~InChannel(k)
    THEN /\ k \in DOMAIN evidence /\ evidence[k] = said[k]
         /\ said[k].error <=> Named(k)
    ELSE ~Named(k)

(* The errors name nobody twice, and the reasoner only if it failed. *)
Errors ==
  /\ \A i, j \in DOMAIN errs : errs[i] = errs[j] => i = j
  /\ Named("reasoner") => pc = "done"

(* The gateway refuses the logs of a reversed range. *)
Reversed ==
  \A k \in Source \ Metric : query[k] = "over" /\ req.start > req.end => said[k].error

Diagnosed ==
  /\ ~Summarized => diagnosis = None /\ status = None
  /\ pc = "analyzing" => diagnosis = heuristicDiagnosis /\ status = "fallback"
  /\ pc = "done" => diagnosis # None /\ status # None
  /\ diagnosis \in {None, heuristicDiagnosis, "codex"}
  /\ status \in {None, "fallback", "completed"}

Inv ==
  /\ Typing /\ Progress /\ Channel /\ Accounted /\ Errors /\ Reversed
  /\ HealthyIsKnown /\ ReasonerTold /\ Diagnosed

-----------------------------------------------------------------------------
(* Sequences that grow at the end and shrink at the front. *)

LEMMA SeqDomain ==
  ASSUME NEW S, NEW s \in Seq(S)
  PROVE  DOMAIN s = 1..Len(s) /\ Len(s) \in Nat /\ \A i \in DOMAIN s : s[i] \in S
  OBVIOUS

LEMMA Appended ==
  ASSUME NEW S, NEW s \in Seq(S), NEW e \in S
  PROVE  /\ Append(s, e) \in Seq(S)
         /\ DOMAIN Append(s, e) = 1..(Len(s) + 1)
         /\ \A i \in 1..Len(s) : Append(s, e)[i] = s[i]
         /\ Append(s, e)[Len(s) + 1] = e
  OBVIOUS

LEMMA HeadTail ==
  ASSUME NEW S, NEW s \in Seq(S), s # <<>>
  PROVE  /\ Head(s) = s[1] /\ 1 \in DOMAIN s
         /\ Tail(s) \in Seq(S)
         /\ DOMAIN Tail(s) = 1..(Len(s) - 1)
         /\ \A i \in 1..(Len(s) - 1) : Tail(s)[i] = s[i + 1] /\ i + 1 \in DOMAIN s
  OBVIOUS

(* Whoever is appended is in the sequence, and everybody else stays where he is. *)
LEMMA AppendedMembers ==
  ASSUME NEW S, NEW s \in Seq(S), NEW e \in S, NEW x
  PROVE  (\E i \in DOMAIN Append(s, e) : Append(s, e)[i] = x)
           <=> x = e \/ \E i \in DOMAIN s : s[i] = x
<1>1. /\ DOMAIN s = 1..Len(s) /\ Len(s) \in Nat
      /\ DOMAIN Append(s, e) = 1..(Len(s) + 1)
      /\ \A i \in 1..Len(s) : Append(s, e)[i] = s[i]
      /\ Append(s, e)[Len(s) + 1] = e
  BY Appended, SeqDomain
<1> QED
  BY <1>1

-----------------------------------------------------------------------------
(* The initial states. *)

LEMMA InitInv == Init => Inv
<1> SUFFICES ASSUME Init PROVE Inv
  OBVIOUS
<1>1. Typing
  <2>1. Found(0) \in Evidence
    BY DEF Found, Evidence
  <2>2. req.start \in Int /\ req.end \in Int
    <3>1. req = NoRequest
      BY DEF Init
    <3>2. NoRequest.start = 0 /\ NoRequest.end = 0
      BY DEF NoRequest
    <3> QED
      BY <3>1, <3>2
  <2>3. /\ DOMAIN evidence = Source \ Metric
        /\ {"logs", "traces"} \subseteq Source \ Metric
        /\ evidence \in [Source \ Metric -> Evidence]
    BY <2>1 DEF Init, Source, Metric
  <2>4. /\ query \in [Source -> {"idle", "asked", "over"}]
        /\ said \in [Source -> Evidence]
    BY <2>1 DEF Init
  <2>5. /\ pc = "idle" /\ closed = FALSE /\ health = None /\ codex = None
        /\ results = <<>> /\ errs = <<>>
    BY DEF Init
  <2>6. results \in Seq(Result) /\ errs \in Seq(Name)
    BY <2>5
  <2> QED
    BY <2>2, <2>3, <2>4, <2>5, <2>6 DEF Typing
<1>2. Progress /\ Channel /\ Accounted /\ Errors /\ Reversed /\ Diagnosed
  BY DEF Init, Progress, Channel, Accounted, Errors, Reversed, Diagnosed, Started, Summarized,
         Named, Source, Metric, None
<1>3. HealthyIsKnown /\ ReasonerTold
  BY DEF Init, HealthyIsKnown, ReasonerTold
<1> QED
  BY <1>1, <1>2, <1>3 DEF Inv

-----------------------------------------------------------------------------
(* A request arrives. *)

LEMMA NormalizedTimes ==
  ASSUME NEW r \in [service : STRING, start : Nat, end : Nat, window : Int]
  PROVE  normalizeRequest(r).start \in Int /\ normalizeRequest(r).end \in Int
<1> DEFINE end == IF r.end = 0 THEN Now ELSE r.end
           length == IF GivesWindow(r) /\ Parses(r.window) THEN r.window ELSE DefaultWindow
<1>1. end \in Int /\ length \in Int /\ r.start \in Int
  BY AnalysisAssumption
<1> HIDE DEF end, length
<1>2. CASE r.start = 0
  <2>1. normalizeRequest(r) = [r EXCEPT !.start = end - length, !.end = end, !.window = length]
    BY <1>2 DEF normalizeRequest, end, length
  <2> QED
    BY <1>1, <2>1
<1>3. CASE r.start # 0
  <2>1. normalizeRequest(r) =
          [r EXCEPT !.end = end,
                    !.window = IF GivesWindow(r) THEN @ ELSE RoundToMinute(end - r.start)]
    BY <1>3 DEF normalizeRequest, end
  <2> QED
    BY <1>1, <2>1
<1> QED
  BY <1>2, <1>3

LEMMA RunKeepsInv == Inv /\ Run => Inv'
<1> SUFFICES ASSUME Inv, Run PROVE Inv'
  OBVIOUS
<1> USE DEF Inv
<1>1. /\ pc = "idle" /\ closed = FALSE /\ codex = None
      /\ results = <<>> /\ \A k \in Source : query[k] = "idle" /\ ~Named(k)
      /\ UNCHANGED <<said, results, closed, reportVars, codex, child>>
  BY DEF Run, Progress, Started, Summarized, Typing, Accounted, Source, Metric
<1>2. CASE pc' = "refused" /\ UNCHANGED <<req, query>>
  BY <1>1, <1>2 DEF Typing, Progress, Channel, Accounted, Errors, Reversed, HealthyIsKnown,
     ReasonerTold, Diagnosed, Started, Summarized, InChannel, Named, reportVars
<1>3. CASE \E r \in Incoming : /\ req' = normalizeRequest(r)
                               /\ query' = [k \in Source |-> "asked"]
                               /\ pc' = "collecting"
  <2>1. req'.start \in Int /\ req'.end \in Int
    BY <1>3, NormalizedTimes, AnalysisAssumption
  <2>2. pc' = "collecting" /\ query' = [k \in Source |-> "asked"]
    BY <1>3
  <2>3. Typing' /\ Diagnosed' /\ HealthyIsKnown' /\ ReasonerTold'
    BY <1>1, <2>1, <2>2 DEF Typing, Diagnosed, HealthyIsKnown, ReasonerTold, Summarized, reportVars
  <2>4. Progress'
    BY <1>1, <2>2 DEF Progress, Started, Summarized, Source, Metric
  <2>5. Channel' /\ Reversed'
    BY <1>1, <2>2 DEF Channel, Reversed
  <2>6. Accounted' /\ Errors'
    BY <1>1, <2>2 DEF Accounted, Errors, Named, InChannel, reportVars
  <2> QED
    BY <2>3, <2>4, <2>5, <2>6
<1> QED
  BY <1>2, <1>3 DEF Run

-----------------------------------------------------------------------------
(* A goroutine sends, and the channel is closed. *)

LEMMA QueryKeepsInv ==
  ASSUME Inv, NEW k \in Source, queryTemplate(k)
  PROVE  Inv'
<1> USE DEF Inv
<1>1. PICK answer \in Answers(k) : Send(k, answer)
  BY DEF queryTemplate
<1>2. /\ query[k] = "asked" /\ query' = [query EXCEPT ![k] = "over"]
      /\ UNCHANGED <<pc, req, closed, reportVars, codex, child>>
  BY DEF queryTemplate
<1>3. pc = "collecting" /\ closed = FALSE /\ ~Named(k)
  BY <1>2 DEF Progress, Started, Summarized, Typing, Accounted
<1>4. answer \in Evidence
  <2>1. Failed \in Evidence /\ \A n \in Counts[k] : Found(n) \in Evidence
    BY AnalysisAssumption DEF Evidence, Failed, Found
  <2> QED
    BY <1>1, <2>1 DEF Answers
<1> DEFINE sent == [key |-> k, evidence |-> answer]
<1>5. /\ said' = [said EXCEPT ![k] = answer]
      /\ results' = Append(results, sent) /\ results \in Seq(Result) /\ sent \in Result
  BY <1>1, <1>4 DEF Send, Typing, Result
<1> HIDE DEF sent
<1>6. /\ results' \in Seq(Result) /\ DOMAIN results' = 1..(Len(results) + 1)
      /\ DOMAIN results = 1..Len(results) /\ Len(results) \in Nat
      /\ \A i \in 1..Len(results) : results'[i] = results[i]
      /\ results'[Len(results) + 1] = sent
  BY <1>5, Appended, SeqDomain
<1>7. sent.key = k /\ sent.evidence = answer
  BY DEF sent
<1>8. \A i \in DOMAIN results : results[i].key \in Source /\ results[i].key # k
  <2>1. \A i \in DOMAIN results : results[i] \in Result
    BY <1>5, SeqDomain
  <2>2. \A i \in DOMAIN results : query[results[i].key] = "over"
    BY DEF Channel
  <2> QED
    BY <1>2, <2>1, <2>2 DEF Result
<1>9. Typing' /\ Diagnosed' /\ HealthyIsKnown' /\ ReasonerTold'
  BY <1>2, <1>3, <1>4, <1>5, <1>6
     DEF Typing, Diagnosed, HealthyIsKnown, ReasonerTold, Summarized, reportVars
<1>10. Progress'
  BY <1>2, <1>3 DEF Progress, Started, Summarized, Typing
<1>11. Channel'
  <2>1. \A i \in DOMAIN results' : query'[results'[i].key] = "over"
                                   /\ results'[i].evidence = said'[results'[i].key]
    BY <1>2, <1>5, <1>6, <1>7, <1>8 DEF Channel, Typing
  <2>2. \A i, j \in DOMAIN results' : results'[i].key = results'[j].key => i = j
    BY <1>6, <1>7, <1>8 DEF Channel
  <2> QED
    BY <2>1, <2>2 DEF Channel
<1>12. Accounted'
  <2>1. InChannel(k)' /\ \A j \in Source \ {k} : InChannel(j)' <=> InChannel(j)
    BY <1>6, <1>7 DEF InChannel
  <2>2. \A j \in Source : Named(j)' <=> Named(j)
    BY <1>2 DEF Named, reportVars
  <2> QED
    BY <1>2, <1>3, <1>5, <2>1, <2>2 DEF Accounted, Typing, reportVars
<1>13. Errors'
  BY <1>2 DEF Errors, Named, reportVars
<1>14. Reversed'
  <2>1. k \notin Metric /\ req.start > req.end => answer.error
    BY <1>1 DEF Answers, Refused, Failed
  <2> QED
    BY <1>2, <1>5, <2>1 DEF Reversed, Typing
<1> QED
  BY <1>9, <1>10, <1>11, <1>12, <1>13, <1>14

LEMMA CloseKeepsInv == Inv /\ CloseResults => Inv'
BY DEF Inv, CloseResults, Typing, Progress, Channel, Accounted, Errors, Reversed, HealthyIsKnown,
       ReasonerTold, Diagnosed, Started, Summarized, InChannel, Named, reportVars

-----------------------------------------------------------------------------
(* The loop takes a result from the channel into the report. *)

LEMMA CollectKeepsInv == Inv /\ Collect => Inv'
<1> SUFFICES ASSUME Inv, Collect PROVE Inv'
  OBVIOUS
<1> USE DEF Inv
<1> PICK res : res = Head(results)
  OBVIOUS
<1> DEFINE k == res.key
<1>1. /\ pc = "collecting" /\ results # <<>> /\ results \in Seq(Result)
      /\ Store(k, res.evidence) /\ results' = Tail(results)
      /\ errs' = IF res.evidence.error THEN Append(errs, k) ELSE errs
      /\ UNCHANGED <<pc, req, query, said, closed, health, diagnosis, status, codex, child>>
  BY DEF Collect, Typing
<1>2. /\ res = results[1] /\ 1 \in DOMAIN results /\ results' \in Seq(Result)
      /\ DOMAIN results = 1..Len(results) /\ Len(results) \in Nat
      /\ DOMAIN results' = 1..(Len(results) - 1)
      /\ \A i \in 1..(Len(results) - 1) : results'[i] = results[i + 1] /\ i + 1 \in DOMAIN results
  BY <1>1, HeadTail, SeqDomain
<1>3. res \in Result /\ \A i \in DOMAIN results : results[i] \in Result
  BY <1>1, <1>2, SeqDomain
<1>4. k \in Source /\ res.evidence \in Evidence
  BY <1>3 DEF Result
<1>5. query[k] = "over" /\ res.evidence = said[k] /\ InChannel(k) /\ ~Named(k)
  BY <1>2, <1>4 DEF Channel, InChannel, Accounted
<1>6. ~InChannel(k)' /\ \A j \in Source \ {k} : InChannel(j)' <=> InChannel(j)
  <2>1. \A i \in DOMAIN results : i # 1 => results[i].key # k
    BY <1>2 DEF Channel
  <2>2. ~InChannel(k)'
    BY <1>2, <2>1 DEF InChannel
  <2>3. ASSUME NEW j \in Source \ {k} PROVE InChannel(j)' <=> InChannel(j)
    <3>1. ASSUME NEW i \in DOMAIN results, results[i].key = j PROVE InChannel(j)'
      <4>1. i - 1 \in 1..(Len(results) - 1) /\ (i - 1) + 1 = i
        BY <1>2, <3>1, <2>3
      <4> QED
        BY <1>2, <3>1, <4>1 DEF InChannel
    <3>2. InChannel(j)' => InChannel(j)
      BY <1>2 DEF InChannel
    <3> QED
      BY <3>1, <3>2 DEF InChannel
  <2> QED
    BY <2>2, <2>3
<1>7. \A j \in Source \cup {"reasoner"} : Named(j)' <=> Named(j) \/ (j = k /\ said[k].error)
  <2>1. errs \in Seq(Name) /\ k \in Name
    BY <1>4 DEF Typing, Name
  <2>2. CASE res.evidence.error
    BY <1>1, <1>5, <2>1, <2>2, AppendedMembers DEF Named
  <2>3. CASE ~res.evidence.error
    BY <1>1, <1>5, <2>3 DEF Named
  <2> QED
    BY <2>2, <2>3
<1>8. /\ DOMAIN evidence' = DOMAIN evidence \cup {k}
      /\ evidence' = [s \in DOMAIN evidence' |-> IF s = k THEN said[k] ELSE evidence[s]]
  BY <1>1, <1>5 DEF Store
<1>9. errs' \in Seq(Name)
  BY <1>1, <1>4, Appended DEF Typing, Name
<1>10. Typing'
  BY <1>1, <1>2, <1>4, <1>5, <1>8, <1>9 DEF Typing
<1>11. Progress' /\ Reversed' /\ Diagnosed' /\ HealthyIsKnown' /\ ReasonerTold'
  BY <1>1 DEF Progress, Started, Summarized, Reversed, Diagnosed, HealthyIsKnown, ReasonerTold
<1>12. Channel'
  BY <1>1, <1>2 DEF Channel
<1>13. Accounted'
  <2>1. ASSUME NEW j \in Source \ {k}, query[j] = "over" /\ ~InChannel(j)
        PROVE  j \in DOMAIN evidence' /\ evidence'[j] = said[j] /\ (said[j].error <=> Named(j))
    BY <1>8, <2>1 DEF Accounted
  <2>2. k \in DOMAIN evidence' /\ evidence'[k] = said[k] /\ (said[k].error <=> Named(k)')
    BY <1>4, <1>5, <1>7, <1>8
  <2>3. \A j \in Source \ {k} : Named(j)' <=> Named(j)
    BY <1>7
  <2> QED
    BY <1>1, <1>5, <1>6, <2>1, <2>2, <2>3 DEF Accounted
<1>14. Errors'
  <2>1. Named("reasoner")' => pc' = "done"
    BY <1>1, <1>4, <1>7 DEF Errors, Source, Metric
  <2>2. \A i, j \in DOMAIN errs' : errs'[i] = errs'[j] => i = j
    <3>1. errs \in Seq(Name) /\ k \in Name
      BY <1>4 DEF Typing, Name
    <3>2. CASE errs' = errs
      BY <3>2 DEF Errors
    <3>3. CASE errs' = Append(errs, k)
      <4>1. /\ DOMAIN errs = 1..Len(errs) /\ Len(errs) \in Nat
            /\ DOMAIN errs' = 1..(Len(errs) + 1)
            /\ \A i \in 1..Len(errs) : errs'[i] = errs[i]
            /\ errs'[Len(errs) + 1] = k
        BY <3>1, <3>3, Appended, SeqDomain
      <4> QED
        BY <1>5, <4>1 DEF Errors, Named
    <3> QED
      BY <1>1, <3>2, <3>3
  <2> QED
    BY <2>1, <2>2 DEF Errors
<1> QED
  BY <1>10, <1>11, <1>12, <1>13, <1>14

-----------------------------------------------------------------------------
(* The report is drawn up, and the reasoner is asked. *)

LEMMA SummarizeKeepsInv == Inv /\ Summarize => Inv'
<1> SUFFICES ASSUME Inv, Summarize PROVE Inv'
  OBVIOUS
<1> USE DEF Inv
<1>1. /\ pc = "collecting" /\ results = <<>> /\ closed
      /\ health' = summarizeHealth(evidence, errs)
      /\ diagnosis' = heuristicDiagnosis /\ status' = "fallback"
      /\ pc' \in {"analyzing", "done"}
      /\ UNCHANGED <<req, query, said, results, closed, evidence, errs, codex, child>>
  BY DEF Summarize, channelVars
<1>2. codex = None /\ ~Named("reasoner")
  BY <1>1 DEF Progress, Summarized, Errors
<1>3. \A k \in Source : evidence[k] = said[k] /\ (said[k].error <=> Named(k))
  <2>1. \A k \in Source : query[k] = "over" /\ ~InChannel(k)
    BY <1>1 DEF Progress, InChannel
  <2> QED
    BY <2>1 DEF Accounted
<1>4. errs = <<>> => \A k \in Source : ~said[k].error
  BY <1>3 DEF Named
<1>5. {"logs", "traces"} \subseteq Source \ Metric
  BY DEF Source, Metric
<1>6. said["logs"].count \in Nat /\ said["traces"].count \in Nat
  BY <1>5 DEF Typing, Evidence
<1>7. HealthyIsKnown'
  <2>1. said["logs"].count >= 25 \/ said["traces"].count >= 10 => health' = "critical"
    BY <1>1, <1>3, <1>5 DEF summarizeHealth
  <2>2. health' = "healthy" =>
          said["logs"].count = 0 /\ said["traces"].count = 0 /\ errs = <<>>
    BY <1>1, <1>3, <1>5, <1>6 DEF summarizeHealth
  <2>3. errs = <<>> => req.start <= req.end
    BY <1>1, <1>4, <1>5 DEF Reversed, Progress, Typing
  <2> QED
    BY <1>1, <1>4, <2>1, <2>2, <2>3 DEF HealthyIsKnown
<1>8. ReasonerTold'
  <2>1. ~("reasoner" \in ToSet(errs))
    BY <1>2 DEF ToSet, Named
  <2> QED
    BY <1>1, <1>2, <2>1 DEF ReasonerTold, heuristicDiagnosis
<1>9. Typing'
  BY <1>1 DEF Typing, summarizeHealth
<1>10. Progress' /\ Diagnosed'
  BY <1>1 DEF Progress, Started, Summarized, Diagnosed, None, heuristicDiagnosis
<1>11. Channel' /\ Accounted' /\ Errors' /\ Reversed'
  BY <1>1, <1>2 DEF Channel, Accounted, Errors, Reversed, InChannel, Named
<1> QED
  BY <1>7, <1>8, <1>9, <1>10, <1>11

LEMMA CodexKeepsInv ==
  Inv /\ (StartCodex \/ CodexForks \/ CodexExits \/ Kill \/ ChildEnds) => Inv'
<1> SUFFICES ASSUME Inv, StartCodex \/ CodexForks \/ CodexExits \/ Kill \/ ChildEnds
             PROVE  Inv'
  OBVIOUS
<1> USE DEF Inv
<1>1. /\ UNCHANGED <<pc, req, query, said, results, closed, evidence, errs, health, diagnosis,
                     status>>
      /\ codex' \in {None, "running", "diagnosed", "unreadable", "failed", "killed"}
      /\ codex' # codex => pc = "analyzing"
      /\ codex' # None => Summarized /\ (codex' = "running" => pc = "analyzing")
  BY DEF StartCodex, CodexForks, CodexExits, Kill, ChildEnds, channelVars, reportVars, Typing,
         Progress, Summarized, None
<1>2. Typing' /\ Progress' /\ Channel' /\ Accounted' /\ Errors' /\ Reversed' /\ Diagnosed'
  BY <1>1 DEF Typing, Progress, Channel, Accounted, Errors, Reversed, Diagnosed, Started,
     Summarized, InChannel, Named
<1>3. HealthyIsKnown'
  BY <1>1 DEF HealthyIsKnown
<1>4. ReasonerTold'
  BY <1>1 DEF ReasonerTold
<1> QED
  BY <1>2, <1>3, <1>4

LEMMA AnalyzeKeepsInv == Inv /\ Analyze => Inv'
<1> SUFFICES ASSUME Inv, Analyze PROVE Inv'
  OBVIOUS
<1> USE DEF Inv
<1>1. /\ pc = "analyzing" /\ pc' = "done" /\ codex \notin {None, "running"} /\ Adopt
      /\ UNCHANGED <<req, query, said, results, closed, evidence, health, codex, child>>
  BY DEF Analyze, Exited, channelVars
<1>2. /\ diagnosis = heuristicDiagnosis /\ status = "fallback" /\ ~Named("reasoner")
      /\ closed /\ results = <<>> /\ errs \in Seq(Name)
  BY <1>1 DEF Diagnosed, Errors, Progress, Summarized, Typing
<1>3. CASE codex = "diagnosed"
  <2>1. diagnosis' = "codex" /\ status' = "completed" /\ errs' = errs
    BY <1>1, <1>3 DEF Adopt
  <2>2. ReasonerTold'
    BY <1>1, <1>2, <1>3, <2>1 DEF ReasonerTold, ToSet, Named
  <2>3. Typing' /\ Progress' /\ Channel' /\ Accounted' /\ Reversed' /\ HealthyIsKnown'
    BY <1>1, <1>2, <2>1 DEF Typing, Progress, Channel, Accounted, Reversed, HealthyIsKnown,
       Started, Summarized, InChannel, Named
  <2>4. Errors' /\ Diagnosed'
    BY <1>1, <2>1 DEF Errors, Diagnosed, Named, Summarized, None, heuristicDiagnosis
  <2> QED
    BY <2>2, <2>3, <2>4
<1>4. CASE codex # "diagnosed"
  <2>1. diagnosis' = diagnosis /\ status' = status /\ errs' = Append(errs, "reasoner")
    BY <1>1, <1>4 DEF Adopt
  <2>2. "reasoner" \in Name /\ "reasoner" \notin Source
    BY DEF Name, Source, Metric
  <2>3. \A j : Named(j)' <=> j = "reasoner" \/ Named(j)
    BY <1>2, <2>1, <2>2, AppendedMembers DEF Named
  <2>4. ReasonerTold'
    <3>1. "reasoner" \in ToSet(errs')
      BY <2>3 DEF ToSet, Named
    <3> QED
      BY <1>1, <1>2, <1>4, <2>1, <3>1 DEF ReasonerTold, heuristicDiagnosis
  <2>5. Typing'
    BY <1>1, <1>2, <2>1, <2>2, Appended DEF Typing
  <2>6. Progress' /\ Channel' /\ Reversed' /\ HealthyIsKnown' /\ Diagnosed'
    BY <1>1, <1>2, <2>1 DEF Progress, Channel, Reversed, HealthyIsKnown, Diagnosed, Started,
       Summarized, None, heuristicDiagnosis
  <2>7. Accounted'
    <3>1. \A j \in Source : Named(j)' <=> Named(j)
      BY <2>2, <2>3
    <3> QED
      BY <1>1, <3>1 DEF Accounted, InChannel
  <2>8. Errors'
    <3>1. /\ DOMAIN errs = 1..Len(errs) /\ Len(errs) \in Nat
          /\ DOMAIN errs' = 1..(Len(errs) + 1)
          /\ \A i \in 1..Len(errs) : errs'[i] = errs[i]
          /\ errs'[Len(errs) + 1] = "reasoner"
      BY <1>2, <2>1, <2>2, Appended, SeqDomain
    <3> QED
      BY <1>1, <1>2, <3>1 DEF Errors, Named
  <2> QED
    BY <2>4, <2>5, <2>6, <2>7, <2>8
<1> QED
  BY <1>3, <1>4

LEMMA StutterKeepsInv == Inv /\ UNCHANGED vars => Inv'
BY DEF Inv, vars, channelVars, reportVars, Typing, Progress, Channel, Accounted, Errors, Reversed,
       HealthyIsKnown, ReasonerTold, Diagnosed, Started, Summarized, InChannel, Named

LEMMA InvHolds == Spec => []Inv
<1>1. Inv /\ [Next]_vars => Inv'
  BY RunKeepsInv, QueryKeepsInv, CloseKeepsInv, CollectKeepsInv, SummarizeKeepsInv,
     CodexKeepsInv, AnalyzeKeepsInv, StutterKeepsInv DEF Next
<1> QED
  BY InitInv, <1>1, PTL DEF Spec

-----------------------------------------------------------------------------
(* The theorems. *)

(* In whatever order the goroutines finish, none of them sends after the closing one
   has closed the channel. *)
THEOREM AnalysisNeverSendsOnClosed == Spec => []NeverSendsOnClosed
<1>1. Inv => NeverSendsOnClosed
  BY DEF Inv, Progress, NeverSendsOnClosed
<1> QED
  BY InvHolds, <1>1, PTL

(* A sequence without repetitions has as many members as places. *)
LEMMA DistinctMembers ==
  ASSUME NEW S, NEW s \in Seq(S),
         \A i, j \in DOMAIN s : s[i] = s[j] => i = j
  PROVE  Cardinality(ToSet(s)) = Len(s)
<1> DEFINE f == [i \in 1..Len(s) |-> s[i]]
<1>1. DOMAIN s = 1..Len(s) /\ Len(s) \in Nat
  BY SeqDomain
<1>2. f \in Bijection(1..Len(s), ToSet(s))
  BY <1>1 DEF Bijection, Injection, Surjection, IsInjective, ToSet
<1>3. IsFiniteSet(1..Len(s)) /\ Cardinality(1..Len(s)) = Len(s)
  BY <1>1, FS_Interval
<1>4. ExistsBijection(1..Len(s), ToSet(s))
  BY <1>2 DEF ExistsBijection
<1> QED
  BY <1>3, <1>4, FS_Bijection

(* In whatever order the answers arrive, the report shows what the gateway said of
   every source, and names every source that failed, once. *)
THEOREM AnalysisReportComplete == Spec => []ReportComplete
<1>1. ASSUME Inv, Summarized PROVE evidence = said
  <2>1. \A k \in Source : k \in DOMAIN evidence /\ evidence[k] = said[k]
    BY <1>1 DEF Inv, Progress, Accounted, InChannel
  <2>2. DOMAIN evidence = Source
    BY <1>1, <2>1 DEF Inv, Typing
  <2>3. evidence \in [Source -> Evidence] /\ said \in [Source -> Evidence]
    BY <1>1, <2>2 DEF Inv, Typing
  <2> QED
    BY <2>1, <2>3
<1>2. ASSUME Inv, Summarized
      PROVE  ToSet(errs) \ {"reasoner"} = {k \in Source : said[k].error}
  <2>1. errs \in Seq(Name)
    BY <1>2 DEF Inv, Typing
  <2>2. ToSet(errs) \subseteq Name /\ \A k : k \in ToSet(errs) <=> Named(k)
    BY <2>1, SeqDomain DEF ToSet, Named
  <2>3. \A k \in Source : said[k].error <=> Named(k)
    BY <1>2 DEF Inv, Progress, Accounted, InChannel
  <2>4. "reasoner" \notin Source
    BY DEF Source, Metric
  <2> QED
    BY <2>2, <2>3, <2>4 DEF Name
<1>3. ASSUME Inv PROVE Cardinality(ToSet(errs)) = Len(errs)
  BY <1>3, DistinctMembers DEF Inv, Typing, Errors
<1>4. Inv => ReportComplete
  BY <1>1, <1>2, <1>3 DEF ReportComplete, Summarized
<1> QED
  BY InvHolds, <1>4, PTL

(* Whatever the gateway returns, a service is only called healthy when every source
   was asked about a range that is not reversed. *)
THEOREM AnalysisHealthyIsKnown == Spec => []HealthyIsKnown
<1>1. Inv => HealthyIsKnown
  BY DEF Inv
<1> QED
  BY InvHolds, <1>1, PTL

(* However Codex ends, the report says whose diagnosis it holds. *)
THEOREM AnalysisReasonerTold == Spec => []ReasonerTold
<1>1. Inv => ReasonerTold
  BY DEF Inv
<1> QED
  BY InvHolds, <1>1, PTL

LEMMA OneMore ==
  ASSUME NEW S, NEW e, IsFiniteSet(S)
  PROVE  /\ IsFiniteSet(S \cup {e}) /\ Cardinality(S) \in Nat /\ Cardinality(S \cup {e}) \in Nat
         /\ Cardinality(S \cup {e}) <= Cardinality(S) + 1
<1>1. Cardinality(S) \in Nat
  BY FS_CardinalityType
<1>2. IsFiniteSet(S \cup {e})
  BY FS_AddElement
<1>3. Cardinality(S \cup {e}) = IF e \in S THEN Cardinality(S) ELSE Cardinality(S) + 1
  BY FS_AddElement
<1> QED
  BY <1>1, <1>2, <1>3

LEMMA NamesAreSix == IsFiniteSet(Name) /\ Cardinality(Name) <= 6 /\ Source \subseteq Name
<1>1. IsFiniteSet({}) /\ Cardinality({}) <= 0
  BY FS_EmptySet
<1>2. PICK A : A = {} \cup {"metric_error_rate"}
  OBVIOUS
<1>3. PICK B : B = A \cup {"metric_latency_p95"}
  OBVIOUS
<1>4. PICK C : C = B \cup {"logs"}
  OBVIOUS
<1>5. PICK D : D = C \cup {"traces"}
  OBVIOUS
<1>6. PICK E : E = D \cup {"topology"}
  OBVIOUS
<1>7. Name = E \cup {"reasoner"} /\ Source \subseteq Name
  BY <1>2, <1>3, <1>4, <1>5, <1>6 DEF Name, Source, Metric
<1>8. /\ IsFiniteSet(A) /\ Cardinality({}) \in Nat /\ Cardinality(A) \in Nat
       /\ Cardinality(A) <= Cardinality({}) + 1
  BY <1>1, <1>2, OneMore, Zenon
<1>9. /\ IsFiniteSet(B) /\ Cardinality(A) \in Nat /\ Cardinality(B) \in Nat
       /\ Cardinality(B) <= Cardinality(A) + 1
  BY <1>8, <1>3, OneMore, Zenon
<1>10. /\ IsFiniteSet(C) /\ Cardinality(B) \in Nat /\ Cardinality(C) \in Nat
       /\ Cardinality(C) <= Cardinality(B) + 1
  BY <1>9, <1>4, OneMore, Zenon
<1>11. /\ IsFiniteSet(D) /\ Cardinality(C) \in Nat /\ Cardinality(D) \in Nat
       /\ Cardinality(D) <= Cardinality(C) + 1
  BY <1>10, <1>5, OneMore, Zenon
<1>12. /\ IsFiniteSet(E) /\ Cardinality(D) \in Nat /\ Cardinality(E) \in Nat
       /\ Cardinality(E) <= Cardinality(D) + 1
  BY <1>11, <1>6, OneMore, Zenon
<1>13. /\ IsFiniteSet(Name) /\ Cardinality(E) \in Nat /\ Cardinality(Name) \in Nat
       /\ Cardinality(Name) <= Cardinality(E) + 1
  BY <1>12, <1>7, OneMore, Zenon
<1> QED
  BY <1>1, <1>7, <1>8, <1>9, <1>10, <1>11, <1>12, <1>13

(* The variables have their types; the channel (service.go:285, room for five) never
   holds more than the goroutines that are over have sent, and the errors are at most
   the five sources and the reasoner. *)
THEOREM AnalysisTypeCorrect == Spec => []TypeOK
<1>1. ASSUME Inv PROVE Len(results) <= Cardinality({k \in Source : query[k] # "asked"})
  <2> DEFINE over == {k \in Source : query[k] # "asked"}
             keys == [i \in 1..Len(results) |-> results[i].key]
  <2>1. results \in Seq(Result) /\ DOMAIN results = 1..Len(results) /\ Len(results) \in Nat
    BY <1>1, SeqDomain DEF Inv, Typing
  <2>2. keys \in Seq(Source) /\ Len(keys) = Len(results)
    <3>1. \A i \in 1..Len(results) : results[i] \in Result
      BY <2>1, SeqDomain
    <3>2. \A i \in 1..Len(results) : results[i].key \in Source
      BY <3>1 DEF Result
    <3> QED
      BY <2>1, <3>2
  <2>3. \A i, j \in DOMAIN keys : keys[i] = keys[j] => i = j
    BY <1>1, <2>1 DEF Inv, Channel
  <2>4. Cardinality(ToSet(keys)) = Len(results)
    BY <2>2, <2>3, DistinctMembers
  <2>5. ToSet(keys) \subseteq over
    <3>1. \A i \in 1..Len(results) : query[keys[i]] = "over" /\ keys[i] \in Source
      BY <1>1, <2>1, <2>2 DEF Inv, Channel
    <3> QED
      BY <2>1, <3>1 DEF ToSet
  <2>6. IsFiniteSet(over)
    BY NamesAreSix, FS_Subset
  <2> QED
    BY <2>4, <2>5, <2>6, FS_Subset
<1>2. ASSUME Inv PROVE Len(errs) <= 6 /\ ToSet(errs) \subseteq Source \cup {"reasoner"}
  <2>1. errs \in Seq(Name) /\ \A i, j \in DOMAIN errs : errs[i] = errs[j] => i = j
    BY <1>2 DEF Inv, Typing, Errors
  <2>2. Cardinality(ToSet(errs)) = Len(errs) /\ Len(errs) \in Nat
    BY <2>1, DistinctMembers
  <2>3. ToSet(errs) \subseteq Name
    BY <2>1, SeqDomain DEF ToSet
  <2>4. Cardinality(ToSet(errs)) <= Cardinality(Name) /\ Cardinality(Name) \in Nat
    BY <2>3, NamesAreSix, FS_Subset, FS_CardinalityType
  <2> QED
    BY <2>2, <2>3, <2>4, NamesAreSix DEF Name
<1>3. Inv => TypeOK
  BY <1>1, <1>2 DEF Inv, Typing, Progress, Diagnosed, Summarized, TypeOK
<1> QED
  BY InvHolds, <1>3, PTL
=============================================================================
