---------------------------- MODULE RecordStream ----------------------------
(***************************************************************************)
(* The record stream of the bridge (observe-bridge/etl/pkg/oo/oo.go): the  *)
(* logs, the metrics and the traces of a window are read from OpenObserve, *)
(* one kind after the other, and each record is passed on as it is read.   *)
(***************************************************************************)
EXTENDS Naturals, Sequences

CONSTANT Record   \* lines that hold a record

Types == <<"logs", "metrics", "traces">>
Type == {Types[n] : n \in 1..3}
Malformed == "malformed"   \* not JSON
Null == "null"             \* JSON, but no record: the map stays nil
Long == "long"             \* longer than the scanner takes
Line == Record \cup {Malformed, Null, Long}

ASSUME RecordAssumption == Record \cap {Malformed, Null, Long} = {}

VARIABLE stream   \* what a request has streamed

NotStreamed == [type |-> 1, open |-> FALSE, line |-> 1, got |-> <<>>, sound |-> TRUE]

InitStream(requests) == stream = [r \in requests |-> NotStreamed]

-----------------------------------------------------------------------------

Streaming(r) == stream[r].type <= Len(Types)
OpenType(r) == Types[stream[r].type]

(* OpenObserve is asked for the next kind; its status is not looked at. *)
Open(r) ==
  /\ Streaming(r) /\ ~stream[r].open
  /\ stream' = [stream EXCEPT ![r].open = TRUE, ![r].line = 1]

(* The request fails, and Stream returns: the kinds not yet read are left out. *)
OpenFails(r) ==
  /\ Streaming(r) /\ ~stream[r].open
  /\ stream' = [stream EXCEPT ![r].type = Len(Types) + 1, ![r].sound = FALSE]

ToNextType(r, sound) ==
  stream' = [stream EXCEPT ![r].type = @ + 1, ![r].open = FALSE, ![r].sound = @ /\ sound]

(* The scanner stops at the end, at a line too long for it, or when the connection
   breaks; nobody asks it why. *)
ScannerStops(r, lines) ==
  /\ Streaming(r) /\ stream[r].open
  /\ LET n == stream[r].line
     IN  ToNextType(r, n > Len(lines))

(* A record is tagged with its kind and passed on. *)
PassOn(r, lines, tenant) ==
  /\ Streaming(r) /\ stream[r].open
  /\ stream[r].line <= Len(lines) /\ lines[stream[r].line] \in Record
  /\ stream' = [stream EXCEPT
       ![r].line = @ + 1,
       ![r].got = Append(@, [type |-> OpenType(r), tenant |-> tenant,
                             record |-> lines[stream[r].line]])]

AtMalformed(r, lines) ==
  /\ Streaming(r) /\ stream[r].open
  /\ stream[r].line <= Len(lines) /\ lines[stream[r].line] = Malformed

\* Mutation: a malformed line ends its kind (break instead of continue).
StopAtMalformed(r, lines) ==
  AtMalformed(r, lines) /\ ToNextType(r, TRUE)

SkipMalformed(r, lines) ==
  /\ AtMalformed(r, lines)
  /\ stream' = [stream EXCEPT ![r].line = @ + 1]

(* Tagging a nil map panics. *)
Panics(r, lines) ==
  /\ Streaming(r) /\ stream[r].open
  /\ stream[r].line <= Len(lines) /\ lines[stream[r].line] = Null

-----------------------------------------------------------------------------
(* What a request should stream. *)

(* Tagged(...)[n]: the records of the first n lines. *)
Tagged(lines, type, tenant) ==
  LET first[n \in 0..Len(lines)] ==
        IF n = 0 THEN <<>>
        ELSE IF lines[n] \in Record
             THEN Append(first[n - 1], [type |-> type, tenant |-> tenant, record |-> lines[n]])
             ELSE first[n - 1]
  IN  first

(* The records of the first lines of each kind, l of the logs and so on. *)
FirstRecords(source, tenant, l, m, t) ==
  Tagged(source["logs"], "logs", tenant)[l] \o Tagged(source["metrics"], "metrics", tenant)[m]
    \o Tagged(source["traces"], "traces", tenant)[t]

Whole(source, tenant) ==
  FirstRecords(source, tenant, Len(source["logs"]), Len(source["metrics"]), Len(source["traces"]))

=============================================================================
