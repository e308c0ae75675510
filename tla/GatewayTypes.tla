---------------------------- MODULE GatewayTypes ----------------------------
(***************************************************************************)
(* Vocabulary of the query gateway (observe-gateway): the requests clients *)
(* send to POST /api/query, what the handler makes of them before it asks  *)
(* anybody, and the clock that every component reads.                      *)
(*                                                                         *)
(* The empty string stands for an absent header, field or claim, 0 for a   *)
(* time that is not given.                                                 *)
(***************************************************************************)
EXTENDS QueryTranslation

CONSTANTS
  Request,         \* requests in flight; each is handled once
  Tenant,
  Query,           \* query texts
  QueryTemplates,  \* config: template name -> [lang, query, step]
  Spelling,        \* names of tenants and templates that are not one word, or read
                   \* like a time: name -> its text, in the parts of a key
  Sources,         \* the organisation and tables of "", the defaults, and of each
                   \* tenant with a row in tenant_metadata
  RequestTimeout,  \* deadline of middleware.Timeout, 2 minutes in the code
  MaxTime          \* bound on the clock

VARIABLE now

(* An absent string, and what joins the parts of a key. *)
Unset == ""
Pipe == "|"

ASSUME GatewayAssumption ==
  /\ RequestTimeout \in Nat \ {0} /\ MaxTime \in Nat \ {0}
  /\ Unset \notin Tenant
  /\ Query \subseteq Seq(STRING) \ {<<>>}
  /\ Unset \in DOMAIN Sources

Lang == {Unset, "promql", "logql", "traceql", "other"}
StepText == {Unset, "5m", "malformed"}
NoQuery == <<>>

(* query.Request, and whether the body decodes to one. *)
IsBody(b) ==
  /\ b \in [decodes : BOOLEAN, template : STRING, lang : Lang, step : StepText,
            variables : {b.variables}, query : Query \cup {NoQuery},
            start : Nat, end : Nat, normalize : BOOLEAN]
  /\ DOMAIN b.variables \subseteq STRING
  /\ \A hole \in DOMAIN b.variables : b.variables[hole] \in Seq(STRING)

ASSUME TemplateAssumption ==
  \A name \in DOMAIN QueryTemplates :
    QueryTemplates[name] \in [lang : Lang, step : StepText, query : Seq(STRING)]

Blank(given, none, rendered) == IF given = none THEN rendered ELSE given

(* ResolveQueryTemplate, in any order of the variables. *)
Configured(body) == body.template \in DOMAIN QueryTemplates
Rendered(body) ==
  LET template == QueryTemplates[body.template]
  IN  {[template EXCEPT !.query = text] :
         text \in applyTemplateVariables(template.query, body.variables)}

(* A template fills only what the request leaves blank; a name that is not
   configured changes nothing. *)
resolveTemplate(body) ==
  IF ~Configured(body) THEN {body}
  ELSE {[body EXCEPT !.lang = Blank(@, Unset, template.lang),
                     !.query = Blank(@, NoQuery, template.query),
                     !.step = Blank(@, Unset, template.step)] : template \in Rendered(body)}

(* The checks before authentication ... *)
WellFormed(body) == body.decodes /\ body.query # NoQuery /\ body.step # "malformed"

HasTimeRange(body) == body.start # 0 /\ body.end # 0

(* ... and after it. *)
validate(body) ==
  \/ body.lang = "promql"
  \/ body.lang \in {"logql", "traceql"} /\ HasTimeRange(body) /\ body.start <= body.end

(* The text of a key: words, among them "|", and times. *)
Words(text) == [i \in DOMAIN text |-> <<"word", text[i]>>]
Part(content) == Words(<<Pipe>>) \o content
Time(t) == IF t = 0 THEN <<>> ELSE Part(<<<<"time", t>>>>)
Normalize == "normalize=true"

(* A header or field may hold anything, a name that is not configured too. *)
Spelled(name) ==
  CASE name = Unset -> <<>>
    [] name \in DOMAIN Spelling -> Spelling[name]
    [] OTHER -> Words(<<name>>)

(* The optional parts, the absent ones left out. *)
Optional(body) ==
  Time(body.start) \o Time(body.end)
    \o (IF body.step = Unset THEN <<>> ELSE Part(Words(<<body.step>>)))
    \o (IF body.normalize THEN Part(Words(<<Normalize>>)) ELSE <<>>)

\* Mutation: the key is built without the tenant.
buildCacheKeyNoTenant(body, tenant) ==
  Words(<<body.lang, Pipe>> \o body.query \o <<Pipe>>) \o Spelled(body.template)
    \o Optional(body)

buildCacheKey(body, tenant) ==
  Words(<<body.lang, Pipe>> \o body.query \o <<Pipe>>) \o Spelled(body.template)
    \o Part(Spelled(tenant)) \o Optional(body)

(* The names that cannot be taken for other parts of a key: one word each, and a tenant
   that reads neither like a step nor like the last part. *)
OneWord(name) == name # Pipe /\ name \notin DOMAIN Spelling
Plain(body, tenant) ==
  OneWord(body.template) /\ OneWord(tenant) /\ tenant \notin StepText \cup {Normalize}

-----------------------------------------------------------------------------
(* What a backend is asked. *)

(* resolveTenantMetadata: a tenant without a row, and a blank column, get the
   defaults. *)
resolveTenantMetadata(stored, tenant) ==
  IF ~stored \/ tenant \notin DOMAIN Sources THEN Sources[Unset]
  ELSE [field \in {"org", "logs", "traces"} |->
          Blank(Sources[tenant][field], Unset, Sources[Unset][field])]

(* LogQL and TraceQL are translated. *)
Statement(lang, text) ==
  CASE lang = "promql" -> Words(text)
    [] lang = "logql" -> translateLogQL(text)
    [] lang = "traceql" -> translateTraceQL(text)

Translates(body) ==
  body.lang # "promql" => Statement(body.lang, body.query) # Invalid

Table(lang, source) == CASE lang = "promql" -> Unset
                         [] lang = "logql" -> source.logs
                         [] lang = "traceql" -> source.traces

(* An instant query carries no range, and only a PromQL range a step. *)
OpenObserveCall(body, tenant, source) ==
  [lang |-> body.lang, statement |-> Statement(body.lang, body.query), tenant |-> tenant,
   org |-> source.org, table |-> Table(body.lang, source),
   range |-> IF HasTimeRange(body) THEN <<body.start, body.end>> ELSE <<>>,
   step |-> IF body.lang = "promql" /\ HasTimeRange(body) THEN body.step ELSE Unset]

(* The fallback knows tenants, but no organisations. *)
FallbackCall(body, tenant) == OpenObserveCall(body, tenant, [org |-> Unset])
=============================================================================
