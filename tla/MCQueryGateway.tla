--------------------------- MODULE MCQueryGateway ---------------------------
(***************************************************************************)
(* Small instances of QueryGateway, one for each deployment: tokens and    *)
(* one rotation of the signing key; the quota; both; the fallback, a       *)
(* tenant's metadata, templates and names that make keys collide; and one  *)
(* request with any of some hundred queries to be translated.              *)
(***************************************************************************)
EXTENDS QueryGateway, QueryMeaning, TLC

CONSTANTS r1, r2, r3

(* Two of the templates the gateway ships (config.go:183): one that names its variables
   twice, and one that is translated. *)
ServiceVar == "{{service}}"
WindowVar == "{{window}}"

ErrorLogs == <<"{", "service", "=", ServiceVar, "}", "|", "=", "error">>
ErrorRate == <<"rate(", ServiceVar, WindowVar, ") / rate(", ServiceVar, WindowVar, ")">>

Templates ==
  "errors" :> [lang |-> "logql", step |-> "", query |-> ErrorLogs] @@
  "rate" :> [lang |-> "promql", step |-> "5m", query |-> ErrorRate]

Of(service) == ServiceVar :> <<service>> @@ WindowVar :> <<"5m">>

(* The queries that are translated. *)
LogQueries == LogQuery(2)
TraceQueries == TraceQuery(2)
Translated == {LogText(q) : q \in LogQueries} \cup {TraceText(q) : q \in TraceQueries}

LogMeanings ==
  [text \in {LogText(q) : q \in LogQueries} |->
     LogMeaning(CHOOSE q \in LogQueries : LogText(q) = text)]
TraceMeanings ==
  [text \in {TraceText(q) : q \in TraceQueries} |->
     TraceMeaning(CHOOSE q \in TraceQueries : TraceText(q) = text)]

Errors(service) ==
  LogText([matchers |-> <<[name |-> "service", op |-> "=", value |-> service]>>,
           stages |-> <<[op |-> "=", value |-> "error"]>>])
ErrorsMeaning(service) ==
  Conjunct(<<"labels", "service">>, "=", <<service>>)
    \cup Conjunct(<<"message">>, "ILIKE", <<"error">>)

Meanings == LogMeanings @@ TraceMeanings @@ Errors("web") :> ErrorsMeaning("web")

Rate == <<"rate(api)">>
Broken == <<"{", "app">>
Queries == {Rate, Broken, Errors("web")} \cup Translated

(* Tenant a has a row with one blank column, the others have none. *)
Tables == "" :> [org |-> "default", logs |-> "logs", traces |-> "traces"] @@
          "a" :> [org |-> "acme", logs |-> "", traces |-> "acme_traces"]

(* A tenant that holds a "|" and reads like another and its step, and the name of a
   template, which is not configured, that reads like the end of a query and another. *)
Texts == "b|5m" :> Words(<<"b", "|", "5m">>) @@
         "= api|t" :> Words(<<"=", "api", "|", "t">>)

-----------------------------------------------------------------------------
(* What clients send. *)

Instant == [decodes |-> TRUE, template |-> "", variables |-> <<>>, lang |-> "promql",
            query |-> Rate, start |-> 0, end |-> 0, step |-> "", normalize |-> FALSE]
From(template, variables) ==
  [Instant EXCEPT !.template = template, !.variables = variables,
                  !.lang = "", !.query = NoQuery, !.start = 1, !.end = 2]
Ask(lang, text, start, end) ==
  [Instant EXCEPT !.lang = lang, !.query = text, !.start = start, !.end = end]

Signed(key, t) == [key |-> key, tenant |-> t, valid |-> TRUE]
Send(body, token, t) == [body |-> body, token |-> token, tenant |-> t]
Nobody == [r \in {r1, r2, r3} |-> {}]

(* The same call by two tenants, by one of them before and after a rotation; and what
   the checks refuse. *)
Tokens ==
  r1 :> {Send(Instant, Signed(1, "a"), "b")} @@
  r2 :> {Send(Instant, Signed(1, "b"), "b"), Send(Instant, NoToken, "a")} @@
  r3 :> {Send(Instant, Signed(2, "a"), "a")}

(* One tenant three times.  No backend is asked: the selector has no end. *)
Quota == [r \in {r1, r2, r3} |-> {Send(Ask("logql", Broken, 1, 2), NoToken, "a")}]

TokensAndQuota == [Nobody EXCEPT ![r1] = Tokens[r1], ![r3] = Tokens[r2] \cup Tokens[r3]]

(* Templates in every order of their variables by two tenants, a range with one end or
   reversed, no query, no tenant; and pairs of requests with one key. *)
Errant == Ask("logql", <<"{", "app", "=", "api", "}">>, 1, 2)
Mixed ==
  [Nobody EXCEPT
     ![r1] = {Send(From("rate", Of("api")), NoToken, "a"),
              Send([Instant EXCEPT !.step = "5m"], NoToken, "b"),
              Send([Errant EXCEPT !.template = "= api|t"], NoToken, "b"),
              Send(From("errors", Of("web")), NoToken, "a")},
     ![r2] = {Send(From("rate", Of("api")), NoToken, "a"),
              Send(From("rate", Of("api")), NoToken, "b"),
              Send(Instant, NoToken, "b|5m"),
              Send([Errant EXCEPT !.query = @ \o <<"|", "=", "api">>, !.template = "t"],
                   NoToken, "b"),
              Send([Errant EXCEPT !.start = 2, !.end = 1], NoToken, "a"),
              Send([Instant EXCEPT !.end = 1, !.normalize = TRUE], NoToken, ""),
              Send([Instant EXCEPT !.query = NoQuery], NoToken, "a")}]

Translations ==
  [Nobody EXCEPT ![r1] =
     {Send(Ask("logql", LogText(q), 1, 2), NoToken, "a") : q \in LogQueries}
       \cup {Send(Ask("traceql", TraceText(q), 1, 2), NoToken, "a") : q \in TraceQueries}]

Clients ==
  {"auth"} :> Tokens @@
  {"limiter", "redis"} :> Quota @@
  {"auth", "limiter", "redis"} :> TokensAndQuota @@
  {"fallback", "metadata"} :> Mixed @@
  {"metadata"} :> Translations

Deployments == DOMAIN Clients
=============================================================================
