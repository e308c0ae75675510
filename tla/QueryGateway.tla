---------------------------- MODULE QueryGateway ----------------------------
(***************************************************************************)
(* POST /api/query (observe-gateway/internal/server): the handler checks a *)
(* request, authenticates it, charges the tenant's quota, looks into the   *)
(* cache, looks up the tenant's metadata, asks OpenObserve - and, for      *)
(* PromQL it does not support, the fallback - and caches the answer.  Any  *)
(* number of requests are interleaved at every call that leaves the        *)
(* process.                                                                *)
(*                                                                         *)
(* The clock ticks between any two steps, but no request outlives the      *)
(* deadline of its context, which every call observes.  External: the      *)
(* backends, Postgres, and ristretto, which may drop any entry.            *)
(***************************************************************************)
EXTENDS RateLimiter, Authenticator

CONSTANTS
  Features,      \* configurations to explore
  HttpRequest,   \* [Features -> [Request -> set of requests a client may send]]
  Meaning,       \* LogQL or TraceQL texts -> the conjuncts their authors mean
  CacheTTL       \* cache.ttl, 1 minute by default

Feature == {"auth", "limiter", "redis", "fallback", "metadata"}

ASSUME ServerAssumption ==
  /\ Features \subseteq SUBSET Feature
  /\ CacheTTL \in Nat \ {0}

(* What clients send, and that filling in a template yields a text. *)
ASSUME RequestAssumption ==
  \A f \in Features, r \in Request : \A request \in HttpRequest[f][r] :
    /\ IsBody(request.body)
    /\ request.token \in Token \cup {NoToken} /\ request.tenant \in Tenant \cup {Unset}
    /\ \A body \in resolveTemplate(request.body) : body.query \in Seq(STRING)

VARIABLES
  features,   \* what this deployment has enabled; never changes
  pc,
  http,       \* [body, asked, token, tenant]: the request with its template resolved,
              \* and as it came; X-Tenant
  tenant,     \* for whom it is answered
  arrived,
  result,     \* what a backend said: the call it evaluated, and when
  answer,     \* status code
  cache       \* entries: cache key -> result and expiration; "plain", read by the
              \* properties alone, says that the names of its request are

handlerVars == <<pc, http, tenant, arrived, result, answer>>
vars == <<now, limiterVars, authVars, features, handlerVars, cache>>

PC == {"idle", "auth", "fetch", "verify", "limit", "redis", "cache",
       "query", "fallback", "read", "done"}
Active(r) == pc[r] \notin {"idle", "done"}

NoAnswer == 0
NoResult == [call |-> <<>>, readAt |-> 0]
NoHttp == <<>>

Init ==
  /\ now = 1
  /\ LimiterInit /\ AuthInit
  /\ features \in Features
  /\ pc = [r \in Request |-> "idle"]
  /\ http = [r \in Request |-> NoHttp]
  /\ tenant = [r \in Request |-> Unset]
  /\ arrived = [r \in Request |-> 0]
  /\ result = [r \in Request |-> NoResult]
  /\ answer = [r \in Request |-> NoAnswer]
  /\ cache = <<>>

Goto(r, label) == pc' = [pc EXCEPT ![r] = label]

(* The handler returns, and what it knew of the request is gone. *)
Reply(r, code) ==
  /\ answer' = [answer EXCEPT ![r] = code]
  /\ Goto(r, "done")
  /\ http' = [http EXCEPT ![r] = NoHttp]
  /\ tenant' = [tenant EXCEPT ![r] = Unset]
  /\ arrived' = [arrived EXCEPT ![r] = 0]

Step(r, label) == Goto(r, label) /\ UNCHANGED <<http, tenant, arrived, result, answer>>

Refuse(r, code) == Reply(r, code) /\ result' = [result EXCEPT ![r] = NoResult]

-----------------------------------------------------------------------------
(* Validation and authentication. *)

(* The checks before authentication. *)
Receive(r) ==
  /\ pc[r] = "idle" /\ now + RequestTimeout <= MaxTime
  /\ \E request \in HttpRequest[features][r] :
       \E body \in resolveTemplate(request.body) :
           \/ /\ WellFormed(body)
              /\ http' = [http EXCEPT ![r] =
                            [body |-> body, asked |-> request.body,
                             token |-> request.token, tenant |-> request.tenant]]
              /\ arrived' = [arrived EXCEPT ![r] = now]
              /\ Goto(r, "auth")
              /\ UNCHANGED <<tenant, result, answer>>
           \/ ~WellFormed(body) /\ Refuse(r, 400)
  /\ UNCHANGED <<now, limiterVars, authVars, features, cache>>

(* The request is known to come from tenant t. *)
Accept(r, t) ==
  IF t # Unset /\ validate(http[r].body)
  THEN /\ tenant' = [tenant EXCEPT ![r] = t]
       /\ Goto(r, "limit")
       /\ UNCHANGED <<http, arrived, result, answer>>
  ELSE Refuse(r, 400)

Claimed(r) == IF http[r].token.tenant # Unset THEN http[r].token.tenant ELSE http[r].tenant

Verify(r) ==
  IF Verified(http[r].token) THEN Accept(r, Claimed(r)) ELSE Refuse(r, 401)

AuthDisabled(r) ==
  /\ pc[r] = "auth" /\ "auth" \notin features
  /\ Accept(r, http[r].tenant)
  /\ UNCHANGED <<now, limiterVars, authVars, features, cache>>

(* Verify: no bearer token; a fresh key set; or one that is too old. *)
GetKeySet(r) ==
  /\ pc[r] = "auth" /\ "auth" \in features
  /\ IF http[r].token = NoToken THEN Refuse(r, 401)
     ELSE IF KeySetFresh THEN Verify(r)
     ELSE Step(r, "fetch")
  /\ UNCHANGED <<now, limiterVars, authVars, features, cache>>

Fetch(r) ==
  /\ pc[r] = "fetch"
  /\ ProviderAnswers(r)
  /\ UNCHANGED <<now, limiterVars, features, handlerVars, cache>>

StoreKeySet(r) ==
  /\ pc[r] = "fetch"
  /\ Refresh(r)
  /\ Step(r, "verify")
  /\ UNCHANGED <<now, limiterVars, features, cache>>

(* getKeySet reads the set again: another request may have stored its own. *)
VerifyFetched(r) ==
  /\ pc[r] = "verify"
  /\ Verify(r)
  /\ UNCHANGED <<now, limiterVars, authVars, features, cache>>

FetchError(r) ==
  /\ pc[r] = "fetch"
  /\ FetchFails(r)
  /\ Refuse(r, 401)
  /\ UNCHANGED <<now, limiterVars, features, cache>>

-----------------------------------------------------------------------------
(* The quota. *)

AllowLocal(r) ==
  /\ pc[r] = "limit"
  /\ IF "limiter" \notin features THEN Step(r, "cache") /\ UNCHANGED <<bucket, stamp>>
     ELSE IF ~HasToken(tenant[r]) THEN Refuse(r, 429) /\ UNCHANGED <<bucket, stamp>>
     ELSE /\ TakeToken(tenant[r])
          /\ IF "redis" \in features
             THEN ReadClock(r) /\ Step(r, "redis")
             ELSE UNCHANGED stamp /\ Step(r, "cache")
  /\ UNCHANGED <<now, window, expires, admitted, authVars, features, cache>>

AllowRedis(r) ==
  /\ pc[r] = "redis"
  /\ \/ /\ ScriptAllows(r, tenant[r])
        /\ Admit(r, tenant[r])
        /\ Step(r, "cache")
     \/ /\ ScriptRefuses(r, tenant[r])
        /\ UNCHANGED admitted
        /\ Refuse(r, 429)
  /\ UNCHANGED <<now, bucket, stamp, authVars, features, cache>>

(* The script ran but its answer got lost: the client sends it again, or gives up. *)
RedisReplyLost(r) ==
  /\ pc[r] = "redis"
  /\ \/ ScriptAllows(r, tenant[r]) /\ Admit(r, tenant[r])
     \/ ScriptRefuses(r, tenant[r]) /\ UNCHANGED admitted
  /\ Step(r, "redis") \/ Refuse(r, 500)
  /\ UNCHANGED <<now, bucket, stamp, authVars, features, cache>>

RedisError(r) ==
  /\ pc[r] = "redis"
  /\ Refuse(r, 500)
  /\ UNCHANGED <<now, limiterVars, authVars, features, cache>>

-----------------------------------------------------------------------------
(* The cache. *)

CacheKey(r) == buildCacheKey(http[r].body, tenant[r])

CacheHit(r) ==
  /\ pc[r] = "cache"
  /\ CacheKey(r) \in DOMAIN cache
  /\ LET entry == cache[CacheKey(r)]
     IN  /\ now <= entry.expires
         /\ result' = [result EXCEPT ![r] = entry.result]
  /\ Reply(r, 200)
  /\ UNCHANGED <<now, limiterVars, authVars, features, cache>>

(* Also when there is an entry: ristretto may have dropped it. *)
CacheMiss(r) ==
  /\ pc[r] = "cache"
  /\ Step(r, "query")
  /\ UNCHANGED <<now, limiterVars, authVars, features, cache>>

Entry(r, until) ==
  [result |-> result[r], expires |-> until, plain |-> Plain(http[r].body, tenant[r])]

\* Mutation: entries are stored without a ttl.
CacheSetForever(r) ==
  cache' = [k \in DOMAIN cache \cup {CacheKey(r)} |->
              IF k = CacheKey(r) THEN Entry(r, MaxTime) ELSE cache[k]]

CacheSet(r) ==
  cache' = [k \in DOMAIN cache \cup {CacheKey(r)} |->
              IF k = CacheKey(r) THEN Entry(r, now + CacheTTL) ELSE cache[k]]

-----------------------------------------------------------------------------
(* The backends.  The tenant's organisation and tables are looked up for every query
   and kept nowhere. *)

OwnSource(r) == resolveTenantMetadata("metadata" \in features, tenant[r])

(* A backend evaluates the call now; its answer arrives later. *)
Evaluate(r, call) ==
  /\ result' = [result EXCEPT ![r] = [call |-> call, readAt |-> now]]
  /\ Goto(r, "read")
  /\ UNCHANGED <<now, limiterVars, authVars, features, http, tenant, arrived, answer,
                 cache>>

OpenObserveAnswers(r) ==
  /\ pc[r] = "query"
  /\ Translates(http[r].body)
  /\ Evaluate(r, OpenObserveCall(http[r].body, tenant[r], OwnSource(r)))

(* 400, 404 or 501 to a PromQL query. *)
Unsupported(r) ==
  /\ pc[r] = "query" /\ http[r].body.lang = "promql"
  /\ IF "fallback" \in features THEN Step(r, "fallback") ELSE Refuse(r, 400)
  /\ UNCHANGED <<now, limiterVars, authVars, features, cache>>

FallbackAnswers(r) ==
  pc[r] = "fallback" /\ Evaluate(r, FallbackCall(http[r].body, tenant[r]))

(* The lookup, the translation to SQL or the call fails. *)
BackendError(r) ==
  /\ pc[r] \in {"query", "fallback"}
  /\ Refuse(r, 502)
  /\ UNCHANGED <<now, limiterVars, authVars, features, cache>>

(* The answer arrives: it is cached, unless there is no cache or ristretto declines, and
   returned. *)
Answer(r) ==
  /\ pc[r] = "read"
  /\ Reply(r, 200)
  /\ CacheSet(r) \/ UNCHANGED cache
  /\ UNCHANGED <<now, limiterVars, authVars, features, result>>

(* It breaks off (502), or is no JSON and cannot be put into the response (500). *)
UnreadableAnswer(r) ==
  /\ pc[r] = "read"
  /\ \E code \in {502, 500} : Refuse(r, code)
  /\ UNCHANGED <<now, limiterVars, authVars, features, cache>>

-----------------------------------------------------------------------------
(* Time. *)

(* Refreshing the key set has a deadline of its own. *)
Deadline(r) ==
  arrived[r] + (IF pc[r] \in {"auth", "fetch", "verify"} THEN FetchTimeout ELSE RequestTimeout)

Tick ==
  /\ now < MaxTime
  /\ \A r \in Request : Active(r) => now < Deadline(r)
  /\ now' = now + 1
  /\ RefillBuckets
  /\ UNCHANGED <<window, expires, stamp, admitted, authVars, features, handlerVars, cache>>

KeyRotation == Rotate /\ UNCHANGED <<now, limiterVars, features, handlerVars, cache>>

Handle(r) ==
  \/ AuthDisabled(r) \/ GetKeySet(r) \/ Fetch(r) \/ StoreKeySet(r) \/ VerifyFetched(r)
  \/ AllowLocal(r) \/ AllowRedis(r) \/ CacheHit(r) \/ CacheMiss(r)
  \/ OpenObserveAnswers(r) \/ FallbackAnswers(r) \/ Answer(r)

Fault(r) ==
  \/ FetchError(r) \/ RedisReplyLost(r) \/ RedisError(r) \/ Unsupported(r)
  \/ BackendError(r) \/ UnreadableAnswer(r)

Next ==
  \/ \E r \in Request : Receive(r) \/ Handle(r) \/ Fault(r)
  \/ Tick
  \/ KeyRotation

Spec == Init /\ [][Next]_vars

-----------------------------------------------------------------------------
(* Properties. *)

TypeOK ==
  /\ now \in 1..MaxTime
  /\ LimiterTypeOK /\ AuthTypeOK
  /\ features \in Features
  /\ pc \in [Request -> PC]
  /\ \A r \in Request :
       IF Active(r) THEN WellFormed(http[r].body) ELSE http[r] = NoHttp
  /\ \A r \in Request :
       IF Active(r) /\ pc[r] \notin {"auth", "fetch", "verify"}
       THEN tenant[r] \in Tenant /\ validate(http[r].body)
       ELSE tenant[r] = Unset
  /\ answer \in [Request -> {NoAnswer, 200, 400, 401, 429, 500, 502}]
  /\ \A r \in Request :
       /\ pc[r] = "done" <=> answer[r] # NoAnswer
       /\ Active(r) => now <= Deadline(r)
       /\ answer[r] = 200 \/ pc[r] = "read" <=> result[r] # NoResult

Served(r) == answer'[r] = 200 /\ answer[r] # 200

(* What a client gets was computed for its request: the answer, from the cache or
   not, is what a backend says of the same query, range and step for the same
   tenant, in its organisation and table, although the key leaves absent parts out
   and joins the rest (server.go:271).  This is said of an answer from the cache only
   if the names of the request, and of the one it was stored for, are plain: nothing
   checks an X-Tenant or a template's name (server.go:273), and one that holds a "|"
   or reads like a later part can share its key with another request. *)
OwnKey(r) ==
  pc[r] = "cache" => Plain(http[r].body, tenant[r]) /\ cache[CacheKey(r)].plain

AnswerFitsRequest ==
  [][\A r \in Request :
       Served(r) /\ OwnKey(r) =>
         \/ result'[r].call = OpenObserveCall(http[r].body, tenant[r], OwnSource(r))
         \/ /\ http[r].body.lang = "promql" /\ "fallback" \in features
            /\ result'[r].call = FallbackCall(http[r].body, tenant[r])]_vars

(* A LogQL or TraceQL query, or a template with its variables filled in at once, selects
   the records its author means, up to the case of letters: the statement has the
   conditions of the text, all of them and no other (client.go:502-609), whatever the
   order in which the variables are substituted and wherever a name occurs twice
   (config.go:231).  Meaning gives what is meant for the texts that are read right:
   matchers with = and !=, line filters behind a pipe with =, !=, ~ and !~, parser
   stages, and conditions with =, !=, < and > on bare numbers, whose names and values hold
   no operator, separator or keyword.  The translators misread the rest: >= and <=
   (client.go:606), matchers with =~ and !~ (client.go:529), filters without a pipe,
   "AND", and durations like the documented duration>200ms.  A variable's value that
   contains another's placeholder has no meaning of its own; names that make keys
   collide are excluded as above. *)
SelfContained(body) ==
  \A hole \in DOMAIN body.variables :
    DOMAIN body.variables \cap ToSet(body.variables[hole]) = {}

Filled(text, variables) ==
  FlattenSeq([i \in DOMAIN text |->
                IF text[i] \in DOMAIN variables THEN variables[text[i]] ELSE <<text[i]>>])

MeantText(body) ==
  IF body.query = NoQuery
  THEN Filled(QueryTemplates[body.template].query, body.variables)
  ELSE body.query

MeantStatement(lang, text) == IF lang = "promql" THEN Words(text) ELSE Meaning[text]

AnswersWhatIsMeant ==
  [][\A r \in Request :
       Served(r) /\ OwnKey(r) /\ SelfContained(http[r].asked)
         => result'[r].call.statement
              = MeantStatement(http[r].body.lang, MeantText(http[r].asked))]_vars

(* No answer is older than the cache's ttl and the life of one request, even when
   slow requests overwrite the entries of faster ones (server.go:225). *)
AnswerIsFresh ==
  [][\A r \in Request :
       Served(r) => now - result'[r].readAt <= CacheTTL + RequestTimeout]_vars

(* A key that the provider withdrew is not accepted, and the key it publishes is not
   refused, once the ttl and the timeout of a fetch have passed since the
   rotation, however concurrent fetches overtake each other
   (authenticator.go:155). *)
Verifies(r) ==
  /\ "auth" \in features
  /\ pc[r] \in {"auth", "verify"}
  /\ pc'[r] \notin {pc[r], "fetch"}

KeysFollowRotation ==
  [][\A r \in Request :
       Verifies(r) /\ http[r].token.valid
         => \/ SignatureOK(http[r].token) <=> http[r].token.key = published
            \/ now <= rotatedAt + KeyTTL + FetchTimeout]_vars
=============================================================================
