# A verification project for XScopeHub

TLA+ models, model checks and proofs for the program in this repository: a monitoring
platform of four Go services. The models are translated from the code under `src/`;
every definition that stands for code is listed, with its lines, under `map` in
`PROJECT.json`. This file says what there is, what is modelled, what the checks show
and what they do not.

## 1. The system

| part | state it keeps | operations | interacts with |
|---|---|---|---|
| **Case workflow** (`llm-ops-agent/workflow`) | none: a table of edges and guards | `Decide` | called by the case repository |
| **Case API** (`api/handlers.go`, `orchestrator`, `ports/postgres`, `db/sqlc`) | Postgres: `ops_case`, `case_timeline`, `outbox`, `idempotency` | create a case, move a case | clients over HTTP, Postgres through a pool of connections |
| **Outbox publisher** (`internal/outbox`) | `outbox.published`; the buffer of the NATS client | `Run`, `flush` | Postgres rows the case API wrote, NATS |
| **Analysis service** (`internal/analysis`) | per run: five goroutines, a channel, a child process | `Run` | the query gateway over HTTP, the Codex command |
| **A2A tasks** (`api/a2a.go`) | a map under a lock | negotiate, create, get | clients over HTTP |
| **Agent process** (`cmd/main.go`) | the signal, the listener, the pool | start, probe, serve, drain, close | wires the parts above |
| **Query gateway** (`observe-gateway`) | local token buckets, Redis windows, a key set, a response cache | `POST /api/query` | identity provider, Redis, Postgres (tenant metadata), OpenObserve, a Prometheus fallback |
| **MCP server** (`mcp-server`) | per call: a handler goroutine and a deadline | JSON-RPC methods, seven tools | gateway, analysis service, Codex as a client |
| **Observe bridge** (`observe-bridge`) | per stream: the source it reads and the scanner | the record stream; the other handlers are placeholders | OpenObserve, clients over HTTP |
| **Proxy** (`observe-gateway/cmd/obsgw`), stubs of the agent, schemas, deployment | none | I/O | |

What is hard in them:

* **Case API.** Transactions are written statement by statement with a rollback by hand
  on every early return; the idempotency lookup runs outside the transaction that
  registers the key; a version is checked on a row that was read earlier; a commit may
  succeed and be reported as failed; the process may die between two statements.
  Correct means: a case, its history and its messages never part; a repeated key takes
  effect once; a named version is never overwritten; an answer tells what happened; no
  path keeps a lock or a connection.
* **Outbox publisher.** Rows become visible in another order than their ids; batches
  fail half-way; the NATS client buffers what it was given; two publishers may run side
  by side. Correct means: only committed rows are published, each at least once and in
  the order of its case, and repetitions only after a failure.
* **Workflow.** Parks and reworks make cycles in the table. Correct means: nothing is
  executed without an approval given after the last park, of a plan that was vouched for
  unless it was reworked after a park, and a case is closed by a verification, for good.
* **Query gateway.** Every request reads clocks, a key set and a cache that other
  requests change, and leaves the process five times. Correct means: what runs within a
  window of time keeps the quota, an answer belongs to the request and is fresh, a
  translated query selects what its author means, rotated keys are followed.
* **Analysis service.** Five queries finish in any order or fail, and a reasoner may
  hang. Correct means: the report is complete whatever the order, silence is not taken
  for health, the report says who diagnosed, and every run is answered.
* **MCP server.** A tool call waits for a run that waits for Codex, which may call tools
  itself; each hop has a deadline of its own and none knows the others'. Correct means:
  every query is made for the caller's tenant and range, a result is whole, no Codex
  outlives its call, and every call ends.
* **The processes.** All four programs are told to stop, fail to listen or are killed
  while requests are in hand; deferred calls wait for connections, or are skipped by
  `log.Fatal`. Correct means: a process that is told to stop ends, lets go of its
  transactions first and cuts nothing off that it had time for; a task that was answered
  is found again by whoever asks the same process; a stream that ends in order is
  whole.

## 2. Modules

```
Workflow            the table, the guards, Decide                    workflow.go
  CaseTypes         rows, calls, outcomes
    CaseLedger      ABSTRACT: the promises of orchestrator.Service, calls are atomic
      CaseLedgerProofs       approval and closing                    (TLAPS)
    CaseRepository  handler + repository + statements; implements CaseLedger
      CaseRepositoryProofs   types, the inductive invariant, its three theorems (TLAPS)
        CaseRefinementProofs answers, outbox, both refinements       (TLAPS)
OutboxWriters       what publishers assume of the writers; CaseRepository implements it
  OutboxPublisher   Run and flush, the NATS client; implements OutboxChannel
    OutboxPublisherProofs    its properties, the refinement, what a consumer sees (TLAPS)
OutboxChannel       ABSTRACT: order, losses and repetitions a consumer may see
QueryTranslation    templates filled in, LogQL and TraceQL to SQL conditions
  QueryMeaning      the reference: queries by their parts, their texts, their meaning
  GatewayTypes      requests, templates, validation, cache key, backend calls, the clock
    RateLimiter     token buckets, the Redis script
    Authenticator   the key set and its refreshes
      QueryGateway  handleQuery, composing the two with cache and backends
        QueryGatewayProofs   types, quota, cache and key set         (TLAPS)
AnalysisService     one run: goroutines, channel, fold, reasoner
  AnalysisProofs    inductive invariant, five theorems               (TLAPS)
ToolCalls           tool calls, the runs they start, the calls Codex makes
  ToolCallsProofs   inductive invariant, four theorems               (TLAPS)
A2AStore            tasks of other agents
RecordStream        the bridge's stream of records
  ServiceProcess    start, service, shutdown and death of the four programs, with both
    ServiceProofs   inductive invariants, their theorems             (TLAPS)
MC*                 small instances of these for TLC
```

### Workflow, CaseTypes, CaseLedger

`table`, `guards` and `Decide` are the Go tables as sets of edges `[from, event, to]`. A
`workflow.Context` is the set of facts that hold. `Decide` yields an edge, or one of
the two errors. `CaseLedger` is what a caller may rely on: each call takes effect at one
moment (`Create`, `Move`), replays the row of an earlier call with its key (`Replay`),
is refused for what the row says at that moment (`Refuse`), fails without effect
(`Fail`), or its answer gets lost, with or without effect (`Lose`).

### CaseRepository

One action per statement: `LookupHit`/`LookupMiss` (outside the transaction, on a
connection of its own), `BeginTx`, `GetCaseForUpdate` (waits for the row lock),
`VersionMismatch`, `DecideRefuses`, `UpdateCaseStatus`, `InsertTimeline`,
`InsertOutbox` (draws an id that is never given back), `InsertIdempotency` (waits for
an uncommitted insert of the same key, then fails), `Commit`, `Respond`. `pc[r]` is where
the goroutine of request `r` is, `tx[r]` its uncommitted writes. Every statement may
fail (`DatabaseError`), after which the code's rollback frees lock, key and connection;
`TimelineErrorIgnored` is the one error the code drops; `Commit` may take effect and be
reported as failed; `Crash` ends every handler and transaction at once.

Left out: the 400 answers to malformed bodies and ids, which change nothing. An
`If-Match` beyond 64 bits is treated like a number that matches nothing. The `ttl` of a
key is stored and read by nobody; the stored request is compared with nothing.

The empty `request` that the code stores with a key is no JSON, and the migration's
column `request JSONB` rejects it (SQLSTATE 22P02), so as the code and the schema stand no
call that names a key succeeds. `RequestColumn` is the type of the column. With `"jsonb"`
`InsertIdempotency` always fails, and the run `keyed_create` shows what that means. The
other runs and the proofs take `"text"`, or either: the behaviours with `"jsonb"` are among
those with `"text"`, in which every statement may fail too (`DatabaseError`), so what holds
of them holds of the code; and it says what the handling of keys is worth once the
column takes the row.

### OutboxWriters, OutboxPublisher, OutboxChannel

`OutboxWriters` is the interface of the two halves of the outbox: a transaction draws an
id (`InsertOutbox`), then commits or rolls back, in any order across cases and one at a
time within a case; `WritersDie` is the death of their process. `CaseRepository`
implements it (`WritersAsAssumed`), and `OutboxPublisher` runs against it, so that what
is checked of the publisher holds for the rows that the repository really writes.

`flush` is `BeginTx`, `ListUnpublishedOutbox` (unmarked and unlocked rows by ascending id,
`SKIP LOCKED`), `Publish` row by row into `buffer`, `MarkOutboxPublished`, `Commit`,
`Flush`. `Send` is the goroutine of the NATS client. Statements fail, connections break
(`Disconnect`), the process dies (`Crash`) or is told to stop (`Cancel`). `deployed` says
which publishers and cases a behaviour has. Nothing in the repository starts a
publisher today; the model is of one that is started as its constructor asks.

`OutboxChannel` is what a consumer sees of all this: rows appear (`AddRow`), come out
(`Deliver`: a row once more than it had troubles at most, and behind the earlier rows
of its case if one publisher runs alone), and something goes wrong (`Trouble`).
`ImplementsChannel` is the refinement; `alone` is mapped to "one publisher is deployed",
every other variable to itself.

### QueryTranslation, GatewayTypes, RateLimiter, Authenticator, QueryGateway

`Receive` to `Answer` follow `handleQuery`: decode, template, checks; authentication
(`GetKeySet`, `Fetch`, `StoreKeySet`, `VerifyFetched`); the limiter (`AllowLocal` takes
a token and reads the clock, `AllowRedis` runs the script later); the cache
(`CacheHit`, `CacheMiss`, `CacheSet`); the backends (`OpenObserveAnswers`,
`Unsupported`, `FallbackAnswers`, `BackendError`, `UnreadableAnswer`). The clock `now`
ticks between any two steps, but not past the deadline of a request: 2 minutes for the
whole, 10 seconds for the key set (`Deadline`). `RedisReplyLost` is a script that ran
and whose answer did not arrive: the client library repeats it or gives up. A result is
the call that was evaluated and the time it was; its data is irrelevant.

A query text is the sequence of its words. The characters of an operator are words of
their own, so that searching a text for `=`, `!=` or `>` finds what `strings.Contains`
and `strings.SplitN` find, in `!=` and `>=` as well; `|` is a word, so that joining
texts with `|`, as the cache key does, is the concatenation of sequences, collisions
included. White space and quotes are left out: a word of `Literal` stands for a quoted
string. A tenant and the name of a template, which nothing checks, are one word unless
`Spelling` gives their text, in the parts of a key. `Plain` says that both are one word and
that the tenant reads neither like a step nor like `normalize=true`; `cache` remembers it of
the request that stored an entry (`plain`), for the properties alone.

A template becomes the set of texts that some order of the map iteration renders
(`applyTemplateVariables`); `Receive` takes one of them. `Statement` is the set of the
conditions of `WHERE`; the table and the organisation are those of
`resolveTenantMetadata`, where a tenant without a row and a blank column get the
defaults. `Meaning` gives, per text, the conditions its author means; `AnswersWhatIsMeant`
compares the two and leaves out values that contain another variable's placeholder.
`QueryMeaning` builds the texts from their parts and the meaning from the same parts, for
the operators that the translators read right; section 5 lists the ones they misread.

One clock stands for those of the gateway and of Redis: the quota says nothing about
hosts whose clocks differ. `admitted` remembers the runs of the script that let a request
pass, each with its stamp and the time it ran, for `QuotaHolds` alone: of the requests that
read their clock and ran within one window of time, at most `Burst` milliseconds pass.
Scripts that run late come on top (section 5). The checks of the JWT library other than the signature are
one bit. ristretto may drop or decline any entry, which also covers a disabled cache.
The metadata lookup keeps nothing and is part of the query step; its failure is one of
`BackendError`. The audit log is left out.

### AnalysisService

`queryTemplate(k)` is the goroutine of source `k`: the gateway's answer goes into
`results`, the buffered channel, and `wg.Done` follows in the same step since only the
closing goroutine (`CloseResults`) can tell. `Collect` is the loop over the channel,
`Summarize` the health and the heuristic, `StartCodex` ... `Analyze` the reasoner's
process: `Kill` is the deadline or a client that has gone, `CodexForks` a process that
inherits the output, which `CombinedOutput` waits for as well. `normalizeRequest` is
computed on half minutes; the gateway refuses reversed ranges and malformed windows.
`said` remembers what the gateway told each goroutine and is read by properties only.

### ToolCalls

`Serve` is `ServeHTTP` from the token to the parsed arguments, which is all a call reads
of the clock; `CodexCalls` is the same for a request that comes from a running Codex.
`PostJSON` sends the next upstream request, whose end is `GatewayAnswers`,
`AgentAnswers`, `UpstreamFails` or `Timeout`; `Respond` ends the handler, and loses the answer
once the write deadline has passed: that of a call whose upstream was silent for the
client's 20 seconds always is, the write deadline being 10 seconds. `RunAnalysis`, `StartCodex` and `CodexEnds` are the agent's run,
without the goroutines and the report that `AnalysisService` has; `Cancel` is what a
closed connection does to it. A JSON object is a function on the names it gives, and a
metric is named by its template.

Only waiting takes time: the clock stands still while a handler can go on, a timer is
due or a closed connection is unnoticed. The user travels like the tenant and is left
out. It is assumed that the tenant header is `X-Tenant` (see section 5).

### A2AStore, RecordStream, ServiceProcess

`phase` is how far a process is: `probe` (the agent and the bridge try their addresses),
`connect` (the agent's and the gateway's Postgres), `serve`, `drain` (`http.Server.Shutdown`),
`close` (the deferred calls, `pool.Close` among them), `exited`. The four programs differ
where the code does: the gateway catches signals from the start, the agent after its
probes, the tool server after it listens, the bridge never; a failing listener makes
the agent return through its deferred calls and the others leave at once (`log.Fatal`,
`os.Exit`); the tool server does not hand the context of a request on, so a client that
leaves ends nothing there (`Abandon`). `ended[l]` says how life `l` ended; `Restart` begins
the next with an empty task store.

A handler is reduced to what it waits for (`Stages`): connections of the pool, other
services, Codex, the task store, the stream. What the first three compute is in
`CaseRepository`, `QueryGateway`, `AnalysisService` and `ToolCalls`. `createTask` and `getTask`
name a task by the call that created it, since its id is random; the topics stand for
the keywords the code looks for. `negotiate` only evaluates. A line of a stream is a
record, malformed, `null` or too long for the scanner; `OpenFails` and `ScannerStops` are a
source that fails before or in the middle, which `sound` remembers for the property.

## 3. Runs

| run | checks | shows |
|---|---|---|
| `case_repository` | `TypeOK`, `VersionCountsTimeline`, `OutboxTellsHistory`, `KeyedEffectOnce`, `AnswerTellsEffect`, `NoLostUpdate`, `ImplementsLedger`, `WritersAsAssumed` | four concurrent requests keep the case, its history, its messages and the answers together, refine the ledger, and write the outbox as the publisher assumes |
| `case_repository_live` | `EveryRequestAnswered` | no path keeps a row lock, a key or a connection |
| `case_ledger` | `ExecutionIsApproved`, `ClosedIsFinal` | every history of up to nine successful calls: who approved what, and that only a verification closes |
| `outbox` | `TypeOK`, `MarkedWasHanded`, `RepetitionsExplained`, `OvertakenIsInHand`, `ImplementsChannel`, `EveryRowSent` | one publisher, and two side by side: the channel is implemented, every row is sent, and only a row in another publisher's hand is overtaken |
| `query_gateway` | `TypeOK`, `QuotaHolds`, `AnswerFitsRequest`, `AnswersWhatIsMeant`, `AnswerIsFresh`, `KeysFollowRotation` | five deployments: tokens, quota, both, templates and colliding names, and 943 generated queries to be translated |
| `analysis_run` | `TypeOK`, `NeverSendsOnClosed`, `ReportComplete`, `HealthyIsKnown`, `ReasonerTold`, `RunAnswered` | one run with every outcome of its queries in every order |
| `tool_calls` | `TypeOK`, `QueriesFitCall`, `ResultIsWhole`, `CodexDiesWithCall`, `EveryCallEnds` | a client's call and a call that Codex makes from it, with late, failing and silent upstreams: every handler and every run ends, heard or not |
| `service_process` | `TypeOK`, `NoTransactionCut`, `CutExplained`, `TasksReadable`, `StreamComplete`, `Stops` | each of the four programs, stopped, failing or killed at any point of two requests |

Four runs are meant to be violated; each shows where the code does something else than
the documentation says.

| run | property | the code |
|---|---|---|
| `keyed_create` | `KeyedCreateRegistered` | a create with an `Idempotency-Key` is rolled back and answered 500 although nothing fails: the empty request stored with the key is no JSON |
| `stale_tag` | `StaleTagRefused` | `If-Match: 0` and `W/"1"` are read as 0, which switches the version check off |
| `approval` | `ApprovalAccepted` | the handler sets no fact of the `Context`, so `gate_approved` always fails its guard over HTTP |
| `outbox_loss` | `MarkedReachesBus` | `flush` marks and commits before it flushes the client: a crash in between loses the row |

Every property of a passing run has a mutant in `PROJECT.json`: a definition changed as a
plausible bug would change it, for which TLC finds the property violated. The mutated
operators stand before the ones they replace and are used nowhere.

### Bounds

* `case_repository`: two clients that may create, two that move, two keys, two ids,
  two connections (one less than the requests that contend), one crash. Two requests
  suffice for every pairwise race; the third and fourth make a waiter behind a waiter
  and a stale caller. The offered calls (`Mixed`) contain repeated, fresh and absent
  keys and current, stale, early and unreadable versions.
  `keyed_create` needs one create with a key and no failure (`CalmSpec`).
* `case_ledger`: nine calls are enough to close a case after a park; `OneByOne` makes
  the calls sequential and stops at the first refusal, since `case_repository` covers
  concurrency.
* `outbox`: a behaviour has one of three deployments: one publisher and two cases, whose
  commits can overtake each other, or two publishers on the rows of one case, with more
  rows or with more troubles. Two or three rows and batches of two (ten in the code)
  leave a backlog; two troubles allow a failure and a death, or two deaths.
  `outbox_loss` needs one publisher, one row and one trouble.
* `query_gateway`: `RequestTimeout` and `Window` 2, `FetchTimeout`, `Burst` and the ttls 1, five
  ticks. As in the code (2 minutes and 1 minute), a request may live as long as a window,
  so a script may run when its stamp has left it; a window can expire, a set and an
  entry can grow too old, and one rotation leaves time to be followed. Requests are not
  received when their life could exceed `MaxTime`. Each deployment has the requests that
  matter to it: three calls of two tenants across a rotation; three calls of one tenant
  on the limiter, whose backend is never asked; a mixture of both; templates, one of
  which names its variables twice and one of which is translated, ranges of every sort,
  a tenant with a row and a blank column, and two pairs of requests whose keys collide
  because a name is not plain; and one request with any of the texts of up to two
  matchers or conditions and two stages over two labels (651 in LogQL, 292 in TraceQL).
  Two of each suffice: the translators read the parts one by one, and a part is
  misread because of what it holds or what stands beside it.
* `analysis_run`: the code's five sources, record counts 0 and both sides of the
  thresholds 25 and 10, four ways to give a range.
* `tool_calls`: two calls, so that Codex may ask for the analysis it is part of;
  `UpstreamTimeout` is twice `WriteTimeout` as in the code, and Codex's own deadline lies
  before and after it. A call is received only if it can end by `MaxTime`.

* `service_process`: two requests on one connection, so that one waits for the other's, and
  one restart, so that a task is asked for in the life that answered it and in the
  next; lines of every sort stand before and after a record.

`CHECK_DEADLOCK FALSE` is set where the bounded clients run out of requests
(`case_ledger`, `query_gateway`, `analysis_run`, `tool_calls`, `service_process`); `CaseRepository` has an explicit
step for the idle server (`Quiescent`) and is checked for deadlock.

### Fairness

* `CaseRepository`: weak fairness of `Handle(r)`, a goroutine that can go on does. None
  for `Receive`, for failures or for crashes, so a wait ends only because somebody
  releases what is waited for. Weak fairness suffices since each request is handled
  once: a lock cannot be taken away again and again.
* `OutboxPublisher`: weak fairness of `Run` (the ticker), `Send` (the client's
  goroutine) and `Restart` (the supervisor). Failures are bounded by `maxTroubles` of
  the deployment.
* `AnalysisService`: weak fairness of the goroutines, the loop and the deadline (`Kill`;
  the HTTP client of the gateway has a timeout, so `queryTemplate` ends too). None for
  `ChildEnds`: nothing in the code ends a process that Codex leaves behind, and
  `RunAnswered` excepts exactly that case.
* `ToolCalls`: weak fairness of the clock, of handlers that can go on, of cancellation
  and of Codex's deadline. None for any answer: `EveryCallEnds` rests on timeouts alone, and
  says that handlers and runs end, not that the caller hears of it.

* `ServiceProcess`: weak fairness of the steps of the main routine (`Connected` or its
  failure, `Catch`, `Shutdown`, `Exit`), of the end of draining, which has a timer, and of
  `ReleaseConnection`: the database answers. None for the probes, Codex, other services or
  clients, so `Stops` holds although none of them ever ends.

## 4. Proofs

Each theorem below is proved with TLAPS for every value of the constants that the named
assumptions allow: any number of requests, cases, publishers, tenants, calls and
restarts, any bound on failures. TLC evaluates the assumptions on every instance, and the
inductive invariants were checked on the instances of section 3 before they were proved.
A proof module states its invariant as a conjunction of named parts, shows for each
action that it keeps them, and has one lemma for what the steps of one actor leave
alone of the others.

### The cases

| theorem | says |
|---|---|
| `TypeCorrect` (CaseRepositoryProofs) | `Spec => []TypeOK` |
| `VersionCountsTimelineHolds` | the version of a case counts its history |
| `KeyedEffectOnceHolds` | no request, and no two requests with one key, take effect twice |
| `NoLostUpdateHolds` | a transition that names version n > 0 writes version n + 1 or nothing |
| `AnswersTellTheirEffect` (CaseRefinementProofs) | a success names a committed row, a refusal left no trace |
| `RepositoryImplementsLedger` | `Spec => ImplementsLedger`, the refinement of `CaseLedger` |
| `OutboxTellsTheHistory` | the outbox rows of a case are its history, in order, none missing, none more |
| `RepositoryWritesAsAssumed` | `Spec => WritersAsAssumed`, for finitely many requests |
| `LedgerApprovesExecution` (CaseLedgerProofs) | a case that executes, is verified or closed was approved, with gate and change window, after its last park; just before that its plan was vouched for, or it was parked before `plan_ready` |
| `LedgerClosesForGood` | the last row of a closed case is a vouched `verify_pass`, and nothing follows one |

Assumptions: `ConstantsAssumption` (`NoRequest` and `NoKey` are no real request and no real
key, `UnknownId` is an identifier), `RepositoryAssumption` (`Offer` offers HTTP requests,
`RequestColumn` is one of its two types, `MaxConns` is positive, `MaxCrashes` is a natural
number) and `LedgerAssumption` (`NoCall` is no
call). Requests have to be finite in number for the last line of the repository only:
each of them may draw one outbox id, and the writers' ids have a bound.

None of these is inductive. `IInv` adds what a transaction in flight knows, for every
request `r` (`Local(r)`): from `GetCaseForUpdate` to the commit, `r` holds the row lock and
its copy of the row is the committed one (`RowHeld`); after the insert, its timeline
entry carries its name (`EntryWritten`); if the client named a version, it is the version
of that copy (`VersionChecked`); after `InsertIdempotency`, it holds the key and the key is
not registered (`KeyOwned`); and a name that appears in a committed history belongs to a
request past its commit (`WriterDone`). `RowHeld` makes the check on an earlier read
sound; `KeyOwned` makes the lookup outside the transaction harmless to `KeyedEffectOnce`.

The refinement needs that the decision of a handler still is the decision on the
committed row when it commits (`Flight`), and that a stored response is the row that a
request with its key wrote (`RegistryTells`). Steps before a commit map to stutters
(`Quiet`), a commit to `Create` or `Move`, the answer to what it says, and a crash to the
answers that it loses. `Ids` says that an id is drawn once and, while its transaction is in
flight, lies behind every visible row of its case: the row lock orders ids with
versions, although ids of different cases become visible in any order.

For the ledger, whoever wrote a row has called (`Called`), so his facts can no longer
change; a case that waits at the gate has its plan in the last row, and a parked one its
park (`Waits`). Where an event leads and what it asks for (`Leads`) is read off the table
and the guards once.

### The outbox

| theorem (OutboxPublisherProofs) | says |
|---|---|
| `PublisherTypeCorrect` | `Spec => []TypeOK` |
| `MarksOnlyHanded` | only committed rows travel, and only handed ones are marked |
| `TroublesExplainRepetitions` | every further copy of a row, in a buffer or on the bus, had a trouble of its own |
| `NoRowIsPassedBy` | while nothing fails, a row overtakes only one that is in somebody's hand |
| `PublisherImplementsChannel` | `Spec => ImplementsChannel`, the refinement of `OutboxChannel` |
| `ChannelKeepsOrder` | a channel with a single publisher shows the rows of a case in order, but for lost ones |
| `ConsumersSeeOrder` | hence so does this outbox, whatever fails |
| `ConsumersSeeFewRepetitions` | and a consumer sees a row once, and once more for every trouble |

Assumptions: `PublisherAssumption`, `WritersAssumption` (bounds are natural numbers, batches
take at least one row, publishers are finitely many). `BatchLocked` says what `SKIP LOCKED`
gives: batches of different publishers share no row and hold no marked one, in
ascending order. `CopiesExplained` counts the copies of a row: one for being taken, one
per trouble, where a publisher that was told to stop has used its trouble up before the
copy is made. `InOrder` is the order argument for a publisher that runs alone: what goes
before a row of its buffer or batch was delivered, lost, or stands before it there. It
rests on `IdsDrawn`, which the writers give. The listing is defined by the positions of its
rows (`Ascending`), since the prover knows nothing of `SortSeq`.

### The gateway

| theorem (QueryGatewayProofs) | says |
|---|---|
| `GatewayTypeCorrect` | `Spec => []TypeOK` |
| `QuotaIsKept` | of the requests of a tenant that read their clock and ran within one window of time at most `Burst` milliseconds pass, whatever runs late |
| `AnswersFit` | an answer is the result of a call the request would have made itself; from the cache, if the names are plain on both sides |
| `AnswersAreFresh` | a result is never older than the ttl and the life of a request |
| `KeysAreFollowed` | a rotated key is refused once the ttl and the timeout of a fetch are over |

Assumptions: `GatewayAssumption`, `LimiterAssumption`, `AuthAssumption`, `ServerAssumption` (times and
counts are natural numbers, positive where the code sets a default, `Unset` is no
tenant), `TemplateAssumption` (a configured template has a language, a step and a text) and
`RequestAssumption`: what is offered are requests, and filling in a template yields a text.
The last part stands for what the folds of `QueryTranslation` compute; TLC evaluates it. `KeysAreFollowed`
has the hypothesis `FetchTimeout <= KeyTTL`, which the code's constant (10 s) and default
(1 h) meet: a ttl that is shorter than the fetch makes a set that is stored late
last until `rotatedAt + 2 * FetchTimeout`.

* Quota: a stamp that let a tenant pass stays in the set as long as it is less than a
  window old, and the set's own expiry does not come before (`WindowOK`): a script only
  drops members that are a whole window older than its own stamp, which lies in the
  past. When a script runs, all stamps admitted in a window of time that is not over
  are therefore members of the set, and so no more than `Burst`.
* Cache: `CacheOK` says that an entry is the answer to some request with its key, whose
  names are plain if the entry says so. That a key fits two requests with plain names
  only if they ask the same is a lemma of its own (`SameCalls`), by the lengths of the
  joined parts: nothing else is assumed of the texts, which may hold separators.
  Freshness needs no such condition.
* Key set: a set on its way that a rotation has overtaken was asked for before it
  (`FetchOK`), and a set that is stored is stamped no later than its request's timeout
  (`KeySetOK`), however refreshes overlap.

### The analysis, the tool calls, the processes

| theorem | says |
|---|---|
| `AnalysisTypeCorrect` (AnalysisProofs) | `Spec => []TypeOK` |
| `AnalysisNeverSendsOnClosed` | `Spec => []NeverSendsOnClosed` |
| `AnalysisReportComplete` | `Spec => []ReportComplete` |
| `AnalysisHealthyIsKnown` | `Spec => []HealthyIsKnown` |
| `AnalysisReasonerTold` | `Spec => []ReasonerTold` |
| `ToolsTypeCorrect` (ToolCallsProofs) | `Spec => []TypeOK` |
| `QueriesFit` | all queries of a call are for its tenant and its range |
| `ResultsAreWhole` | a result that is heard has everything it selects |
| `CodexDies` | Codex passes neither its own deadline nor its caller's |
| `ServiceTypeCorrect` (ServiceProofs) | `Spec => []TypeOK`, with the room of the pool |
| `ServiceCutsNoTransaction` | `Spec => []NoTransactionCut` |
| `ServiceExplainsCuts` | `Spec => []CutExplained` |
| `ServiceKeepsTasks` | `Spec => []TasksReadable` |
| `ServiceStreamsComplete` | `Spec => []StreamComplete`, for lines of any number |

Assumptions: `AnalysisAssumption` (times are natural numbers, 0 for one that is not given);
`ToolAssumption` and `RequestAssumption` of the tool calls (calls are finitely many numbers,
timeouts are positive, arguments have the types the JSON decoder enforces, and `Bad` is
no time); `ServiceAssumption`, and `RecordAssumption` of the stream (a record is no malformed
line, no `null` and no line too long).

* `AnalysisProofs`: `Inv` says where every source is: still asked, once in the channel with
  what was said of it (`Channel`), or in the report with what was said of it, and among the
  errors exactly if that was an error (`Accounted`); a name that is about to be appended
  to the errors is therefore not there yet, and `Errors` (no name twice) is kept.
  `Progress` orders the goroutines, the closing and the fold: the fold is over only when
  the channel is closed and empty, so every source is in the report. `Reversed` (a
  reversed range makes logs and traces fail) and what `Diagnosed` says of the stage before
  the reasoner complete it.
* `ToolCallsProofs`: for every call, what it has found and what is left are the steps of its
  tool (`Work`); the queries sent for it are the steps found, with the one in the air, or
  those of the run it started (`Sent`); each of them carries what was parsed when the call
  was received (`QueryOK`). `InTime` is what makes two deadlines that know nothing of each
  other compatible: a live run has a handler that waits or a connection whose closing
  comes before time passes.
* `ServiceProofs`: connections exist only while the process serves, and a request in hand
  belongs to the current life (`Current`); how a life ends is settled only when it closes,
  and a drained one has no connection left (`Ends`); what was cut off belongs to a life
  that is over, and holds a connection only if that ended by a kill or `log.Fatal` (`Past`);
  Codex runs only for a request at that stage or one that was cut off (`Runs`).
  `TaskInv`: the map holds every task of this life whose call is past its store, as it was
  answered (`Held`), and what a call has found is such a task (`Found`). `HoldInv` counts the
  connections in use. `StreamInv` says how far a stream is (`InOrder`): what was passed on are
  the records of the lines read, the kinds before the current one read to their end
  while OpenObserve is sound, those after it not at all. `Tagged`, the records of the first n
  lines, is a recursive function: that it has a value at every n is proved by least
  counterexample (`ReadingExists`, `TaggedIs`), from the library's theorem that `<` is well
  founded on `Nat`, and `OneMoreLine` says what one more line adds.

Some names exist for the prover's sake only: it reads the texts `""` and `"|"` as no
strings, so they are called `Unset` and `Pipe`.

### Only model-checked

* Liveness: `EveryRequestAnswered`, `EveryRowSent`, `RunAnswered`, `EveryCallEnds`, `Stops`. Fairness and
  `ENABLED` are out of the prover's reach.
* `AnswersWhatIsMeant`: what the folds of `QueryTranslation` compute. It is an induction over
  texts, and the folds of the community modules take operators as parameters, of which
  the prover knows nothing.
* The violations of the `violation` runs, which are single behaviours.

## 5. Seen in the code, and covered by no run

* Even with a `request` column that takes what is stored, a repetition that starts before
  the first call with its key commits would not get the first result, as
  `docs/llm-ops-agent/Orchestrator-Interaction-Contract-API-Guide.md:106` says
  ("同一键重复调用→返回首个结果"): the lookup is made once, before the transaction
  (`case_repo.go:105`), so it goes on and is refused by the version, the state machine or
  the unique key. `KeyedEffectOnce` is the good half of this.
* The quota of a window (`docs/observe-gateway.md:72`) is kept for what runs within it, not
  for all that is stamped in it: with `burst` 2, `window` 3 and the members 2 and 3, a
  script stamped 6 drops both, and one stamped 4 that was delayed behind it is admitted
  as well, so 2, 3 and 4 pass within one window. Delays are bounded by the request's
  2 minutes, twice the default window.
* Cache keys (`server.go:271`) of names that are not plain collide: tenant `b|5m` without a
  step and tenant `b` with step `5m`; query `{app="api"}` with template name
  `= "api"|t`, and `{app="api"}|= "api"` with template `t`. The run has both
  pairs; without the condition `OwnKey`, TLC finds `AnswerFitsRequest` violated by them.
  A tenant comes from `X-Tenant` or a token's claim and is not checked, and neither is a
  template's name: one that is not configured changes nothing but the key.
* `docs/observe-gateway.md:122` says that an empty `redis_addr` disables limiting: the
  local bucket still applies. Line 126 says that any 4xx or 5xx falls back: only 400,
  404 and 501 do. Requests of one millisecond share a member of the Redis window, and
  the window admits `burst`, not `requests_per_second`; `QuotaHolds` counts
  milliseconds for that reason.
* With authentication disabled the tenant comes from `X-Tenant`, whatever
  `tenant_header` is configured. A failed refresh of the key set answers 401 although
  an old set is at hand. A cached response still says `"cached": false`.
* The gateway's `write_timeout` (15 s) is shorter than the timeout of OpenObserve (30 s):
  a slow answer never reaches the client.
* The heuristic's line that Codex "did not produce a valid response" is written when a
  query failed, whether or not there is a reasoner, and not when only the reasoner
  failed.
* `docs/llm-ops-agent/walking-skeleton.md:29` allows `plan_ready` only for a complete plan;
  the edge from `PARKED` to `WAIT_GATE` (`workflow.go:48`) has no guard.
* `docs/xscopehub-monitoring-agent-mcp.md:14` says that a failing Codex leaves the evidence
  and the heuristic. Through the MCP server that holds only for a Codex that fails
  quickly: after 20 seconds the server gives up the call (the agent allows 90 for
  Codex), the report is cancelled with it, and after 10 seconds the server's own
  write timeout would lose any answer. `CodexDiesWithCall` is the good half of this.
* The tool server reads `X-Tenant` and `X-Scope-Tenant`, whatever header is
  configured, sends the configured one, and lets the gateway and the agent read
  their own. The handler of a tool call goes on when its caller has gone, so calls
  made by a killed Codex live on for up to 20 seconds per upstream request.
* `query_metrics` with a metric outside the enumeration of its schema asks nothing
  and answers an empty result.
* With two publishers `SKIP LOCKED` lets a later row of a case overtake an earlier one, which
  then is in the first publisher's hand (`OvertakenIsInHand`).
* The local bucket is charged before Redis is asked: a refusal or an error there still
  costs a token (`limiter.go:72`). A range shorter than half a minute rounds to the window
  `0s` (`service.go:265`), and objects without a known key are counted by the first
  non-empty child in map order (`service.go:614`).
* The translators misread what `QueryMeaning` leaves out. LogQL: `=~` in a selector becomes
  an equality with the value `~"x"`, and `!~` there is dropped (`client.go:529`); a line
  filter is only seen after a `|`, so the usual `!= "x"` and `!~ "x"` are ignored.
  TraceQL: `>=` and `<=` are read as `=` of another name (`client.go:606`), `AND` in
  capitals does not separate conditions, and the example `duration>200ms` of
  `docs/xscopehub-query-gateway.md:59` becomes SQL that does not parse. `ILIKE` ignores
  case, which LogQL does not; an absent label makes `<>` unknown, not true.
* A value that contains another variable's placeholder renders differently from call to
  call (`config.go:233`).
* `docs/observe-bridge/test-cases.md:21` expects 400 for a missing `tenant` and, on the next
  line, an empty stream or 204 for `from` >= `to`: neither is checked. An error in the
  middle of a stream ends a 200 response in order, a line beyond the scanner's limit
  ends its source silently, and a line `null` panics (`oo.go:44`), there being no
  `Recovery` in the bridge.
* The agent's and the bridge's probes of Postgres have no deadline and come before
  signals are caught: a silent host keeps them from starting, and SIGTERM kills them.
* A Codex process outlives an agent whose grace is over.

## 6. Not modelled

* **Bridge handlers other than the stream**: they check the window and call packages whose
  bodies are placeholders (`TODO`); the data access of `internal/analytics` is called by
  nobody. The fork of `--daemon` is left to the library.
* **Proxy** (`observe-gateway/cmd/obsgw`): forwards single requests and keeps nothing.
* **Configuration files, audit lines, agent stubs, schemas, deployment**: parsing, output or
  data, without control.

## 7. Plan

Done: every component of section 1 that has control of its own is modelled; every safety
property of a passing run is proved but for `AnswersWhatIsMeant`, and so are the three
refinements. Next:

1. `AnswersWhatIsMeant` for texts of any length: the translation with recursive functions
   instead of folds, and then by least counterexample, as for `Tagged`. Until then it
   is checked on the generated texts of the run.
