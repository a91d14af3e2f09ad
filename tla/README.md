# A verification project for health-monitor-mcp

health-monitor-mcp is an MCP server that watches other MCP servers: it keeps a
registry of them in SQLite, checks them over HTTP, SSE or stdio, on request or
on a schedule, keeps a history of the checks, and derives alerts, uptime and a
dashboard. This directory models that program in TLA+, checks the models with
TLC and proves theorems about them with TLAPS. Paths below are relative to the
repository (`src/src/registry.ts` of the mapping files is its
`src/registry.ts`).

## Inventory

The program is one Node.js process per entry point (stdio or HTTP). JavaScript
between two awaits runs without interruption, and `better-sqlite3` is
synchronous, so concurrency is between the awaits of tool calls, of the
scheduler's workers and of HTTP requests. What makes it hard is listed with
each part; `PROJECT.json` has the hazards at their lines.

| Part | State | Operations | What must hold |
| --- | --- | --- | --- |
| Registry and history (`registry.ts`) | tables `servers`, `health_checks` | register (upsert), unregister (cascade), record a check (INSERT, UPDATE, pruning DELETE: three autocommit statements), queries | no history without its server; the cached columns `last_status`, `last_checked`, `consecutive_failures` agree with the history, whatever is pruned and wherever a record breaks off; pruning takes the oldest first and keeps up |
| Alerts (`alerts.ts`) | table `alerts` | set thresholds, evaluate after a check | a finding is true of the tables at that moment and is not missed (of the uptime: to half a percent) |
| Tool handlers (`app.ts`) | calls in progress | `check_server`, `check_all`, `check_all_projects`, queries, writing tools | an answer is what the tables hold although servers are unregistered or registered again during an await and statements fail; each call is answered |
| Scheduler (`scheduler.ts`) | timer, running flag, policy, shared index of the worker pool | start, stop, cycle | cycles do not overlap, each due server is checked once, workers are not idle, the policy applies, no due server starves |
| Checker (`checker.ts`, `retry.ts`, `network.ts`) | one budget of time per check, clients | two HTTP transports with a retry and a probe, stdio | ends in bounded time, closes its clients, its verdict is earned |
| HTTP sessions (`server-http.ts`) | Map of sessions with expiry | create, use, delete, evict, expire lazily, close all | cap; what the Map drops is closed; 404 exactly for dead sessions |
| Rate limiter (`server-http.ts`) | bucket per client | check | bounded rate, no denial within the limit, a denial ends |
| HTTP endpoint (`server-http.ts`, `policy.ts`, `config.ts`) | configuration, requests in progress, a MonitorServer per stateless request, the scheduler it starts | startup validation, bind, order of refusals, body, handler, close | only vetted requests reach a handler, no stdio command behind a public endpoint, no server stays open, every request ends |
| Azure pipelines (`azure-devops.ts`, `registry.ts`, `app.ts`) | tables `azure_pipelines`, `pipeline_runs` | register in a transaction, fetch and record runs concurrently | a group agrees with its newest registration; a finished run goes back to in progress, and a run of a former definition is recorded, only by calls that overlap; calls end, and record nothing behind an answer unless they reported an error |
| Database and migrations (`db.ts`, `migrations.ts`) | schema versions, the cached connection of each process | open, migrate, conflict, fail; statements of several processes on one file | who has the file open has every migration; everyone gets it open; columns are wrong only after overlapping records |
| stdio entry, webhooks, logging, types, scripts | – | – | not modelled, see below |

Interactions: handlers and scheduler call the checker and, when it returns,
`recordHealthCheck`; handlers then evaluate alerts on the tables just written.
The HTTP server asks the limiter, then the session registry, then a session's
own MCP server, whose tools are the handlers. Several processes may share one
database file. Everything meets in the tables.

## Modules

| Module | Models | State and actions |
| --- | --- | --- |
| `Registry` | `registry.ts` (servers, checks), `setAlertConfig`, the schema | One variable per table, the AUTOINCREMENT counter and the clock. One action per writing function; `StopAfterInsert` and `StopAfterUpdate` are the two proper prefixes of `recordHealthCheck`. `unsynced` and `miscounted` are history variables: they remember for which servers a record broke off, and are read by properties only. |
| `Alerts` | `alerts.ts` | Operators on Registry's tables: effective thresholds, rounded uptime, the three findings. |
| `Monitor` | checking handlers of `app.ts` | `calls` holds for each call slot its tool, the configurations it awaits a check for and the answers it has. A check that returns is one action: record, findings, answer. `CheckFailed` is a record of which a statement fails; the catch block of `check_all` then runs in the same turn of the event loop, as a second step (`catching`) that only a crash can precede. `Crash` forgets the calls and keeps the tables, possibly with a broken record. |
| `Scheduler` | `scheduler.ts` | The servers with their age since the last check, the timer, the flag, the waiting and checked servers. `CheckEnds` includes the record, which may fail (`RecordedOrNot`: the error is only logged and the server stays due), and what the worker does next, up to its next await. |
| `Checker` | `checker.ts`, `withRetry`, `fetchWithTimeout` | One check: the phase it awaits, the attempt (`leg`), the time used, the pending timer, the open clients. Each action is the code between two awaits. |
| `Sessions` | `HttpSessionRegistry`, `handleStatefulMcpRequest` | The Map with remaining lifetime and insertion order, and for each session whether its server and transport are open. `initialize` is `Create`, then `Initialized` (the registration) or `InitializeRefused`, then `InitializeAnswered`, with `InitializeFails` before or after the registration. A DELETE finds its session (`Delete`) and its transport reports the end later (`SessionEnds`), when eviction or expiry may have come first. |
| `SessionStore` | what `docs/operations.md` promises of sessions | The abstract store of live sessions that `Sessions` implements. |
| `RateLimiter` | `InMemoryRateLimiter` | Bucket per client as count and age; history of allowed requests. Composed into `HttpEndpoint`, which extends it. |
| `HttpEndpoint` | `startHttpServer`, `createHttpServer`, `readRequestBody`, `handleStatelessMcpRequest`, `policy.ts` | The configuration, the phase of the process, the policy its scheduler was started with, what became of the request on each connection, and which connections have a MonitorServer open. The gates are a sequence of (status, condition) in the order of the code; a request that passes them all is counted by `Check` of `RateLimiter` in the same step. When the endpoint has closed, a cycle of the scheduler may still run, without a policy (`scheduler = "unset"`, until `CycleEnds`). `Handled` is everything `connect` and `handleRequest` may do: answer, fail before the headers (500) or after them (`open`: nothing ends the response but its client). |
| `Pipelines` | the Azure half of `registry.ts`, `azure-devops.ts`, the fetching tools of `app.ts` | Azure's builds (external), the tables `azure_pipelines` and `pipeline_runs`, and the calls with their fetches in flight. An answer that arrives (`AzureAnswers`) and the handler that goes on with it (`Continue...`) are two steps, so answers are recorded in any order. `overtaken`, `replaced`, `newest` and the column `from` are history. |
| `Migrations` | `db.ts`, `migrations.ts` | The rows of `schema_migrations`, which changes the file has, the rows the third migration deduplicates, and each process on its way to an open file. Reading the versions and applying each missing one are separate steps of separate transactions. |
| `SharedDatabase` | several processes on one file | Extends `Registry` and `Migrations`. The four statements of `recordHealthCheck` (SELECT, INSERT, UPDATE, DELETE) are four actions per process, the last with the time the first has read; registrations and deaths come between them. |
| `RegistryProofs`, `MonitorProofs`, `CheckerProofs`, `SchedulerProofs`, `SessionsProofs`, `EndpointProofs`, `DatabaseProofs`, `PipelinesProofs` | – | Theorems, see below. |
| `MC...` | – | Instances for TLC. |

`Monitor` extends `Alerts`, which extends `Registry`; `RegistrySpec` is a
property of `Monitor`, so `Registry` is also the abstract specification of what
the concurrent handlers do to the tables. `SessionStore` is the abstract
specification of `Sessions`, with the refinement mapping from remaining
lifetimes to idle times of the unexpired entries. `SharedDatabase` composes the
opening of a file with what is done in it, `HttpEndpoint` the gates with the
limiter and the scheduler's start.

Operators whose name has an underscore (`Pruned_OneShort`) are the variants of
a definition that a plausible bug would leave; each property of a passing run is
violated by at least one, and nothing else uses them.

### Abstractions

- The columns `register_server` replaces are one value (`config`); response
  times, tool snapshots and messages of checks are left out, and with them the
  response-time finding, which compares a result with a threshold and reads no
  other state.
- Time is in ticks. In `Registry`, `Monitor` and `SharedDatabase` the clock is
  an absolute counter that never steps back (the wall clock can; the proofs use
  this in `IdsFollowTime` only). In the other modules ages and remaining times
  are cut off where no comparison can tell them apart, so time is unbounded there.
- An uptime threshold is a number of `Grain`-ths of a percent: the schema asks
  for no whole number (`src/src/types.ts:116-121`) and the column is REAL
  (`src/src/migrations.ts:59`).
- The tags filter of `check_all` is any choice of the registered servers.
- In `Checker` timers are punctual, an answer may race with the timer at its
  last tick, and a server's error message is never literally the word by which
  timeouts are recognised. `client.close()` ends, within `CloseTime`: nothing in
  the code sees to that, so a close that hangs is outside the model, and so are
  promises that nobody awaits any more (what completes after its timer, the
  listing that a stdio check starts when its time is over).
- `Scheduler` leaves out that `listRegisteredServers` itself may throw at the
  start of a cycle: a rejection that nobody handles.
- In `Sessions` a session object is created once (`randomUUID`), and whether the
  SDK refuses or fails an initialization is a free choice. A request of a session
  finds it, renews it and is handed to its transport in one step; what the
  transport does with it afterwards is not followed, but for DELETE. In `HttpEndpoint` a
  stateful request is an answer that may never come; what it does is `Sessions`.
- A pipeline's id is the pair of its project and its name: ids mean something in
  their own project only. An encryption key is what a restart may change; a row
  whose token it does not decrypt is not `readable`. Runs are known by build id,
  status and result; `register_azure_pipelines` changes nothing until its list
  has arrived. The three attempts of `azureGet` and the sleeps between them are
  part of one wait, since nothing is read or written between them; so are the
  timeline and the logs of `getPipelineLogs`.
- The SQL of the first two migrations is the schema that `Registry` and
  `Pipelines` start from; only the third changes rows.
- `MaxClock`, `MaxId`, `MaxCount`, `MaxBuild`, `MaxFaults` and the number of
  call slots bound the models; they are guards named in the modules. `IdsLeftFor`
  and `IdsLeft` start a call only when ids are left for its checks (two for one
  of `check_all`, which may insert twice), so that no check is stuck by the bound.

## Runs

| Run | Question | Bounds |
| --- | --- | --- |
| `MCRegistry` | Do keys, cached columns and streaks agree with the history, and does pruning cut prefixes and keep up? | two servers, four checks, four instants, pruning one row at a time: enough for a limit below the number of expired rows, equal timestamps, and registering again |
| `MCMonitor` | Do the calls over two servers, with failing statements and crashes, implement `RegistrySpec`, answer only what is recorded, and alert only for a run? | servers of a checked and of a refused (stdio) kind, two slots for calls, three ids at one instant: three checks one after the other or, of `check_server`, at once, or a `check_all` of one server whose check is recorded twice. A `check_all` that awaits two servers would need four ids, and pruning a second instant: both are left to the theorems and to `MCMonitorTime` |
| `MCMonitorTime` | While time passes and history is pruned: does the streak alert mean a run, is an uptime alert wrong by the rounding at most, and is each call answered? | one server, two slots for calls, two instants, three ids (two `check_server` or `check_all_projects` calls overlap, or one of them and a `check_all`), failing statements, no retention and a window of one tick; thresholds of 33.2% and 67% where 1 of 3 and 2 of 3 are up, so that both the false alarm and the missed one are near |
| `MCMonitorCrash` (violated) | Does the alert mean a run across a crash? | one call |
| `MCMonitorRounding` (violated) | Is an uptime below the threshold never missed? | one call, three checks |
| `MCMonitorSummary` (violated) | Does `check_all_projects` count exactly the servers that are up? | one call |
| `MCScheduler` | Is each due server checked once, by a full pool, under the right policy; do cycles end and due servers get checked? | three servers for two workers, intervals of one and two ticks, period two; started with either policy or, as the stdio entry does, without; records that fail any number of times |
| `MCSessions` | Do the Map and its lazy pruning implement the store, within the cap, with nothing open but what it knows and what the SDK refused, with deterministic answers? | five sessions for two places, lifetime of three ticks |
| `MCChecker` | When does a check end, how, and what does it leave? | budget of five ticks, probe of three, close of two: every phase can outlast what is left |
| `MCPipelines` | Do groups stay whole, is what is recorded stale only by overlap, do calls end and leave nothing behind? | one group of two pipelines, one of which may move to a second project; one build of it, started and completed; two calls of any fetching tool; failing requests, statements and transactions, restarts with another key |
| `MCSharedDatabase` | Does everyone who opens the file get a migrated one, and what do overlapping records spoil? | two processes, one server, three checks, files of every version with up to two rows of one build, one death or failing transaction: one overlap, its damage and its repair fit |
| `MCHttpEndpoint` | What is served under which configuration, what stays open, how much is let through, who is denied, does everything end? | all 128 configurations, all combinations of headers, one connection, two clients, two requests in two ticks: two windows and a denial fit |

One connection suffices in `MCHttpEndpoint`: requests share only the limiter,
which sees them one after the other; `EndpointProofs` holds for any number. In
`MCPipelines` the two projects never number their builds alike, so the case of
`StaleOnlyIfInFlight` for a pipeline that moved to such a project is reached by
the proof alone.

The three violated runs are the findings of `PROJECT.json`:

1. A crash between the INSERT and the UPDATE of an up check lets the failures
   around it raise the alert "this many non-up results in a row"
   (`README.md:83`).
2. The uptime is rounded before it is compared with the threshold
   (`README.md:82`): 2 of 3 is not below 67. The same rounding raises false
   alarms under thresholds that are not whole: with 181 of 182 up, 99.45, and a
   threshold of 99.42 the rounded 99 is below it.
3. The summary of `check_all_projects` counts a check whose record was refused
   (its server was unregistered meanwhile) as up.

Three more statements of the documents are not what the code does. No run is
made of them, since each can be read off a few lines:

- `docs/security.md:40-42` disables stdio processes in HTTP mode unless the
  deployment asks for them. `stopScheduler` sets the policy to undefined
  (`src/src/scheduler.ts:121-130`) while a running cycle goes on and reads it for
  each of its remaining checks, and `checkServer` lets undefined through
  (`src/src/checker.ts:273`). `CyclePolicy` therefore speaks of cycles that were
  not stopped, and `ServedAsConfigured` and `NothingLeftOpen` say that in the
  HTTP endpoint such a cycle is found only after the endpoint has closed.
- `docs/usage.md:36-39` and `docs/security.md:77` say that local stdio checks are
  disabled unless `HEALTH_MONITOR_ALLOW_STDIO=1`. The stdio entry starts the
  scheduler without a policy (`src/src/mcp.ts:29`), so its scheduled checks run
  stdio commands whatever that variable says; `Scheduler` has this policy,
  "undefined", beside the other two.
- `docs/usage.md:112` calls the number of retained rows "total health checks
  performed".

What else does not hold in the code we found in no document. It is bounded by a
property: a completed run may go back to in progress when two calls overlap
(`StaleOnlyIfInFlight` says only then); two processes may leave a wrong streak
(`AgreeUnlessRaced` says until when); `getDb` throws in the process that loses a
migration race (`OpensEventually` says its next attempts succeed); a failing
record of one pipeline answers its group with an error while the other fetches
of the group go on to record (`LateOnlyAfterFailure`); an `initialize` that the
SDK refuses without throwing leaves a server and a transport connected that no
table knows and nothing ever closes, not even the end of the HTTP server
(`OpenIffKnown` says that these are all that is left open).

### Fairness

- `Monitor`: strong fairness of each check's return and of each response. A
  check ends because the checker bounds it (`Checker`'s `CheckEnds` and
  `EndsInTime`); what is ready on the event loop runs in first-in, first-out
  order, so a step that is ready again and again, between catch blocks of other
  calls, is taken. No fairness for callers, the clock or crashes.
- `Scheduler`: weak fairness of time, of the timer and of each check's end, for
  the same reasons. Tools, registrations, starts and stops are unfair.
- `Checker`: weak fairness of time and of expired timers, and closing ends
  within `CloseTime`. The server checked need never answer.
- `Pipelines`: weak fairness of each fetch's end, of each handler that has its
  answer, and of responses. `fetchWithTimeout` bounds the wait for the headers of
  each attempt and the attempts are three; the body that follows has no limit in
  the program, only the runtime's own. Azure, callers, registrations and
  restarts are unfair.
- `SharedDatabase`: weak fairness of each process's steps towards an open file,
  since every tool calls `getDb` again; failures are bounded by `MaxFaults`,
  because without a bound they may go on for ever.
- `HttpEndpoint`: weak fairness of time and of what the server does with a
  request it reads or handles: Node's request timeout ends a body that does not
  come, and a stateless handler settles. A session's answer, a client that
  leaves, and the closing of the server are owed by nobody.

Deadlock is checked in every run.

## Proofs

All theorems hold for every value of the constants that meets the named
assumptions: any servers, calls, thresholds, retention, pruning limit, budgets,
sessions, caps, connections, processes, pipelines and builds.

`RegistryProofs`. Inductive invariant: the types, finiteness of the table, the
three table properties, and `IdsFollowTime`, which says that ids are unique and
grow together with timestamps, up to the counter and the clock. Neither
`LatestAgrees` nor `StreakAgrees` is inductive without it: pruning orders by
(timestamp, id), and only because both grow does it cut a prefix of each
history (`OldestGone`, `PrunedIsRecentPart`), which leaves the newest row
(`LatestOfRecentPart`) and the streak after the last retained "up" check alone.
Theorems: `TypeCorrect`, `ReferentiallySound`, `LatestSound`, `StreakSound`,
and the action properties `HistorySound` and `RetentionSound`. The last compares
cardinalities: an expired row goes if fewer than `PruneLimit` expired rows are
before it, which holds of all of them when there are few, and otherwise at least
of the oldest, which exists because the table is finite (`SomeOldest`).

`MonitorProofs`. `ImplementsRegistry`: each step of the handlers, whichever
statement fails or wherever the process dies, is a step of `Registry` or none;
so the table properties hold for the concurrent program (`TablesSound`).
`CallsOK` is the inductive invariant of the calls. `AnswersSound`: an answer
"up" is the row just inserted, from `OnlyAnswersAnswer` (no other step fills in
an answer) and `RecordKeepsNewRow` (the new row survives its own pruning and is
the newest). `AlertsSound`: the streak alert is raised exactly for a run of
non-up checks; from `StreakAgrees` after the step, the total order of checks and
positive thresholds. `UptimeAlertsNear` says how far the rounding (finding 2)
goes, for any threshold: an alert is raised wrongly only if the uptime is above
the threshold by half a percent at most, and missed only if it is below by half
a percent at most. Under a whole threshold no alarm is false, since what rounds
to less than a whole number is less than it (`WholeAbove`, `RoundedAlert`).
`CallsAnswerWhole`: from start to response a call has the same servers, waited
for or answered, and revokes no answer; so the response covers what the call was
started for: of `check_all` what its tags selected of the registered servers.
`SummaryExact` needs that these sets are finite (`FinitelyMany`), and says how
far finding 3 goes: the count of `check_all_projects` is off by exactly the
checks that were refused or whose record failed.

`CheckerProofs`. Inductive invariant: in each phase and attempt a bound on
`elapsed + timer`, the moment the pending timer fires (`Deadlines`), which
clients are open in which phase (`Shape`), and what the verdict so far rests on
(`Answers`). `EndsInTime` is not inductive: a step from one phase into another
keeps it only because of the bound of the phase it leaves. Theorems:
`TypeCorrect`, `ChecksEndInTime`, `NoClientLeft`, `VerdictsSound`.

`SchedulerProofs`. The properties are inductive together once the tables and
the pool are known to be finite (`AllFinite`): a cycle's choice of the first
workers' servers exists because a finite set of integers has a least member
(`HasLeast`, `FirstsForm`). Induction is out of the prover's reach; the lemma
follows instead from the library's fact that strict inclusion of the subsets of
a finite set is well founded. Theorems: `TypeCorrect`, `DueOnce`, `PoolFull`,
`PolicyKept`.

`SessionsProofs`. The invariant adds to the properties that positions in the
Map are distinct (`RanksDistinct`), so that eviction has exactly one victim, and
that refused sessions are never in the Map (`RefusedApart`), so that what closes
the sessions of the Map leaves the refused ones as they are. Theorems: `CapHolds`,
`EndsClosed`, `AnswersSound` (the answer depends on the clock, not on what was
pruned), and `Refinement`: each step of the Map, with its lazy pruning, is a
step of `SessionStore` or leaves the live sessions alone. An entry that expires
first is the least recently used one because all have the same lifetime.

`EndpointProofs`. `GatesHold` (what a request in a handler has passed),
`StartHolds` (what the phase says of configuration and scheduler) and
`ServersHold` (in which stages a MonitorServer is open) strengthen
`ServedAsConfigured` and `NothingLeftOpen`; neither is inductive, since the
first needs that the process listens only after validation, and the second that
nothing is in progress when the process ends. Of the scheduler only a cycle that
was running then is left, and that without its policy. `ImplementsLimiter`: the limiter in
the endpoint behaves as `RateLimiter` alone. `SlidingBounded` and `DenialsSound`
are about sums over a window, and need no induction over its ticks because the
model keeps the sums themselves (`allowed[k][i]`: requests of `k` allowed in the
last `i` ticks). `InBudget` relates each of them to the open bucket: within the
bucket's age less was allowed than it counts, since the request that opened it
is as old as the bucket; beyond it at most a window's limit less one is added.

`DatabaseProofs`. `OpenMeansMigrated` needs `MissingKnown`, that a process which
is migrating knows of every version that is still missing, although others
apply some of them meanwhile, and `DedupedOnce`, that the rows were reduced by
the third migration and by nothing else. For what is done in the open file,
`SharedInv` says of every record that nothing has disturbed that it read the
streak its server still has, that no row of its server is newer than its clock,
and that its UPDATE will write what the history calls for (`AloneHolds`); and
of every server without a record between its two statements that its columns
agree with the history unless a disturbed record wrote them (`RowAgrees`). The
invariant of `RegistryProofs` is of no use here: records that overlap insert
rows out of the order of their times. `RacesRepaired` follows, for any number of
processes; `SharedTypesCorrect` adds that only a process which has the file open
writes to it.

`PipelinesProofs`. The invariant says that whatever is recorded or in flight
was reported by Azure, whose builds only move on (`Reported`); that a fetch not
marked as replaced asks for the id in its row; and that an unfinished answer in
flight for a build that is already recorded as finished is marked as overtaken
(`FetchOK`). An answer arriving keeps the last part because Azure cannot report
as unfinished what it reported as finished. Theorems: `TypeCorrect`,
`RegistrationKept`, `LateSound`, and the action property `StaleBounded`.

Model-checked only: liveness, which is out of the prover's reach
(`EveryCallEnds`, `CycleEnds`, `DueIsChecked`, `CheckEnds`,
`EveryPipelineCallEnds`, `OpensEventually`, `WaitEnds`, `RequestsEnd`), and that
the three findings do occur. Every other property of a run is a theorem.

## Not modelled

- The reading tools (`list_servers`, `get_history`, `get_dashboard`, reports):
  they change nothing, and what they read is covered by the table properties.
- What the SDK's transport may throw for a request of a known session: it is
  handled outside any try, and a rejection there ends the process by Node's
  default. `HttpEndpoint` assumes that a session's request is answered or waits.
- Environment parsing, schemas, logging, the version string, the webhook helper
  (no other file calls it) and the stdio entry (it starts and stops the
  scheduler and opens the database, which `Scheduler` and `SharedDatabase`
  have): no state that another part reads. Scripts, docs and packaging are
  not part of the running program.

## What could follow

- A clock that steps back: what is left of `LatestAgrees` then, and for how long.
- Percentiles and dashboard status as operators against reference definitions.
