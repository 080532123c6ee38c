# MCP Foundry: TLA+ models and proofs

TLA+ modules for the parts of MCP Foundry that are hard to test: the Postgres job
queue and the workers that drain it, the pipeline those workers run over the
servers table and the spec files, the gates a spec passes before it is deployed,
the runtime host that serves it, the creator's users and limits, the pages that
show it all, and the migrations and processes under it. TLC checks them on small
instances; TLAPS proves the central ones for all.

## 1. Inventory

| component | state | operations | talks to |
|---|---|---|---|
| creator-mcp tools (`apps/creator-mcp/src/tools`) | none of their own | `create_mcp_server`, `refine_mcp_server`, `delete_server`, and reading tools | enqueues jobs, reads `servers`, `jobs` |
| creator-mcp authentication and limits (`auth/`, `repos/`, `rate-limit/`) | `users`, three maps of token buckets | issue a token, find or create a user, consume a token of a bucket | `users`, the tools |
| job queue (`packages/db/src/queue`) | `jobs` (stage, attempts, lock), `status_events` | `enqueue`, `claim`, `complete`, `fail` | Postgres |
| worker loop (`apps/worker/src/loop.ts`, `run-job.ts`) | the job in hand | claim, dispatch, report | queue |
| stage handlers (`stage-machine/handlers`) | none of their own | generating, building, validating, probing, deploying, delete | `servers`, spec files, LLM, upstreams |
| servers table (`server-repo.ts`) | status, slug, public_url, probe_result, idempotency_key | insert by key, update by id, soft delete | handlers, dashboard, runtime host |
| spec files (`local-file-deployer.ts`) | `{SPEC_STORE_DIR}/{slug}.json` | write, remove | worker writes, runtime host reads |
| generator (`packages/generator`) | none | request, hints, LLM and OpenAPI answers to a spec | LLM, OpenAPI fetch |
| policy validator, spec interpreter (`packages/validator`, `packages/spec`) | none | load, rules, validate and bind arguments, one call | called by worker and runtime host |
| compliance check and probe (`apps/worker`) | an ephemeral MCP server, samples | Inspector runs, latency samples, verdict | subprocess, upstreams |
| egress guards (`egress/`) | none | resolve, refuse, send to the address checked | DNS, upstreams |
| dashboard actions (`server-actions.ts`) | none | disable, enable, delete | `servers`, `jobs` |
| dashboard views (`pipeline.ts`, `failed-creates.ts`, pages) | none | list of servers, page of a job | `servers`, `jobs`, `status_events` |
| runtime host (`apps/runtime-host`) | resolved-spec cache, response cache, breaker, limiter | resolve a slug, run a tool call | registry (database and file), upstreams |
| migrator (`packages/db/src/migrator.ts`) | `schema_migrations`, the schema | list, run and record each file | Postgres |
| all-in-one supervisor (`deploy/all-in-one`) | child processes | migrate, start, stop | processes, platform |

Nearly everything meets in Postgres and in the directory of spec files: there are
no messages between the processes. What is hard follows from that. Several workers
race for one row whose lock is a timestamp; a report checks the lock and writes in
two statements, and its COMMIT may go unanswered; a handler reads, waits for a
network, and writes by id; workers crash between any two steps and another picks the
job up; the runtime host caches what it read of two sources at two moments; requests
of one process share buckets and a users table across their awaits; a page is put
together from two queries; replicas migrate one database at once; and every upstream
may be slow, wrong or silent.

What makes each part correct: for the **queue**, one worker per job while locks
hold, every job ends, progress is never lost, applied twice or overwritten, events
agree with stages. For the **pipeline**, only probed and deployed servers are up, one
job's failure leaves others' servers alone, a server's file and URL are its own,
refines are delivered. For the **gates**, what passes was really measured, what fails
deserved it, no argument is lost, they end and write nothing. For **requests**,
no limit is exceeded over any stretch of time, and who comes back with a token is
listed what was created with it. For the **views**, nothing is missing and no
progress is shown that was not made. For the **runtime host**, bounded concurrency
without lost wake-ups, a breaker whose columns agree, bounded staleness. For
**migrations** and **supervisor**, the ledger tells the schema, services run on the
whole of it, replicas come up and go down whole.
The full list of hazards, with source lines, is in `PROJECT.json`.

## 2. Modules

| module | models | checked by |
|---|---|---|
| `JobStages` | stages, job types, the next stage of each | through its users |
| `JobLifecycle` | abstract: what the queue promises for one job | refined by `JobQueue` |
| `JobQueue` | `PgQueue`, `loop.ts`, `run-job.ts`, worker processes | `MCJobQueue`, `JobQueueProofs` |
| `Pipeline` | the stage handlers, servers table, spec files, dashboard actions, composed with `JobQueue` by `INSTANCE` | `MCPipeline`, `PipelineProofs` |
| `OwnerView` | the dashboard's pages and `get_job_status` over all of `Pipeline` | `MCOwnerView`, `OwnerViewProofs` |
| `ToolSpecs` | a server spec: `loadServerSpec`, `validateSpec`, argument checks and binding | through its users |
| `Generator` | `generateSpec`, `finalizeSpec`, wrapper, templates, the LLM's retries | through `Gates` |
| `UpstreamCall` | one `executeTool` with its guarded fetch | through `Gates` |
| `Gates` | the three stages before a deployment: generator, compliance check, probe | `MCGates`, `GatesProofs` |
| `TokenBucket` | `createTokenBucketLimiter` | through `Requests` |
| `Requests` | the requests to `creator-mcp`: tokens, users, limits, accounts | `MCRequests`, `RequestsProofs` |
| `ToolCalls` | `runToolCall`, breaker, cache, limiter | `MCToolCalls`, `ToolCallsProofs` |
| `ServerPool` | `McpServerPool.resolve`, the two-step registry, the file being written | `MCServerPool`, `ServerPoolProofs` |
| `Migrator` | `runMigrations`, several at once on one database | through `Supervisor` |
| `Supervisor` | `start.mjs` of several replicas, each with its migrator | `MCSupervisor`, `SupervisorProofs` |

**JobQueue.** `stage`, `type`, `attempts`, `lockedBy` are columns of `jobs`; `stale`
says that `locked_at` is older than `staleLockMs`; `lastEvent` is the newest
status event in the order in which they are read, that of `at`, which is the time at
which the writing transaction began: where a worker that lost the job writes to it,
either worker's event may be the newest, and `lastEvent` is `Overtaken`. A worker is
`idle` (its process may also be down), `running` a handler, `reporting` (about to SELECT
the row), `writing` (has seen the row, about to UPDATE and COMMIT), `doubting` (its
COMMIT took effect and was not answered, and the catch block is about to report
again) or `exited` (its loop rejected). `TakeLock` is the single UPDATE of `claim`;
`AssertLockOwned` and `AssertLockLost` are `assertLockOwnedBy`; `Complete` and `Fail` are
the statements after it, with the COMMIT. Because `assertLockOwnedBy` takes no row
lock, `Claim` by another worker may come between. `LastReport` says that the report is
the catch block's: if that throws too (`AssertLockLost`, `LastReportErrors`,
`CommitUnanswered`), or the claim before the try block does (`ClaimErrors`), the loop
rejects. `Crash` is what ends a process without its loop. `SlowJobs` are the jobs a live worker
may run for longer than `staleLockMs` (60 s by default; a probe of a spec with many
tools is enough, and nothing renews the lock); the others' locks only go stale
when their worker has gone.

**Pipeline.** It composes with the queue: every step is a queue step (or none)
together with what it does to the rest of the state. A worker's `step` says how far
its handler is; a handler that awaits a file operation and then a statement is
split there. `parsed`, `server` are `parsed_spec`, `server_id`; `patch` is what an
advance will write to the job in the queue's transaction. A spec is its slug and
its body; the idempotency key is the generated body, since one body is generated
with one slug. `InsertRow` follows `INSERT ... ON CONFLICT (idempotency_key)`: the
key decides first, then the unique slug, deleted rows included. `owner` is the user the
row was inserted for, `UserOf` the user of each create job: the key does not contain
the user. `dash` is a dashboard action between its check and its update. All jobs are
quick here, so the handler's copy of the job and the row agree: that is theorem
`Exclusion`. A COMMIT without an answer is not a step of its own: to the rest of the
state it is a report followed by a crash; nor is a loop that rejects, which leaves the
job as a crash does. `writeFile` truncates (`DeployOpen`) and then writes
(`DeployWrite`): a file is a spec, `Empty` in between, or `Mixed` where two workers have
written over each other. A spec is short and written at once, so that a worker that
dies leaves an empty file, and not a part of one. Where a delete has removed the name,
the write goes to a file that is no longer there (`DeployWriteLost`). `revived` are the
rows that an enable has made active; nothing reads it.

**OwnerView.** The whole of `Pipeline` plus the reads. `page` holds what the first of
a page load's two queries returned; the second completes the page. `JobsOf` and
`RowsOf` are the two WHERE clauses, `DoneStages` is `derivePipeline`, `JobStatus` is
`get_job_status`.

**ToolSpecs, Generator, UpstreamCall, Gates.** A tool is the record of what the rules,
the gates and the interpreter look at: parameters with types, which of them are
required, where each goes (url tokens, query, body), method, kind of url, hints. A
url template is one of the kinds that decide what a request to it does. `Generator`
is one action for each wait of `generateSpec`; the LLM answers anything in
`Descriptor`, throws, or gives an invalid answer. A descriptor that comes with the
request is taken as it is, as in the code. In `UpstreamCall` the abort timer is armed
before the lookup and listened to after it, as in `execute.ts` and
`send-pinned-request.ts`; `elapsed` counts ticks of the call up to its timeout.
A rendered text holds values of the upstream and the tool's title, so it may also
contain the phrases of an error: `Rendered` has it "reads transient" and "reads fatal",
which only matters to who looks for phrases. `AnswerThrows` is the answer of which no
`Response` can be built; the process ends, and `WorkerDies` starts the stage anew.
`Gates` drives both: the Inspector's list and calls, then the samples of every
read-only tool, their retries, classification by text, and the verdict. `answered`,
`worst`, `silent`, `misread`, `heard` and `wrote` record what the upstream really did;
nothing reads them.

**TokenBucket, Requests.** A bucket is counted in parts of a token, so that the
continuous refill is exact: `interval` parts are one token, and a unit of time adds
`capacity` parts. An action of `Requests` is the code between two statements a request
waits for: the middleware issues a token or takes the header's, `findOrCreateByAuthRef`
is a SELECT and an INSERT, the tool asks its limiter, then `resolveOwnerIdentity` may
swap the account for that of the `owner_token` argument. A refine or a delete enqueues
for the user of the server's row, whatever token it came with
(`refine-mcp-server.ts:38-42`, `delete-server.ts:44-47`), which here is the user of the
job that created the server; `Given` is the token a create was asked for with, or that
its answer announces. Hashing is taken to be injective. `Users` are the ids the table
gives out, as many as there are tokens: the unique constraint leaves no room for more (`UsersFit`).

**ToolCalls.** One slug, as all three registries are keyed by slug. An action is
the JavaScript between two real waits. `failures` stops at the threshold, beyond
which the code only compares it; `breaker` is `openUntil` null, future or past. A call is
`deaf` when its abort came during the lookup of its host (`AbortUnheard`): it still
holds its slot, and only its upstream ends it. `AnswerKillsHost` ends the process and
begins anew with empty maps.

**ServerPool.** One slug; time in ticks. A resolution reads the row, then the file,
then stores, in three steps; a resolution takes at most `ReadTicks`. `file` is
`None` while a deployer is writing, since half a JSON document does not parse.
`offFor`, `lostFor`, `denied`, `late` are history variables that nothing reads.

**Migrator, Supervisor.** A migrator lists the applied ids once, then runs each file it
has not seen in a transaction: `ChangeSchema` takes the lock that PostgreSQL's DDL takes,
`Record` is the INSERT with its primary key, `Commit` ends the transaction. `schema`
counts how often each file's SQL was committed; `Rerunnable` are the files whose SQL
succeeds a second time. `Supervisor` has one migrator per replica; `main` is how far
`main()` is, `children` the services that run, `stopping` and `code` what `shutdown` was
given. Node's rule that a process ends by itself when nothing is left to wait for is
`NothingLeft`.

Definitions whose comment starts with "Mutant:" are plausible wrong versions of the
definition that follows; no specification uses them. `PROJECT.json` says which
property each one violates.

## 3. Runs

Passing:

| run | instance | shows |
|---|---|---|
| `queue_safety` | 3 workers, 1 slow job (create or delete), `MaxAttempts` 3 | lock, attempts and events stay consistent under stolen locks, refused statements and unanswered COMMITs |
| `queue_progress` | 2 workers, 2 quick create jobs, `MaxAttempts` 2, with fairness | one worker per job; the queue implements `JobLifecycle`; no handler ends a worker's loop; all jobs end once crashes and refusals stop |
| `pipeline_creates` | 2 workers, 2 create jobs, specs equal or with one slug, `MaxAttempts` 3 | what is up was probed; failures stay with their job |
| `pipeline_servers` | 2 workers, 2 jobs of any type, distinct slugs, `MaxAttempts` 5 | an active server has its file, a whole one if nobody meddled; files and URLs come from a server's own jobs |
| `owner_view` | 1 worker, 2 create jobs of two users, page loads at any time | no creation is missing from its owner's page, no progress is shown that was not made |
| `gates` | 14 descriptors and 7 other requests, 2 samples, 1 retry, timeout 3 ticks, gate 2, with fairness | what is deployed was measured, what failed was slow or read as an error, arguments arrive, stages end unless answers kill the worker for ever |
| `requests` | 2 requests in flight, 3 in all, one address, one made-up and three minted tokens, clock to 2 | budgets over every stretch of time; a token lists exactly what was created with it |
| `tool_calls` | 5 callers, 2 slots, threshold 3, with fairness | limiter and breaker invariants; no queued call starves while lost aborts leave a slot |
| `pool_staleness` | 2 requests, 2 specs, TTL 2, `ReadTicks` 1 | bounded staleness of status and spec |
| `deployment` | 2 replicas, 2 migrations (one rerunnable), 2 services, with fairness | racing migrators never apply a file twice or half; no service on an old schema; replicas go down and come up whole |

Runs that end in a violation state what a comment of the repository says, and the
trace shows where the code does otherwise:

| run | what the trace shows |
|---|---|
| `pipeline_refine` | a refine of an active server runs every stage and ends active; the resume check of `deploying.ts:25` has skipped the deployment, and the old spec stays up |
| `probe_side_effect` | a descriptor whose method is spelled "post" becomes a POST tool with `readOnlyHint` (`build-spec.ts:42-51`, `:73`), which the gates call for real: the Inspector's call in `validating` is the first to write |

### Further behaviour

The models also exhibit the following. No property promises it away.

Queue and worker:

- a stage that outlasts its lock makes the report throw and then the catch block's own
  report; the loop rejects and the process ends. So it does when the database refuses
  that report or a claim (`loop.ts:28`, `:18`), or its answer or that of a COMMIT is lost;
  `loop.ts:26-27` says "never let one bad job crash the worker process". `ExitsHaveCause`
  says that these are the only ways: nothing that a handler does is one;
- `status_events.at` is the start of the transaction (`0001_init.sql:73`), and the events
  are read in its order (`status-event-repo.ts:26`): a worker that lost a slow job and
  commits late may leave a newest event of the other worker, which then disagrees
  with the stage until the next report;
- the first exception of a job, at `deploying`, is terminal, since five claims were its
  five stages (`pg-queue.ts:77`), while `loop.ts:25` says "treat it as retryable";
- a job that kills its worker each time is claimed for ever: attempts are only
  compared when a worker lives to report;
- a report can be written after another worker has claimed the job, since
  `assertLockOwnedBy` takes no row lock (`pg-queue.ts:18`); `OwnedRowAsClaimed` and
  `EventMatchesStage` are what still holds then;
- the worker's `index.ts` means to finish the job in hand on SIGTERM, and the all-in-one
  supervisor exits two seconds later whatever its children do.

Pipeline:

- a crash between the INSERT with a de-collided slug and the advance loses the new
  slug; the retry finds the row by its key and deploys over the other server's file
  (`building.ts:37`, `:57`), while `building.ts:43-45` says that the new slug is persisted "so
  the deployed file and public URL stay consistent with the server row";
- a delete that runs between the deployer and the update to active leaves an active
  server without a file (`deploying.ts:30`), while `status.ts:23-24` says "deleted" is
  "permanent, spec file removed". An enable that a delete overtakes does the same;
- a deployment that is cut off by a crash leaves an empty file, since `writeFile` truncates
  first. The retry writes it again, unless the server has become active meanwhile: a
  create that shares the row of a disabled server begins to write, the owner enables the
  server, and the resume check of `deploying.ts:25` then takes the row for its own
  deployment. Two jobs that share a row may both have passed that check, so that one truncates
  the file of a server that the other has made active. These are the exceptions of
  `ActiveHasFile`, while `deploying.ts:7` says of the check "if this exact deploy already
  completed";
- a refine of a disabled server, or a create that shares its row, makes it active, as
  `deploying.ts:31` does not look at the status;
- the idempotency key does not contain the user (`building.ts:30`, `hash.ts`): a second
  user's identical create runs on the first one's row and never shows in the second
  user's list;
- a job that dies after its INSERT and fails for good before `server_id` is written
  leaves the row in `building` (`pg-queue.ts:78`).

Views:

- a list of which the servers are read before the jobs hides a create whose row was
  inserted in between, for that one load (`CreatesAreShown` allows exactly this);
- `get_job_status` says "deployed" of a finished delete job whose server has a public
  URL, and "in progress" for ever of the delete of a server that was never deployed;
- `pipeline.ts:24-26` says that there are "no per-step failure rows", but
  `PgQueue.fail` writes them, and the code relies on them;
- the row of the previous item keeps the list's `AutoRefresh` running, although its
  comment says that it "stops automatically once everything is settled".

Gates:

- an abort timer that fires during the DNS lookup is never heard by the request that
  follows: only the upstream or its connection can end it. The probe's options call the
  timeout a "per-request upstream timeout" (`probe/types.ts:9`). `GatesEnd` assumes that this
  does not happen while probing; while validating, the Inspector's own timeout helps;
- `validating.ts:8` says that an infrastructure error of the compliance check retries, but
  an Inspector process that fails or times out is a violation, and fails the job for good;
- an upstream slower than the call's timeout is "timed out", thus transient and retried,
  rather than slow;
- `classify.ts:19-33` looks for the phrases of errors in the rendered text, which holds values of
  the upstream and the title of the tool: a fast answer of 200 whose JSON says "Invalid
  parameters" fails the job for good, and one that says "Upstream request timed out"
  is retried as if there had been none. `classify.ts:4-7` says that the string is
  classified "against executeTool's known, stable error messages", and `:15-17` that "ok" is
  "a response was obtained (any status code)". `VerdictIsDeserved` names the case;
- an answer with a status that forbids a body (204, 205, 304), or that is out of
  range, makes `new Response` throw inside the event callback (`send-pinned-request.ts:16`, `:53`), and
  the worker, or the runtime host (`:59`), ends with an uncaught exception, while `execute.ts:18`
  says "nothing throws out of this function". The job is claimed again when its lock is
  stale, and for ever if the upstream answers so each time;
- `docs/acceptance-report.md:87` says that the probe takes 5xx and timeouts for transient and all else
  for fatal; `classify.ts` takes 4xx, and answers that are not JSON, for answers, as its tests
  do, and `GateHolds` counts them so;
- an optional parameter that is a token of the url and is not given leaves the literal
  `{token}` in the url;
- no call of the gates comes back for its arguments or its url, the two causes that
  `classify.ts` has for "fatal": building the fetch guard has thrown before, which is a
  retry. Only the text of an answer leads there. Likewise the policy check of
  `validating` repeats what `finalizeSpec` has checked, and never fails
  (`BranchesNeverTaken`).

Runtime host and deployment:

- an old resolution may cache a disabled server after a newer one answered 404
  (`mcp-server-pool.ts:97`), while `:79` says "Drop any stale entry so a
  now-disabled/deleted slug stops being served"; `StatusShows` is the bound that holds;
- calls that queued before the breaker opened still go to the upstream
  (`build-mcp-server.ts:47`), and the success of one closes the breaker within its
  cooldown (`circuit-breaker.ts:40`);
- an abort during the lookup of a tool call is lost in the runtime host as well
  (`execute.ts:47`, `send-pinned-request.ts:63`), and a silent upstream keeps the slot for ever;
  as many such calls as there are slots stop the server's tools for good.
  `EveryCallServed` assumes that they do not come to that;
- `local-file-deployer.ts:17-20` says that a new spec of an existing slug "will only be picked
  up once that process's cache entry is naturally evicted (currently: never, short of a
  restart)". The TTL of `mcp-server-pool.ts` evicts it since: `SpecShows` is the bound that
  holds once a file has been written (that a refine of a healthy server writes none is
  `pipeline_refine`);
- after failed migrations nothing keeps the supervisor alive, the timer of `shutdown(1)`
  being unref'ed, and the container ends with code 0. With a platform that restarts on
  failure only, `EveryReplicaServes` would not hold: the run's `RestartCodes` is {0, 1}.

**Bounds.** `queue_safety` has three workers over one job: the one that lost it, the one
that has it, and one that claims what they leave; two jobs, in `queue_progress` and
`Pipeline`, let one interfere with the other through the
claim order, a shared row, a slug or a server. `AttemptCap` stops the count of attempts;
5 is the smallest that keeps `AttemptsCoverStages` meaningful, and `MaxAttempts`
never exceeds it. `MaxAttempts` is small in the large runs so that retries that run out
are reached early, and 5, the default, in `pipeline_servers` and `pipeline_refine`.
The queue's own runs enqueue create jobs, the longest
pipeline, and deletes, the shortest; all types run in `Pipeline`, and the theorems hold for all.
`Pipeline` has one dashboard action in flight. `owner_view` has one worker, since a page
relates a job's row to its server, and two workers add no pair of values to that; two
users make the shared row and the two lists. In `gates` one job passes at a time (jobs
share nothing there); the timeout is above the gate, so that an answer can be in time,
slow, or too late; two samples and one retry make the counts of a sample and of a tool
differ. In `requests`, three requests over two slots give overlaps and one request
after them; bursts of two and one over a clock of two run dry and refill.
`MaxRequests` bounds all requests, `Horizon` the clock. `Horizon` in
`ServerPool` is above `Ttl + ReadTicks`, the largest age a property compares. Five
callers over two slots give three waiters, so hand-overs overtake arrivals. Two
migrators over two files, one of which fails when run again, give every order of
list, change, record and commit; the theorems are for any number.

**Deadlock** is checked except in `gates` (a job that is deployed or has failed is the
end), `requests` (the requests and the clock run out) and the three runs of `Pipeline` (all
jobs may have ended while no server can be disabled or enabled).

**Fairness.** `JobQueue!Fairness`: a worker loop that can take a step does
(handlers end, which for the two gates is `GatesEnd`), `docker-compose.yml`
restarts a dead worker, and time passes. `EveryJobSettles` also assumes that
crashes stop, and that the database does not refuse claims and reports for ever
(`FaultsStop`). `Gates!Fairness`: the worker, lookups, clock and timers go on;
nothing is assumed of upstreams or of the LLM, and generating is not claimed to end.
`GatesEnd` assumes that answers do not kill the worker for ever, without which it is false,
and of probing that no abort is lost.
`ToolCalls!FairSpec`: a call at its upstream ends by `executeTool`'s timeout, unless its
abort was not heard; `EveryCallServed` also assumes that from some time on fewer such calls
than slots are there (`SlotsRemain`). `Supervisor!FairSpec`: the event loop and PostgreSQL
go on, the exit timer fires and the platform restarts; `EveryReplicaServes` also assumes that faults stop.

## 4. Proofs

`JobQueueProofs` proves, for any workers, jobs and attempts, the inductive invariant
`IInv` = types, `OwnedRowAsClaimed`, `ExclusiveRun`, `AttemptsCoverStages`,
`FinishedUnlocked`, which tie one another together: a
worker only leaves its claim through a report or a crash, and a lock is only taken
from it when it is stale. Mutual exclusion alone is not inductive: it needs that
the row is at the stage the worker claimed, which needs the lock, which needs
`stale` to be false while a quick job runs. A report whose COMMIT was not answered
cannot be applied twice because the lock went with it. From `IInv` follow the safety
theorems, `EventsTellStages` (with the fact that no event names the stage of a job that
does not exist; only a worker that lost the lock leaves an `Overtaken` event, which by
`ExclusiveRun` is one of a slow job), `ExitCause` (with the fact that a worker in doubt has
an unanswered report; the lock of a quick job is never lost) and `Implementation`: every
step maps to a step of `JobLifecycle` or to a stutter, where `running` is mapped to "some
worker runs the job", and an unanswered COMMIT ends the run.

`ToolCallsProofs` proves, for any number of callers and slots, that the limiter's
counter is the cardinality of the running calls, never above the limit, and that a
call waits once and only while all slots are taken. The three parts need one another:
the hand-over keeps the count only because the head of the queue is not running. A call
whose abort was lost counts as running, and a process that dies starts from nothing.

`ServerPoolProofs` proves the staleness bounds for any TTL and read time: what a
resolution has read was true at most `took` ticks ago, hence what it stores at
most `ReadTicks` before the stamp (`ReadsAreRecent`, `EntryIsRecent`).

`SupervisorProofs` proves, for any replicas, files and services, that the ledger tells
the schema and that services run on the whole of it. Both need to know why an old
list is good enough: what a migrator has seen or passed stays applied
(`PassedIsApplied`), a changed schema means that it holds the only lock
(`ChangesAreLocked`), and between its INSERT and its COMMIT nobody else can have recorded
the file (`RecordIsNew`). The supervisor adds that a replica's migrator has ended before
its services start (`OnlyMigratingRuns`, `DoneIsAll`).

`RequestsProofs` proves, for any addresses, tokens, slots, limits and length of time, the
budgets and the lists. `WithinBudget` speaks of all stretches of time, so its bound is
carried per stretch that ends now: `BudgetLeft` says that what a bucket still holds is
what the admissions since any earlier one have left of the budget, and `RefillBounds`,
`ConsumeBounds` and `Accrual` that a refill adds to both sides what time is worth. For the
lists, `KnowsUser` says at every step of a request what it still knows of its client:
after `findOrCreateByAuthRef` that its row exists and is its token's (rows are never
changed, `Grows`), and before the tool acts that the account is the header's or, with
an `owner_token`, that of the argument; so a create lands with the user of the token it
was asked for with or that its answer announces. That no token has two users
needs nothing of the SELECT before the INSERT: the constraint decides. `ComingBack` is an
action property: it is proved of each answer to a list.

`PipelineProofs` proves the pipeline's invariants for any workers, jobs, bodies, slugs,
users and mix of job types. First, `PipelineUsesQueue`: each step of the pipeline is one of
`JobQueue` or leaves the queue's variables alone. The prover cannot use a theorem of
`JobQueue` under the `INSTANCE`, so the part that is needed, `QueueInv` (a busy worker
holds its job, at the stage where it found it), is proved again, for quick jobs. `IInv` then
says what a job at each stage has left behind (`JobFacts`: a spec once generated, a row
once built, a probe of that row once deploying), what a row that is served has
(`RowFacts`), what a dashboard action has read (`DashFacts`), and what a worker that is about
to report has made true for the stage it reports (`WorkerFacts`). None is inductive
alone: `ServedIsProbed` needs the probe at `deploying`, which needs the report of `probing`,
which needs that the worker still holds the job it probed. That jobs which share a row
do not spoil one another's facts is `Grows`: a row never goes away, a probe and a URL
stay, and a row that was up never goes back to building or failed.
`OwnFiles` and `UndisturbedIsWhole` (which proves `ActiveHasFile`) assume that different bodies
have different slugs (`OwnNames`), since without it they are false, as section 3 says.
The first adds `OwnInv`, by which rows, jobs, patches of workers and files all agree on whose
slug it is. The second adds `FileInv`: a URL leads to a file, unless a delete job is about the
row (`RowFiles`), and as long as one job and no enable is, the row is not active before that
job's worker has come past its write, whose file is then whole (`DeployFiles`).

`OwnerViewProofs` adds to that `IInv` what a failure's event says of the work done before it
(`FailureFacts`: the event names the stage the job failed at, and the job has what a job
at that stage has) and what a page knows between its two queries (`PageFacts`).
`CreatesShown` is an action property: it is proved of each second query.

`GatesProofs` proves, for any requests and descriptors and any number of samples,
retries and ticks, that what is deployed was measured (`GateKept`), what failed deserved it
(`VerdictDeserved`), and arguments arrive (`ArgumentsSent`). The invariant has four parts.
`StageFacts`: from `finalizeSpec` on the spec is `Sound` (it loads, the policy allows it, each
parameter has a place), and `Buildable` once validating has built its urls.
`CallFacts`: what a call returned is classified by what the upstream did (`Told`), or
by what its text says. `DriverFacts`: the handler's counters agree with the upstream's history
(`Sampling`), and a stage that starts again, after a retry or a death, starts from nothing. A
call that sets out is never refused for its made-up arguments (`SyntheticArgsAccepted`), so
that a fatal text is an answer's own: `BranchesNeverTaken` says of two branches of the code
that validating never finds fault with a spec and that no call is refused before it is sent.
`ProperMethodsOnlyRead` says how far the finding of `probe_side_effect` reaches: if every
descriptor spells its method "GET" or "POST" (`ProperMethods`), nothing but GETs is sent
before the deployment.

Assumptions: the named ASSUMEs of the modules, which say what the constants are: limits
and bounds are numbers, tokens are finite, markers such as `None` and `NoResult` are none of
the values they stand beside, the queue's constants in `Pipeline` are as `JobQueue` wants them.

Where two arms of a CASE could both hold (`NextStage` of a delete, the hints of
`StartGenerating`), TLC takes the first and the prover may assume neither; both are
written as IF ... ELSE CASE, in the order of the code's early returns.

All invariants and action properties that the runs check are proved. Model-checked only:
the five liveness properties `EveryJobSettles`, `EveryCallServed`, `HalfDeadGoesDown`,
`EveryReplicaServes` and `GatesEnd` (the prover has neither fairness nor ENABLED). What the
theorems do not say: that the models' steps are the code's, and everything that section 5
leaves out.

## 5. Not modelled, and what is next

Left out of the models above: several server actions in flight, values of cached tool
results, the owner check and cookies of the dashboard, the `redeploy` type (nothing
enqueues it), the texts of specs, slug derivation, OpenAPI extraction, response
selectors and rendering, and what an ephemeral server still does for a call that the
Inspector gave up. Of the egress guards, which addresses are refused is a choice of
the lookup and not computed. Not modelled at all: the memory registry and the wiring of
the runtime host, the proxy's routing, and the dashboard's pages and components, which
keep no state and decide nothing that another actor could overtake; scripts, mock data
and test doubles.

Plan, in order:

1. `RuntimeHost`: `ServerPool` and `ToolCalls` composed, with the values in the
   response cache across a change of spec.
2. Several dashboard actions in flight, and the check of an enable against the update
   of a delete.
3. Further results of `PipelineProofs` for shared slugs: which files a server may then
   serve.
