# ScanOrbit: TLA+ models and proofs

ScanOrbit scans the AWS accounts of an organisation and reports findings. A TypeScript API
(`apps/api`) keeps the tables and takes requests; two Go worker processes (`workers/cmd/scanner`,
`workers/cmd/analyzer`) do the work; a React application (`apps/app`) shows the results. API and
workers communicate through PostgreSQL rows and Redis lists. A row and the list entry that belongs
to it are never written together, nearly every status update is a statement that does not look at
the status it replaces, and most failed writes are logged and ignored. The models are about what
still holds in spite of that.

| files | content |
|---|---|
| `JobDelivery`, `JobQueue`, `JobQueueProofs` | the Redis queue of the workers, and what it promises |
| `JobRecovery`, `JobRecoveryProofs` | jobs table against Redis: recovery runners and the API's sweep |
| `ScanPipeline`, `ScanPipelineProofs` | one account's scans, from the request to the last analyzer |
| `RegionScan`, `RegionScanProofs` | the goroutines of one scan |
| `ScanResults`, `ScanResultsProofs` | resources, their history and the findings, under scans that overlap |
| `AwsScanners`, `DependencyExtraction`, `AnalyzerRules`, `AccountInventory` | what is read from AWS, linked, and found wrong with it |
| `WebhookPromise`, `WebhookDelivery` | webhook deliveries in the API, and what they promise the owner of an endpoint |
| `Organisation` | members, invitations and API keys of an organisation |
| `OrganisationProofs` | proofs about `Organisation` and `WebhookDelivery` |
| `AuthStores`, `SignUp`, `SignIn`, `TwoFactor`, `Authentication`, `AuthenticationProofs` | the ways into an account, command by command |
| `SessionClient` | the session in the browser |
| `InfrastructureGraph`, `NetworkLayout`, `InfrastructureMap` | the map of an account: graph algorithms, layouts, the page |
| `FindingsApi`, `FindingsList`, `Dashboard`, `FindingsPage` | the findings pages and what the server answers them |
| `WebApplication` | the two pages as one application |
| `WebProofs` | proofs about the web application: `FindingsPage` and `SessionClient` |
| `MC*.tla`, `*.cfg` | the instances TLC checks |
| `PROJECT.json` | components, runs, mutants, source map, findings, hazards, theorems |

Checking: `tlc -workers 2 -config JobQueue.cfg MCJobQueue`; proving: `tlapm JobQueueProofs.tla`.


## 1. Inventory

| component | state | operations | interacts with |
|---|---|---|---|
| **Job queue** `queue/redis.go` | one Redis list per job type; the job in a consumer's memory; the retry count in the envelope | `Enqueue`, `Consume` (BLPOP, handler, retry, dead letter), the API's RPUSH/LPUSH | API and scanner push, both workers consume, the dead-letter handler writes to the database |
| **Job recovery** `recovery/runner.go`, `store/job_recovery.go`, `stuckJobService.ts` | `jobs.status`, `jobs.recovery_count`, `dead_letter_jobs` | `RecoverOnce` (orphaned jobs, stuck jobs) in every worker; `recoverStuckJobs` in the API | re-posts to the queue, changes rows the handlers write too |
| **Scan pipeline** `awsAccountService.ts`, `cmd/scanner/main.go`, `scanner/scanner.go`, `analyzers/orchestrator.go`, `store/store.go` | `scans.status`, `jobs.status`, `jobs.scan_id`, the account row | `enqueueScan`, account deletion, `ScanAccount`, the fan-out, `HandleJob`, `CompleteAnalyzerJob`, `FailAnalyzerJob`, the sweep of orphaned scans | all of the above |
| **Region fan-out** `scanner/scanner.go` | goroutines per region, semaphore, result channel | scan regions concurrently, collect, decide complete or partial | AWS clients, resource history |
| **Resource history** `store/resources.go`, `store/resource_scans.go` | `resources`, `resource_scans` | upsert, mark removed, delete stale | scan pipeline |
| **Finding lifecycle** `store/findings.go`, `store/finding_scans.go`, `findingService.ts` | `findings`, `finding_scans` | upsert with history, auto-resolve, changes by the user | analyzers, API |
| **AWS clients, dependencies, analyzer rules** `awsclient/*`, `scanner/dependencies.go`, `analyzers/*` | rows of resources and dependencies, the raw record of each | describe, extract, apply the rules | scan pipeline, resource history |
| **Webhooks** `webhookDeliveryService.ts` | `webhook_delivery_logs`, a Redis list, a Redis lock | enqueue, deliver, retry | notifications, outside endpoints |
| **Organisations, invitations, API keys** `orgService.ts`, `invitationService.ts`, `apiKeyService.ts` | members, roles, invitations, keys | invite, accept, decline, cancel, change role, remove, create and revoke keys | HTTP requests |
| **Authentication** `lib/redis.ts`, `services/auth/*`, `twoFactorService.ts` | `users`, Redis keys with expiry, sets of session ids | sign up, sign in, second factor, lockout, password change and reset, logout from all devices | HTTP requests, the pages |
| **Web session** `lib/api.ts`, `stores/auth-store.ts` | access token in memory, refresh token in a cookie, the store | refresh, retry, login, logout, switch of organisation | API |
| **Findings pages and dashboard** `pages/Findings.tsx`, `AccountFindings.tsx`, `hooks/use-findings.ts`, `lib/api.ts` | cached queries, filters, table, dialog | list, filter, update, count, link | findings API |
| **Infrastructure map** `lib/graphUtils.ts`, `pages/AccountInfrastructureMap.tsx` | fetched pages of resources, filters, layout, stored preferences | build, filter, cluster and lay out a graph | API, localStorage |
| **Notifications** `notificationCronService.ts` | Redis lock, Redis set of scans already sent | a poll every minute over scans completed in the last two | scan status, findings, mail and Slack |
| **Rate limiting** `middlewares/rateLimit.ts` | counters with expiry | count and refuse | HTTP requests |
| **Retention** `retentionService.ts` | old rows of several tables | one pass of deletions | operator's cron |
| routes, configuration, logging, metrics, other pages, landing page, deployment | none that matters to a protocol | | |

**Hard behaviours**

- *Crashes and shutdown.* BLPOP removes the entry before it is handled. SIGTERM cancels the
  context the handler, the retry push and the dead-letter handler all use. A scan may run for an
  hour while a job counts as stuck after five minutes.
- *Interleaving.* Two recovery runners and a cron act on rows they have read before; the fan-out
  inserts analyzer jobs while the analyzer counts them; an account may be deleted in mid-scan; a
  scan may be requested while the analyzers of the one before have not started; requests check in
  one statement and write in another.
- *Partial failure.* Every step is a write of its own, to one of two stores, and most errors are
  logged only. A scanner describes a resource although a call about it has failed.
- *Ordering.* `analyzing` is written after the pushes that lead to `complete`; `running` is
  written by recovery after the push that leads to `complete`; answers reach a page in any order.
- *Agreement without a contract.* Scanners, extractor and analyzers share names of JSON keys, server
  and pages compute the same numbers twice, layouts compute the sizes of boxes apart from
  what they hold.
- *Liveness.* Something must end every scan, job, delivery and call, although messages get lost.

**What makes each component correct.** Queue: an entry exists once, is handled at most
`maxRetries + 1` times, each fault costs one entry at most, and each is settled in the end. Recovery: what is
lost is handled again; attempts are bounded; a result stands. Pipeline: a status that says "in
progress" has somebody working on it; a complete scan was analysed; every scan ends. Regions: the
status is true and nobody is stuck. History and findings: what a scan has found is accounted for in
the next one, what the user has decided is changed by nobody else, and auto-resolve closes what
no scan sees any more and nothing else. Inventory: what is linked and reported is true of what AWS
said, and what is wrong is reported. Webhooks: one carrier per delivery, rows that tell the truth,
no delivery forgotten. Organisation: an admin remains, no member has a pending invitation, the
limit on keys is kept (it is not, section 6). Authentication: revoked sessions stay revoked, a recovery code
is used once, no code is in force that nobody was sent. Web session: nobody is logged out without need, no call
hangs. Pages: acknowledged changes are shown, numbers agree with lists, the map shows what there
is and nothing over it.

The hazards with their lines, and the properties against each, are listed in `PROJECT.json`.


## 2. Modules and code

`PROJECT.json` maps every definition to the lines it models.

### JobQueue implements JobDelivery

`JobDelivery` says what a user of the queue may rely on: a submitted message is attempted at most
`Budget` times and ends as `ok`, `dead` (only after the whole budget) or `lost`. `JobQueue` is
`queue/redis.go` in detail:

| variable | code |
|---|---|
| `lists[t]` | the Redis list of job type `t`; entries are envelopes or the API's plain JSON |
| `phase[c]`, `job[c]` | where consumer `c` is in `Consume`, and the job it has decoded |
| `cancelled[c]` | the context is done |
| `fate[m]`, `calls[m]` | history; they are the variables of `JobDelivery` |

`Enqueue`, `PushFromAPI` (tail or head), `BLPop` (first non-empty key, decoding included),
`HandlerSucceeds`, `Retry`, `DeadLetter`, `Return` are the branches of the code. `RetryLost` and
`DeadLetterLost` are its error paths: with a cancelled context the push always fails. `Crash`,
`ReplyLost` (Redis has popped, the client got nothing) and `Cancel` are the environment.

### JobRecovery

Rows against messages. `status`, `count` are columns of `jobs`; `waiting` is the bag of messages in
Redis (order is `JobQueue`'s business); `hand[p]` is the message process `p` handles; `step`, `todo`,
`current` are the program counter of the runner in `RecoverOnce`, with the rows its last query returned.
The pass is modelled statement by statement: query, push, mark for orphaned jobs; query, reset, push,
mark for stuck ones. A message carries `job_id` only if its producer put it in: the payload column,
which recovery posts, does not hold it, so a re-posted message reports to no row (`Report`). `Abandon`
is a producer that dies between row and message, and costs a fault; `PushFails` is its push refused.
`RecoverStuckJobs` is the jobs part of the API's sweep: one transaction over rows locked with SKIP
LOCKED, hence any set of running rows.

Abstracted: the ages (a pass may return any subset of the rows in the right
status; fairness says that a row is not too young for ever), the batch limit, the dead-letter
table (a row in `error` with its attempts spent). Left out: `handleExhaustedJob`
(runner.go 168-201). Both queries ask for `recovery_count < 3`, so the tests for exhausted jobs at
runner.go 79 and 121 are never true, and `FindExhaustedJobs` has no caller.

### ScanPipeline

The scans of one account. `scan[s]`, `scanJob[s]`, `analysis[s][a]` are the statuses of the
`scans` row, its `scan_account` job and its analyzer jobs; `scanList`, `analyzeList` what waits in
Redis; `pc`, `current`, `next`, `enqueued` the scanner's handler, one step per statement that
another actor can come between; `working` the analyzer's job; `toPush`, `orphans` what the API has
committed but not pushed, and what its sweep has read but not yet failed. `SetScan` and
`SetScanJob` are the statements whose error is only logged: they happen or a fault is spent.
`EndAnalysis` is the transaction of `CompleteAnalyzerJob` and `FailAnalyzerJob`: the job's status
and, when the rows of the scan show no unfinished analyzer job, `complete` for the scan.

One scanner and one analyzer process are modelled, each with one job at a time, as
`docker-compose.yml` deploys them. What a crash loses is lost here; its recovery is `JobRecovery`.

### RegionScan

One `ScanAccount` seen from inside: the goroutines. `at[r]` is the program counter of region `r`'s
goroutine, `call[r][s]` of scanner `s` in it (`scanRegion`'s dozen of goroutines), `pc` of the
handler. `sem`, `wg`, `channel` and `closed` are the semaphore, the WaitGroup's counter, the
buffered channel and whether it is closed. An append under the mutex is two steps, `Lock` (the
slice is read into `seen`) and `Unlock` (it is written back to `result`), so what the mutex is for
can go wrong. `Expire` is a region's deadline, at any moment; a region past it when its scanners
have returned counts as failed (`Collect`), whatever they found. The handler scans the global
services (`ScanGlobal`; their errors are logged and change nothing), receives until the channel is
closed (`Receive`) and decides on complete or partial (`Decide`). What a scanner finds is one
value; the writes of the fan-in to the database are in `ScanResults`.

### ScanResults

What scans and analyses leave in `resources`, `resource_scans`, `findings` and `finding_scans`. The
scanner's statements are actions: `UpsertResource` one by one, `MarkRemovedResources`, `RecordScan`
(the bulk upsert of the history), `DeleteStaleResources`, `CompleteScan`, the fan-out; the
analyzer's are `TakeAnalysis`, `PersistFinding` one by one (`UpsertWithHistory`), `RecordDetections`,
`CompleteAnalyzerJob`, `AutoResolve`. `UpdateFinding` is the user, at any moment.

- `record[s][r]` is the history, `detections[s]` the rows of `finding_scans`, `finding[f]` status,
  `last_scan_id` and who has set the status.
- Only the order of `completed_at` counts: `clock` goes on when another scan is completed than the
  last one. A scan gets the time twice, from the scanner and from its last analyzer.
- `early` is history: the scans that were requested while an older one was still in progress,
  which the API permits (section 6).
- A recovered message names no scan: `TakeScan` makes a new row for it, and its analyses have no
  effect (their `scan_id` is empty).
- `ignored` is folded into `snoozed`, a job and its message are written together, a crashed
  analyzer's job is posted again at once: those interleavings are in `ScanPipeline` and `JobRecovery`.

### AwsScanners, DependencyExtraction, AnalyzerRules, AccountInventory

The first three are functions. `AwsScanners` makes the stored record out of what AWS says, under the
names the code writes (`Describe`, with the calls that failed); `DependencyExtraction` reads links from
it under the names the code expects, whatever the case of a key but not its underscores; `AnalyzerRules`
is every rule of every analyzer. `AccountInventory` says when each sees what: a scan lists in any order,
stores the regional resources one by one, then their dependencies in one transaction, then the global
ones; analyzers are due when a scan has ended, `Load(a)` the rows and `Report` while they look
dependencies up, possibly during the next scan. The account changes, days go by, calls and writes fail.
`True` measures a finding by what AWS said and by what its type says: a snapshot is as old as AWS says
it is, a volume unattached for as long as it is known to be. Where the code falls short, the case is
named: `Gap` lists the five false alarms, `Unread` and `FoundLate` what is missed or late. `picture` is
history: what each row was made of. Certificates are rows of the same table; keys named by alias or id
are not modelled.

### WebhookDelivery implements WebhookPromise

`WebhookPromise` is a delivery as the owner of the endpoint sees it: sent at most `Budget` times, never
again once it was accepted or turned away, `success` or `failed` when that is true, and changed after
that by a deletion only. `WebhookDelivery` is the worker in detail, and refines it:

 `row`, `attempts` and `webhook` are columns of `webhook_delivery_logs` and `org_webhooks`; `list` and
`lock` are in Redis; `entering` is the id between the two statements of `enqueueDelivery`; `pc`, `held`,
`copy`, `turn` are the locals of one batch of the timer. Batches overlap as soon as the lock has
expired, in one process or several. One action per statement with an `await`: `Tick` (SET NX EX), `Pop`,
`Fetch`, `Look`, `Refuse`, `Post`, `RecordSuccess`, `CountFailure`, `Requeue`, and `Throw` from each of
them to the `catch` that ends the batch. `RequeueUnanswered` and `PushFails` are pushes whose reply is
lost: the call throws, or the client library sends it again, and the id is in the list twice; `resent`
remembers these ids, of which nothing is promised. `PopUnanswered` is a pop whose reply is lost: the id
is out of the list and in nobody's hands, and the call throws or is sent again, and takes the next one.
A process that ends (`Crash`; the call that takes the lock stands outside the `try`, so if it throws the
process exits by `unhandledRejection`) loses what its batches have popped; `dropped` remembers the ids a
fault has taken out of somebody's hands.

### Organisation

One organisation: `role[u]`, `invitation[u]` (the unique index admits one row per organisation and
address, whatever its status), the number of `apiKeys`, and for every request what it asks, where it is
and what it has read. Each SQL statement is a step; a transaction is a read and a write, for under READ
COMMITTED what it counts may change before it inserts. The buttons of the pages are actions
(`HandleInvite`, `ConfirmRemove`, ...) that never aim at oneself; the lists they are on may be stale, so
any other user may be aimed at. `raced` is history: a role was written between the reading and the
writing of another request. `KeysWithinLimit` is what the code promises of the keys and does not keep
(section 6); `KeysBounded` is what holds instead. Keys are counted, not identified; the comparison of a
user's address with that of the invitation is abstracted, an address being its user.

### AuthStores, SignUp, SignIn, TwoFactor, Authentication

One e-mail address. `AuthStores` has the row of `users`, the keys of Redis that expire (`redis`), the
sessions (`keys` and the set `tokens` they are revoked by), the lock of the row, the requests, and the
commands that store and revoke refresh tokens. The other three are the requests, each SQL statement and
Redis command a step: `SignUp` with the page and its three steps, `SignIn` with lockout, identity
provider, password change and reset, `TwoFactor` with setup, challenge, recovery codes. `Authentication`
lets them run together, and keys expire. `newest` is the code of the mail that went out last, `Sending`
the codes whose mail is on its way, `crossed` says that two requests about the code have overlapped, or
one threw between storing and mailing. What is random is named by the request that makes it. Google and
GitHub are one provider; the OAuth state token, the age of a session (7 days) and deleted users are left
out; a refresh reads only and is in `SessionClient`.

### SessionClient

`call[c]` is a promise under way (a data request, switch of organisation, invitation, `checkAuth`,
login, logout) and where it waits; `accessToken`, `isRefreshing`, `owner` and `subscribers` are the
shared refresh of `api.ts`; `org`, `isAuthenticated` the store; `cookie` and `member` as much of the
server as answers depend on. JavaScript runs to its next `await`, so an action is such a piece.
A login stands for second factor and sign-up too; membership is never removed; `isHandling401` is
idempotent and left out. What is sent with a fresh token is answered within that token's life.

### InfrastructureGraph, NetworkLayout, InfrastructureMap

The graph behind the map: nodes, edges, filters, statistics, union-find, breadth-first search and the
four layouts are operators; so are the VPCs and subnets read from the resources and the boxes they are
drawn in. `InfrastructureMap` is the page: queries answered one by one, in pages that may tear, scans
behind them, filters, layouts, collapsed boxes, dragged nodes and what localStorage keeps per account.
Clusters are computed over a sequence of edges, and the property looks at every rotation of that
sequence, forwards and backwards. Ties the code leaves to the order of a `Map` go to the smaller id;
path compression is left out; dragged positions are a set of ids; default random positions are replaced
by layouts.

### FindingsApi, FindingsList, Dashboard, FindingsPage

`FindingsApi` is the routes' answers as functions of a table, and what else writes the table.
`FindingsList` and `Dashboard` are what the pages compute from the answers: list, cards, numbers and
where their links lead. `FindingsPage` is the page with its react-query cache: `list` and `stats` are
queries with their data, in flight, invalidated or joined; an answer sees one of the tables in
`history` between its request and its arrival, and the counts of `/stats`, which are separate
statements, may see different ones. A handler and the rendering it leads to are one action. Bulk selection,
browser Back and the confirmation step of the dialog are left out; filters, sort order and page size
persist in the code, and start with their defaults here; who may not update has fewer buttons.

`WebApplication` is the router: one of the two pages is mounted at a time, and a step of the one leaves the
other alone. The pages share no state, so this adds nothing to them; one run checks both.


## 3. What TLC checks

| run | instance | distinct states | properties |
|---|---|---|---|
| `job_queue` | 3 messages on 2 lists, 2 consumers, 3 retries, 2 faults | 172 337 | `OneLossPerFault`, `ImplementsDelivery`, `EverySettles` |
| `job_recovery` | 1 analyzer job, 2 processes, limit 2, 1 retry, 2 faults, cron | 280 881 | `RecoveryBounded`, `CompleteNotOverturned`, `RecoveryEnds`, `LossIsRepaired` |
| `scan_pipeline` | 2 scans, 2 analyzers, 1 retry, 1 fault | 1 482 352 | `NothingStranded`, `CompleteIsAnalysed`, `EveryScanEnds` |
| `region_scan` | 3 regions, 2 scanners each, concurrency 2 | 207 210 (symmetry) | `NoSendOnClosed`, `StatusIsTrue`, `NeverStuck` |
| `scan_results` | 2 scans, 2 analyzers, 2 resources with a finding each, 1 retry, 1 fault | 1 968 413 (symmetry) | `SeenStaysOpen`, `OpenMeansSeen`, `NothingForgotten`, `UserDecisionStands` |
| `account_inventory` | 67 accounts of one or two resources, 2 scans, a change, a jump in time, 1 fault | 1 175 783 | `LinksAreTrue`, `FlaggedOnlyIfTrue`, `TrueIsFlagged` |
| `webhook_delivery` | 2 deliveries, 1 webhook, 2 batches of 2, 2 attempts, 1 fault | 467 780 | `OneCarrier`, `PendingIsCarried`, `ImplementsPromise`, `EverySettles` |
| `organisation` | 2 users, 2 requests, 1 key allowed | 2 368 231 (symmetry) | `AdminStays`, `NoMemberPending` |
| `organisation_keys` | the same | violated | `KeysWithinLimit` |
| `authentication` | 10 scenarios, 3 requests, 2 recovery codes, limits of 1 | 561 402 (symmetry) | `SessionsEnd`, `RecoveryCodeOnce`, `NewestInForce` |
| `session_client` | 2 calls, 2 organisations, 1 fault | 237 994 | `SessionKept`, `EveryCallSettles` |
| `web_pages` | findings page: 3 findings, 2 accounts, 8 combinations of events; map: 2 accounts with up to 10 resources, pages of 6, 3 steps | 505 516 | `AcknowledgedIsShown`, `CardsCountTheList`, `LinksShowTheirCount`, `DialogIsTrue`, `PictureComplete`, `NothingOverlaps`, `ContainersHold`, `ClustersAreComponents` |

All runs but one pass; `organisation_keys` shows the finding about `createApiKey` (section 6). Every
property of a passing run is broken by a mutant of one definition of the model, listed in
`PROJECT.json`: what the run excludes is what a plausible error in the code would do.

**Bounds.** *Queue:* two messages compete on one list and a third waits behind them on a key that is
looked at last; two consumers suffice for two handlers to meet on an entry; `maxRetries` is the code's
3; two faults tell one loss per fault from any number after the first. *Recovery:* jobs do not interact
(every statement names one row), so one job is enough; two processes are the deployed number and make
the two runners overlap; one retry is enough for a row that says `error` and then `running` again. It
takes two faults to put a job out of reach of recovery, and a limit of 2 is the least at which one
attempt is not the last; the code's 3 was checked once (538 219 states, too long for a regular run).
*Pipeline:* two scans are enough for one to start while the other is in progress, two analyzers for a
first and a last one in the fan-out of seven. `MaxFaults` bounds crashes and failed writes; one lets
every single step fail in every state. *Regions:* three under a limit of two is the smallest case where
one waits for a token while two hold one; two scanners are enough for an append to be lost. *Results:*
two scans overlap or follow each other; the second analyzer has nothing to say and only takes its time,
which is when scans overtake each other; deletion after `minScansForDeletion` = 3 removals needs more
scans than TLC affords, and the proofs are for any number. The whole inductive invariant of section 4
was checked on this instance and on one with three scans, one resource and no fault. *Inventory:* each
kind of resource alone, at values around every threshold, and those that use each other or share a name;
one region; jumps of 3, 4, 30 and 31 days. *Webhooks:* two deliveries in a list while two batches
overlap; two attempts are a first and a last one (the code has three); batches of two so that one batch
meets its own retry. *Organisation:* two users are the smallest number that can demote each other, two
requests the smallest that race. *Authentication:* all operations at once are too many for three
requests, so every behaviour offers those that meet each other; limits of one for attempts, lockout and
tries are the first that refuse. *Session:* one call starts the refresh, another subscribes. *Map:* two
VPCs with one, several and shared subnets, clusters of several sizes, an estate of ten that takes two
pages. *Findings page:* a list cut off at two of three, types that tie in severity, a trivial one; each
combination of events bounds clicks, turns of the page, polls, updates, writes, scans and faults by one
or two of each kind. The proofs do not depend on any of these numbers.

**Fairness.** Four modules have liveness properties.
*Workers (`job_queue`, `job_recovery`, `scan_pipeline`):* the loops take what waits and every handler
returns (a scan has a deadline, an analysis bounded queries): weak fairness of pops and of handlers'
ends, never of success. The supervisor restarts what exits (`restart` in docker-compose.yml). A
recovery runner goes on with its pass and starts one every five minutes: weak fairness. That a row
whose status again and again qualifies is old enough for one of the passes is strong fairness per row:
ages only grow while nobody touches the row, and the runner's own writes are at most
`MaxRecoveryAttempts`. The sweep is fair where `CronRuns` says that the operator has installed it
(the README of the repository asks for it); `EveryScanEnds` and `RecoveryEnds` depend on it.
*Webhooks:* the timer fires every five seconds, its lock expires by itself, and every await of a batch
ends, a POST with its timeout: weak fairness for the timer, the lock and each batch, not for success.
*Session:* every request is answered or fails: weak fairness of the two together.

**Deadlock.** Checked in `session_client` and `organisation`, where somebody may always ask for something.
Elsewhere the system may come to rest, which the cfg says: jobs are settled, requests used up, a
page is left alone. That it does not stop earlier is what the liveness properties say, and `NeverStuck`
in `region_scan`: there every step of a goroutine is forward, so not being blocked is all that
liveness needs.


## 4. What is proved

For every set of messages, jobs, processes, scans, types, resources, findings, accounts, deliveries,
users, requests and calls, every limit and any number of faults, from the assumptions on the constants
that the modules name.

| theorem | says |
|---|---|
| `JobQueueProofs!TypeCorrect`, `LossesBounded` | types; entries that are in no list and in nobody's hands, though not settled, are at most as many as faults (`OneLossPerFault`) |
| `JobQueueProofs!RetryCounts`, `OneCopy` | the retry count is the number of calls spent; an entry is in one place |
| `JobQueueProofs!QueueImplementsDelivery` | `JobQueue` refines `JobDelivery` with budget `maxRetries + 1` |
| `JobRecoveryProofs!TypeCorrect`, `AttemptsBounded` | types; `RecoveryBounded` |
| `JobRecoveryProofs!MessagesBounded`, `OneReporterPerJob` | messages recovery adds are bounded; a row has one reporter |
| `JobRecoveryProofs!CompletionStands` | the action property `CompleteNotOverturned` |
| `ScanPipelineProofs!TypeCorrect`, `NothingStrands`, `CompleteScansAnalysed` | types, `NothingStranded`, `CompleteIsAnalysed` |
| `ScanPipelineProofs!FailedStaysOut` | with fewer than two failed writes, a scan whose job failed has no analyzer jobs |
| `RegionScanProofs!TypeCorrect`, `ChannelClosedLast`, `StatusTrue` | types, `NoSendOnClosed`, `StatusIsTrue` |
| `RegionScanProofs!LimitKept`, `OutcomesKept` | the concurrency limit; no append overwrites another |
| `RegionScanProofs!NobodyStuck` | `NeverStuck`, with the guards written out instead of `ENABLED` |
| `ScanResultsProofs!TypeCorrect`, `SeenIsKept`, `OpenIsSeen`, `HistoryIsKept` | types, `SeenStaysOpen`, `OpenMeansSeen`, `NothingForgotten` |
| `ScanResultsProofs!DecisionStands` | the action property `UserDecisionStands`, whatever fails or overlaps |
| `OrganisationProofs!TypeCorrect`, `CarriedOnce`, `NoneForgotten` | of webhooks: types, `OneCarrier`, `PendingIsCarried` |
| `OrganisationProofs!DeliveryKeepsPromise` | `WebhookDelivery` refines `WebhookPromise` with budget `MAX_ATTEMPTS` |
| `OrganisationProofs!OutcomeKept` | `OutcomeIsTrue`: `success` only after an answer 2xx, `failed` only after `MAX_ATTEMPTS` others or for an inactive webhook |
| `OrganisationProofs!AttemptsKept` | an endpoint is asked at most `MAX_ATTEMPTS` times |
| `OrganisationProofs!OrganisationTyped`, `AdminRemains`, `MembersAreSettled`, `KeysStayBounded` | types, `AdminStays`, `NoMemberPending`; at most one key above the limit per request beyond the first (`KeysBounded`, checked by no run) |
| `AuthenticationProofs!AuthenticationTyped` | types of rows, keys of Redis, requests and wizard |
| `AuthenticationProofs!RevocationHolds`, `CodesOpenOnce`, `NewestCodeStands` | `SessionsEnd`, `RecoveryCodeOnce`, `NewestInForce` |
| `WebProofs!WaitersKnown` | one refresh at a time, which knows everybody who waits for it |
| `WebProofs!SessionStays` | the action property `SessionKept` |
| `WebProofs!AcknowledgedStays`, `DialogStaysTrue` | `AcknowledgedIsShown`, `DialogIsTrue` (the dialog that has not strayed, section 6) |

**JobQueue.** None of the properties is inductive. `IInv` is `Typed` (types, and a consumer holds a job
exactly while it handles) with `Placed` and `LossesCounted`. `Placed` says for each message where it is:
the positions it occupies in its list are one or none, the consumers that hold it one or none, never
both, with the retry count equal to the calls wherever it is. The lemmas about lists (`AppendInserts`,
`ConsInserts`, `InsertKeepsUnique`, `PopKeepsUnique`) say that a push adds one position and a pop
removes one while the others keep their entries; each action then cites one of them. `LossesCounted`
adds to the entries that are lost those that are doomed, because the consumer that holds them is shut
down and no push of its own can succeed any more: the two together are paid for, one fault each
(`PaidFor`), and what is neither in a list nor in hand is among them. The refinement is a step
simulation under `IInv`: `BLPop` is an `Attempt`, which has budget left because the retry count of the
popped entry is exact.

**JobRecovery.** The bound on `recovery_count` is not inductive: a runner may raise the count of a
row it read long ago. `AttemptsCovered` adds to the count the number of runners that still have the
row on their list; that sum is at most the limit plus the number of processes. A runner puts a row
on its list only below the limit and takes it off as it counts. `RepostsCovered` relates the
messages pushed to the count, to the runners between push and mark, and to the faults. For the single
reporter `Reporting` says that the naming message of a job is silent, waits once or is
held once, and nothing else; with it no handler can write `error` over `complete`.

**ScanPipeline.** `Placed` (a scan is carried by one of API, list, scanner; analyzer rows exist only
from the fan-out on), `Shown` (what the job row says while the scanner is at each step, up to one
failed write), `Moving` (without faults: whoever makes a status "in progress" carries the scan
on), `EveryTurn` (without faults: rows of a fan-out are whole, and a settled row has been tried).
`EveryTurn` is what makes `CompleteIsAnalysed` provable although a scan may be marked complete
during its own fan-out: until the scanner is done it carries the scan, and by then all rows exist
and the late `analyzing` has taken the premature `complete` back.

**RegionScan.** `Counted` ties the semaphore to the regions that hold a token and the WaitGroup to
those that are not done, as cardinalities of sets; without it neither the limit nor "closed only
when everybody is done" (`Drained`) is inductive. `Intact` says of a region that whoever has the mutex
is alone with it and has read the slice as it is, so that writing it back loses nothing. `Honest`
follows outcomes from result to channel to handler: each failed region or scanner is counted
when its result is received, so a status that counts none stands for all of them. `NobodyStuck`
looks at the channel: if it is empty and open somebody is not done; a region before its token finds
one free or another region holds it; one that holds it can always go on, for the scanner that has the
mutex can give it back and the channel has room for every region.

**ScanResults.** `IInv` has three parts that hold whatever fails: `HistoryOfRows` (who has a history,
or was found by the scanner, is stored), `ByScanIsResolved`, and `PersistedIsOwn` (what the analyzer
has just written nobody has resolved since: there is one analyzer). The rest, `Calm`, holds as long as nothing
fails. Its core is `Turns`: scans begin one after the other (`ScansInTurn`), a scan's jobs come into
being while it is current (`JobsOfScans`), a queued job has one message and the lists are in the order
of the scans (`JobsAndMessages`); hence within a type no newer scan overtakes an older one (`OlderFirst`),
although across types it may. On it rest
- `EarlyOverlap`: a scan that was not requested early began when nobody worked for an older one, and
  nobody ever does again;
- `Detections` and `MissedUntilAnalysed`: where a finding was seen last, and that what a scan has missed
  stays open only until its last analyzer is done; with `SeenStaysOpen`, which is inductive beside them,
  they give `OpenMeansSeen`;
- `CompletionOrder`: if an older scan was completed after a newer one, that one still has jobs; so the
  scan with the latest `completed_at` is the newest when no scan overlaps, `Previous` is the scan
  before, and `HistoryGoesOn` follows the records of what it has found through the steps of the scanner.

Twenty-one actions against nine conjuncts would be too many proofs: the actions are summed up by what they do
to the parts (`TurnStep` for scans, jobs and lists, `FindingStep` for findings, `DetectionStep` for
`finding_scans`), and each conjunct is shown to survive each kind of step.

**WebhookDelivery.** `Alone` says where an id is: entering, in the list or in the hands of a batch,
at most once and in one of these; `Story` says what row, counters and endpoint know of each other
at each of these places (`Ready`: all POSTs so far are counted, none was accepted, one more is
allowed; `InStep`: what a batch's copy of `attempts` is worth at its step). The lock is not mentioned
anywhere: it plays no part in the argument. `UntouchedKept` covers every step that has nothing to do
with a delivery, `Carried`, `PutAway` and `PutBack` the three things a batch does with its own. Both
conjuncts hold for ids that were never pushed twice, and are false for the others. `NoneForgotten` has
no such excuse: a pending delivery that no fault took out of somebody's hands is found somewhere (`Kept`),
because a batch that lets go of an id has written its row or pushed it back first; what a lost reply of
LPOP takes off the list counts as taken out of a batch's hands (`Mishap`). The refinement is a
step simulation: `Story` gives the guards of the abstract steps, except that nothing is sent once it was
turned away. That is `Rejected`: its id is nowhere but with the batch about to write so (`Gone`), which
no step brings back, though the webhook may be active again by then.

**Organisation.** `AdminStays` needs to know that while nothing raced, what a deciding request has read
is still so, and that an admin other than the one it takes away is left (`Settled`). For `NoMemberPending`,
`NotJoined` says that an invitation about to be written for the first time is for somebody who is not
a member, because joining takes an invitation and that would be the first; together they are `Apart`.
`KeysCounted` keeps keys plus inserts under way below the limit plus the number of requests.

**Authentication.** Nineteen operations are taken apart into some fifty kinds of step, each of which
reads or writes one store. Most steps matter to few of the properties, so the lemmas sort them: a step
is `Quiet` if it leaves row, tokens and mailed code alone and brings its request to none of the places
the invariant speaks of; the rest are the steps that store, drop or revoke sessions, that write the row,
and that mail a code. The invariant follows a request across the gaps between its commands:
- `SessionsKnown`, for `SessionsEnd`: a session's key is written before it joins the set of the user's
  sessions, and a revocation reads that set before it deletes the keys. `KeysKnown` says that a key
  outside the set belongs to a sign-in between the two writes or to one that overlapped with a
  revocation; `RevocationsKnow` that who has read the set has read all of it but what was added since;
  `BeforeKnown` follows those who were let in before the row was written until the answer: deleted, on
  the list to delete, or late.
- `CodesKnown`, for `RecoveryCodeOnce`: who is about to remove a code holds the lock of the row, in
  which the code still is (`LockHeld`), and a code that was used is not in the row as long as its set is
  (`UsedCodesGone`), because a request writes its set of codes once.
- `NewestKnown`, for `NewestInForce`: while nothing has crossed, whoever stands between storing a code
  and having mailed it is alone there and the code in force is its own; a mail that fails deletes it.

`UserStays` and one conjunct of `AuthAssumption` exclude rows the program does not write (codes left in a
row without a set of codes), which are typed all the same.

**SessionClient.** `Core` is `RefreshKnowsWaiters` with `AllFit`: `getMe`, whose 401 `checkAuth` takes
for "nobody is signed in", is only ever sent with a token that `ensureAccessToken` has found fresh,
and a fresh token is answered before it expires. So only a refused refresh ends the session, and that
takes a cookie that is not valid.

**FindingsPage.** `history` holds every table of findings there has been, and each query knows the table
it was asked from. `QueriesFit` says what an answer that is still to come will know (`Knows`): whatever
acknowledgement or end of a scan has come meanwhile, a query has been asked again since, or is marked
invalid, or has joined a request that was under way. `AcknowledgedIsShown` follows. The dialog is
harder: it takes its row from three places (the list, a click, the answer to an update), and may be
ahead of the list. `DialogFits` says that it then is so by an acknowledged update that no list shown
has heard of (`Ahead`), and that the row the finding has had from that update on is another one than
the list shows (`Later`, from `updatedAt` by `Stamped`), so that the list's next answer is a change which
the page follows.

**Only model-checked.** The liveness properties (`EverySettles` of both modules, `RecoveryEnds`,
`LossIsRepaired`, `EveryScanEnds`, `EveryCallSettles`) and the `ENABLED` in `NeverStuck` are beyond
the prover. So is what a recursive definition computes for every input, hence the properties of
the map (layouts and cluster searches), of the cards and links (sums over tables) and of the rules
of the analyzers, which are also about instances: thresholds and names.


## 5. Not modelled, and why

- *Notifications* (a cron under a lock of the same kind as that of `WebhookDelivery`), *rate limiting*
  (one command per request), the rest of *retention* (one statement per table), *bug reports*: planned
  (section 7).
- *OAuth's exchange with the provider, TOTP arithmetic, encryption*: libraries.
- Requests of the client libraries that are sent twice because the first reply was lost: in
  `WebhookDelivery` only, not in the pushes of `JobQueue`, `JobRecovery` and `ScanPipeline`.
- `testWebhook`, which posts once and writes nothing; the lists of webhooks, deliveries, members and keys,
  which are queries; name and settings of an organisation; the audit log.
- Prices that only fill in an estimate; assuming a role, listing regions and paging in the AWS
  clients.
- The map over all accounts (`InfrastructureMap.tsx`), which uses the same operators; the other pages,
  which show what one query says; documentation and landing page.
- Routes, configuration, logging, metrics, deployment: no protocol state. From `docker-compose.yml` the
  models take that there is one scanner and one analyzer process, restarted when they exit.


## 6. What the code says and does not keep

Each was met while its component was modelled. One is the property of a run, `organisation_keys`, which
TLC finds violated; the others the properties excuse by name, or allow.

**Workers**

- A job that succeeded at every attempt is moved to the dead letter queue (`runner.go` 136,
  `stuckJobService.ts` 63): the re-posted payload holds no `job_id`, so its success is reported to no
  row.
- A job reset to `queued` with its last attempt stays queued for ever when its message is lost
  (`stuckJobService.ts` 107): the queries that would find it ask for fewer attempts (`job_recovery.go`
  58, 111). It takes two faults; `LossIsRepaired` names the state (`OutOfReach`).
- A recovered scan message names no scan: a second row is made, the first stays active until the sweep,
  and the analyses of the second have nothing to complete or resolve (`main.go` 240). Properties of
  `scan_results` about history therefore speak of states without a fault.
- With two runners `recovery_count` reaches 4 and more; a live scan that takes longer than five minutes
  is reset and handed out again.
- `analyzing_pending` is missing from the API's active statuses, and a scan is `complete` or `partial`
  for a moment before it (`awsAccountService.ts` 335, 363): in both windows a second scan starts
  (`early` in `ScanResults`).
- The first analyzer can complete a scan whose other analyzer jobs are not created yet (`store.go` 344,
  `orchestrator.go` 154).
- The scanner's late `analyzing` replaces the `complete` of faster analyzers, and the sweep fails the
  scan as abandoned (`main.go` 313, `stuckJobService.ts` 174).
- The status `canceled` of a deleted account's scan is overwritten by a scanner at work; a failed
  existence check is treated as a deletion, after which the analyzers run on old data.
- Errors of the global scans (S3, IAM) count nowhere (`scanner.go` 212): the scan is complete, and what
  it has not seen is recorded as removed; so are the resources of a region that failed.

**History and findings**

- "Auto-resolve findings that were not detected in this scan" (`orchestrator.go` 156): when scans overlap, the
  last analyzer of the older one resolves what both have detected, because the newer one has moved
  `last_scan_id` on (`findings.go` 266); the newer one leaves it resolved.
- "Auto-delete stale resources (removed in 3+ consecutive scans)" (`scanner.go` 406): `removed` is written
  only if the scan before has the resource (`resource_scans.go` 77), so without overlap there is one, and
  nothing is ever deleted; analyzers go on reporting findings about resources that are gone.
- The last finding of a type is never resolved by a scan, which looks at the types it has detected
  something of; `findings_resolved` is counted (`store.go` 357) before auto-resolve runs; a crash between
  completing the last job and auto-resolve skips it, and so does a last job that fails.
- A crash after the upserts loses `new`: the next scan finds the rows there. Recovered scans analyse
  without effect. A bulk reopen leaves `resolved_at`; a snoozed finding is woken by nothing.

**Inventory**

- What is "unattached for too long" is measured from the creation of the resource or of its row
  (`orphans.go` 332, 354, 367), so one detached today may be reported. "Manual RDS snapshot > 30 days"
  (`orphans.go` 19) is measured from the creation of the row (194), not from `SnapshotCreateTime`, so an
  old snapshot is reported a month late.
- AWS's own roles are to be skipped (`iam_analyzer.go` 232), but line 234 compares the first four bytes
  of the name with "AWS", three: it never matches, and they are reported as unused.
- `checkRDSEncryption` (`security.go` 128) reads a key that is never stored; so do the rules on instance
  types and public access blocks; `stopped_instance` compares with the last scan and stays silent while
  scans go on: four rules that never find anything.
- Failed calls about a part of a resource become findings (no targets, no tags, no MFA, never used); a
  bucket whose region could not be read keeps "unknown"; identifiers of different services may collide;
  classes without a price (db.r6g, db.m6g) count as cheap and are never downsized.
- An EC2 profile's ARN is linked as a role; VPC of security groups and KMS keys of volumes and log
  groups are never linked; rows of dependencies are never removed; a failed transaction of dependencies
  is only logged, and what those resources use is then reported as unused.

**Webhooks.** "Retry with exponential backoff: 5s, 25s, 125s" (`webhookDeliveryService.ts` 165) computes
`next_retry_at`, which nothing reads: a failed delivery is pushed again at once.
A delivery that was popped when the process ended, a query threw or the reply of LPOP was lost stays `pending`
for ever (54): nothing looks for pending rows that are in no list. `PendingIsCarried` counts these as `dropped`.

**Organisation**

- Two admins that demote each other at the same time leave none (`invitationService.ts` 353): `AdminStays`
  holds up to such races (`raced`).
- `createApiKey` counts and inserts "atomically" (`apiKeyService.ts` 30) in a transaction that READ COMMITTED
  lets overlap: two requests both count one key too few and both insert (`organisation_keys`).
- Nobody can be invited twice: the unique index of `0000_init.sql` 389 knows no status, though `schema.ts` 113
  expects a partial one; the refusal says "already pending". A status is written by id, so a cancel or decline
  may overwrite `accepted`.

**Authentication**

- "Clear lockout (after successful login or password reset)" (`redis.ts` 411; `core.ts` 120): a reset
  clears nothing.
- "allow them to proceed (completing signup)" (`verification.ts` 133): `completeSignup` refuses every
  address that exists. A completed sign-up whose answer is lost can only be answered "Unable to complete
  registration"; reloading the page at its last step leads back to a code that is deleted.
- A refresh token stored between SMEMBERS and DEL of a logout from all devices keeps its key and leaves
  the set, so it survives this one and no later revocation finds it (`late` in `AuthStores`). A
  challenge outlives a password change.
- TOTP replay is checked and marked by two commands; attempts are compared and counted by two. Setup
  against verification, and regeneration against disabling, may show codes that are not stored. A mail
  that fails leaves no code in force, neither its own nor the one mailed before (`verification.ts` 141,
  151), and may leave the cooldown; two resends that overlap, or a throw between storing and mailing,
  may leave in force a code that nobody was sent. No page calls the regeneration of recovery codes.

**Web session.** "Refresh auth store to pick up new org" (`AcceptInvite.tsx` 54): `refreshAuth` refreshes for the
old organisation (`auth-store.ts` 210), so the page may show another than the token speaks for.

**Map.** Positions dragged in one account may be stored under another's key
(`AccountInfrastructureMap.tsx` 68, 346); filters survive a switch of account; its queries are not
invalidated after a scan, though `use-aws-accounts.ts` 188 says "Invalidate all data that depends on
scan results". Connections-first stacks orphans in one spot when nothing is connected; a resource of a
torn fetch is drawn twice by three layouts; edges of the network view and the count of orphans disregard
filters.

**Findings pages and dashboard**

- The API takes severities low, medium and high only (`routes/findings.ts` 23); the page offers critical
  and trivial, which answer 400 and leave the list empty.
- `/stats` ignores `awsAccountId` although `AccountFindings.tsx` 39 says "Fetch account-specific data":
  the cards of an account count the organisation. Counts are of open findings, "Showing n of m" of all.
- The list is capped at 100, so "Export all findings" (up to 10 000) exports 100, without the filter on
  several types; the page shows the first 50. "No issues found" is shown while counts load or have
  failed.
- An update's late answer changes the status shown of whatever finding the dialog shows by then
  (`Findings.tsx` 146; `strayed`): it then shows the wrong status until the list changes that row. A
  first load of counts that an invalidation joins stays stale. Six counts are six statements.
- Counts by type keep what `hideTrivial` hides; a type found in two severities is taken off one when it
  is hidden (`use-findings.ts` 215); the total of the donut is unfiltered; some links lose their query
  on a redirect, one leads to a route that does not exist.


## 7. Plan

1. The modules above, with the proofs of section 4: done.
2. `Notifications` (lock shorter than the period, look-back, mark before send), composed with
   `WebhookDelivery`'s enqueue: duplicates and losses per crash.
3. The pages of scans and resources, where their polling decides what is shown; the map over all
   accounts.

New questions share the instances that exist where they can; a proof comes last for each module, once
TLC has agreed with the inductive invariant.
