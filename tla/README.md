# Lodia: a TLA+ verification project

Lodia collects long-horizon task data: contributors submit text, the system
redacts and annotates it into *cases*, reviewers work on the cases, cases are
exported as *datasets*, buyers read datasets through delivery grants, and the
revenue of an export is split among the contributors of its cases and paid in
batches. The backend is one Go module, `apps/api-go`: an API process, worker
processes, MySQL, Redis and an object store.

This directory holds TLA+ models of its components, TLC configurations that
check small instances, and TLAPS proofs for all instances. Paths below are
relative to `src/apps/api-go/internal`.

## 1. Inventory

### How the parts interact

    contributor                reviewer           admin              buyer
        |                         |                 |                  |
    [intake] --push--> Redis   [review] cases   [datasets]--plan-->[payout ledger]
        | rows, raw text   |      ^                 |               ^        |
        v                  v      |                 v               |        v
      MySQL, objects <-- [worker: processing]   [delivery grants] <-+-- disputes,
                                                    ^                   withdrawals
                                                    +--- evaluations

Nothing is held in the memory of a process between requests except the buckets
of the rate limiter. Components meet in MySQL rows, in the Redis list and in
objects. A handler issues one SQL statement after the other; only a few
operations open a transaction. So the unit of atomicity is the statement, or
the transaction where there is one, and all handlers and workers interleave at
that grain.

### Components

| component | state | operations | hard behaviour | what makes it correct |
| --- | --- | --- | --- | --- |
| submission intake (`httpapi/server.go` `createSubmissionFromText`) | `submissions`, `jobs`, raw object, Redis list | store text, insert two rows, push the id or process inline | four calls in a row, each may fail or be ambiguous | nothing accepted is lost; a job is in the queue or its failure is visible |
| job queue (`jobqueue/redis.go`) | one Redis list | LPUSH, BRPOP | lost and repeated ids | each id is handled, at least once |
| worker (`httpapi/worker.go`) | popped id | claim, process, record, push again | crash after pop, repeated ids, dropped push errors | one attempt at a time, a bounded number of them |
| job ledger (`store/store.go` 396-490) | `jobs.status`, `attempts` | create, running, done, failed | unguarded writes from two processes | the status tells the truth; done and failed are final |
| submission processing (`httpapi/processor.go`) | `submissions.status`, `cases`, raw object | look up, create case, mark, purge | races between equal texts, ignored errors, purge | raw text goes only when its case exists; outcomes name their case |
| review and claims (`store/store.go` 326-394) | `cases.status`, claim, DRL | claim with a lease, release, decide, refine | expired leases, unconditional writes | a decision is not undone by a stale write |
| redaction, gate and evaluation (`redaction`, `annotation`, `focus`) | none | `Redact`, `Gate`, `WithLongHorizonRefinement`, `Evaluate` | thresholds, rounding | what failed redaction is never sold; a commercial mark is earned |
| datasets (`httpapi/server.go` 460-569, `ops.go` 390-633) | `datasets`, artifacts, evaluations | export, evaluate | several writes without a transaction, stale evaluations | a listed export is complete |
| payout plan (`httpapi/server.go` 1246) | none | `payoutPlan` | floats, remainders | every cent is paid, fairly |
| payout ledger (`store/ledger.go`, `store/business.go`, `ops.go` 20-132) | `payout_events`, `payout_batches`, `payout_transfers` | record usage, create batch, transfer, settle | reads long before the write, overlapping requests | an event is paid once, in one batch, after the money moved |
| disputes (`ops.go` 258-328, `store/operational.go`) | `disputes` | open, resolve, block | read before use | a hold stops what it covers |
| payout profiles (`ops.go` 1481) | `payout_profiles` | insert a row per change | several rows per contributor | settled means verified payee |
| delivery (`ops.go` 1337-1642, `server.go` 590) | `delivery_grants` | grant, check, count a read, send; send without a grant | limit under concurrency, stale blockers | reads of a grant stay within its limit; it delivers no blocked data |
| orders, invoices, customers | one row each | insert, update | few | revenue before delivery |
| withdrawals and DSR (`ops.go` 656-710, 1514) | `authorization_withdrawals`, `dsr_requests` | withdraw, fulfil | failure between two writes | withdrawn data is not delivered |
| rate limiter (`httpapi/middleware.go` 182-239) | buckets under a mutex | `Allow`, prune | window edges, many clients | never more than the limit in one window |
| users and tokens (`store/auth.go`) | `users`, `auth_tokens` | issue, look up, revoke | revocation racing lookup | a revoked token stops working |
| inboxes, webhooks, assets, trace import (`httpapi/server.go`, `ops.go`) | `inboxes`, `inbound_messages`, `webhook_cases`, `assets`, asset objects | each calls `createSubmissionFromText` and adds rows around it | check then insert, body and row in two calls | a row names a submission, a body and an owner that are its own |
| migrations (`store/migrations.go`) | tables, `schema_migrations` | create, register, status | a start that dies half-way, upgrades, two releases at once | the status of the registry tells the truth about the tables |
| readiness and alerts (`ops.go` 933-1123) | reads `users`, `provider_configs`, `compliance_tasks` | `launchReadiness`, `operationalAlerts`, `bootstrapInternalTest` | reads of different moments, errors taken for nothing found | after ready, no critical alert |
| object store, STS, model gateway, config, other admin reports, web | | | | see section 7 |

## 2. Modules

| module | role |
| --- | --- |
| `Ingestion` | intake, queue, workers, job ledger and processing, call by call, with failures |
| `JobLifecycle` | abstract: what the jobs table promises to an operator |
| `MCIngestion` | instances of `Ingestion` |
| `Ingestion_proofs` | theorems about `Ingestion` |
| `PayoutLedger` | payout events, batches, transfers, disputes, profiles, settlement |
| `PayoutLifecycle` | abstract: what the ledger promises to a contributor |
| `MCPayoutLedger` | instances of `PayoutLedger` |
| `PayoutLedger_proofs` | theorems about `PayoutLedger` |
| `PayoutPlan` | the split of revenue, as a relation |
| `MCPayoutPlan` | inputs of `PayoutPlan` |
| `Sums` | lemmas: what is known of the sum of a function over any finite set |
| `PayoutPlan_proofs` | theorems about `PayoutPlan` |
| `QualityGate` | redaction risk, long horizon score, gateway answer and gate, as operators |
| `Review` | the `cases` table: worker's insert, claims with leases, decisions, refinements |
| `MCReview` | instances of `Review` |
| `Review_proofs` | theorems about `Review` |
| `Delivery` | exports, evaluations, orders, grants, downloads, withdrawals, DSR, disputes |
| `MeteredReads` | abstract: what a delivery grant promises about its reads |
| `MCDelivery` | an instance of `Delivery`, in scenes |
| `Delivery_proofs` | theorems about `Delivery` |
| `RateLimit` | the fixed window limiter with its clock and its pruning |
| `Launch` | start of releases, migration registry, readiness and alerts |
| `Intake` | the routes in front of `createSubmissionFromText` and the rows they add |
| `Intake_proofs` | theorems about `Intake` |
| `Platform` | `RateLimit`, `Launch` and `Intake` side by side |
| `MCPlatform` | an instance of `Platform` |
| `Platform_proofs` | theorems about `Launch`, `RateLimit` and the whole |

How the modules share the system: `Ingestion` has the life of a submission up to
its case, and abstracts what the case says; `Review` uses the operators of
`QualityGate` for what the case says and abstracts how it came about. `Delivery`
lets the three columns it reads of a case change in any way, which includes
every way of `Review`. `PayoutLedger` begins with the usage event that an export
of `Delivery` writes. `Intake` stops where `Ingestion` begins, and `Launch` uses
the health operator of `QualityGate`.

`PROJECT.json` maps every definition to the lines it models.

### Ingestion

Actors are workers and handlers. A submission, its job and the handler that
accepts it share a name (the code creates one of each together), and a case is
named by the submission that created it. `pc` is the next call an actor makes
outside its process; one action is one such call, with the local code after it.

| variable | code |
| --- | --- |
| `raw` | the object `raw/<source>/<sub>.txt` |
| `rawDeleted`, `subStatus`, `dupOf` | `submissions.raw_deleted_at`, `status`, `duplicate_of_case_id` |
| `cases` | rows of `cases`; the two unique keys admit one per submission and per canonical hash |
| `jobStatus`, `attempts` | `jobs.status`, `attempts` |
| `queue` | the Redis list `lodia:queue:<name>` |
| `cur`, `found`, `retry` | locals: the popped id, the case that was found, `shouldRetry` |

Texts are abstracted to their canonical hash: redaction is deterministic, so
equal texts have equal hashes, and that is all that processing looks at.
`MarkJobFailed` is two actions, `GetJob` and `SetRetry`, because it decides
from a read and writes later without a guard. Audit rows, which nothing reads
back, are left out.

Failures are kinds in the constant `Faults`, at most `MaxFaults` in a
behaviour: `crash` (a process dies between two calls), `push` (LPUSH fails),
`unacked` (LPUSH delivers, its reply is lost), `twice` (the client library
retries a delivered LPUSH), `pop` (BRPOP removes an id, its reply is lost),
`db` (a statement fails), `dbAck` (a write takes effect, its reply is lost),
`object` (an object-store call fails, with or without effect). A handler dies
for good; a worker restarts and waits for the next id.

### PayoutLedger

Requests (`createPayoutBatch`, `settlePayoutBatch`) have a program counter; one
action is one statement or transaction. A batch is named by the request that
may create it. Disputes name an entity, and `Covers` says which payout events
mention it, so a dispute may be about an event, a case, a dataset or a
contributor. Amounts are whole cents. `paid` and `since` are history variables:
they record which batches were covered by succeeded transfers at some moment,
and which holds have been open since a request began. No guard reads them.

`ListPending` may return any events up to the limit: all events of one usage
carry one `created_at`, by which the query orders. `CreateBatch` is the whole
transaction, rolled back unless every listed event is still pending. `Settle`
is the whole transaction, which checks nothing. `ConfirmTransfer` sets any of
the statuses at any time, as the handler does.

### PayoutPlan

`payoutPlan` is a function of floats. The model gives the *set* of results the
float arithmetic may produce: a quota that is a whole number may be cut to the
integer below, and equal remainders may compare either way. A property of all
members of the set is a property of the code. Scores are in hundredths, as the
annotation rounds them. That the rounding errors of a float matter only where a quota
is a whole number or remainders are equal holds while they stay below one unit of
remainder, which they do for any realistic revenue and not for revenues near 2^53
cents. The state machine adds eligible cases one by one and
then plans an export, so TLC enumerates the inputs.

### QualityGate and Review

A text is a record of what the program finds in it: the number of matches of
each kind of secret, the fields that can be extracted, its length and its
allowed uses. The scores are whole numbers: risks in ten thousandths, the long
horizon score in nine hundredths until it is rounded to hundredths as the code
does. The redacted text keeps one finding: `key=[REDACTED_SECRET]` matches the
pattern of a secret assignment again, and `Residual` says so.

In `Review` a request is one decision or one refinement. A refinement is a read
(`ReadForRefinement`) and a write of all columns computed from it
(`UpdateLongHorizon`), and anything may happen in between. `ReleaseCase` has no
guard but the existence of the case, as in the code. Time is the age of a claim:
`Tick` lets all claims age, and an age above `Lease` is an expired claim.
`proven` is history. `order` is `created_at`.

### Delivery

A request is one handler call; its record holds the handler's locals and, in
`began`, the withdrawals and disputes that stood when it began, which no guard
reads. Abstractions:

- An authorization id is any function of the owner (`AuthorizationID`), so that two
  owners may share one.
- Purposes are the classes `HoldoutIsolationRequired` tells apart: `eval`,
  `commercial` and other.
- The redacted text of a case never changes, so its scan has one possible
  result (`Unsafe`); what changes is whether the scan was made.
- An evaluation also checks the minimum DRL and looks for missing and repeated
  rows. Eligible cases are commercially ready and so at DRL3 (`ReadyIsEarned`),
  rows are not deleted and ids are unique, so these checks are left out.
- The overlap query returns at most `OverlapLimit` rows, those of later datasets
  first; `OverlapsRead` gives all sets it may return.
- The loop over artifacts, owners and cases is in any order.

Bodies leave by two routes. `enterprisePortalArtifact` is the request that ends in
`SendBody`; `sent` counts its bodies for each grant. `datasetArtifact` (`server.go`
590-602) takes a dataset and an artifact and sends the body: no token, grant,
evaluation, withdrawal or dispute is looked at and no read is counted. It is the
action `DatasetArtifact`, which depends on the artifact's row alone and notes the
dataset in the history `handed`. What the evaluation, the withdrawals, the disputes
and the reads promise is promised of the first route only, and the properties say so.

### RateLimit, Launch and Intake

`RateLimit`: `ReadClock` is `time.Now()` before the mutex and `Allow` is the critical
section, so a window is judged by a clock that may be behind by the wait for the
mutex. `Delay` bounds that wait; the code does not, and the properties are stated
with it. The history `admitted` keeps, for each client, the requests that were let
through in their order, each with its moment and its window.

`Launch`: every release has tables, groups and definitions of its own
(`Definition`, `Expected`, `GroupsOf`), so that an upgrade may append a group, add a
table to one, or change a definition. A process creates its tables one by one,
registers the groups of its release one by one, and serves. A request for its
readiness or its alerts (`asks`) is one read per action, each of which may fail and
then finds nothing: the five of `launchReadiness`, and of `operationalAlerts` the one
of the migration status and, in production, the three of providers and compliance
evidence (`Reads`). Without OSS the code does not go on to ask for STS; the model
names both, which makes no difference to whether a release is ready. Rows of
compliance tasks and providers are also filed by operators, outside the program, since
no route writes them (external in the map). `mixed`, `ready`, `wasReady` and `failed`
are history.

`Intake`: a request is one call of a route; `Submit` is the whole of
`createSubmissionFromText`, which may leave its row and fail.

`Platform` lets the three step side by side. They share no variable. That a request
passes the limiter before its handler, and that only a serving process answers, is
left out; both only take behaviours away.

## 3. Runs

| run | instance | checks | result |
| --- | --- | --- | --- |
| `ingestion_faults` | 2 submissions of equal content, one inline; 2 workers; all 8 kinds of failure, 3 in a behaviour; 2 attempts; purge on | `TypeOK`, `NoContributionLost`, `OutcomeNamesItsCase`, `DoneHasCase`, `AttemptsOverrunByOne` | pass, 308,033 states |
| `ingestion_live` | 2 queued submissions of equal content, 2 workers, repeated ids and object errors, 3 in a behaviour | `ExclusiveAttempt`, `LifecycleKept`, `JobsSettle` | pass, 29,058 states |
| `ingestion_retry` | one failed push | `RetryIsTaken` | violated |
| `ingestion_idempotent` | one failed statement | `RetryIsIdempotent` | violated |
| `payout_ledger` | 2 events of 2 usages (2 and 1 cents), 2 batch requests, 1 settlement, 2 transfers, 1 dispute over one or both events, minimum 0 or 2 | `TypeOK`, `BatchAddsUp`, `EventFollowsBatch`, `SettledWasPaid`, `SettledToVerified`, `HoldStops`, `PayoutsKept` | pass, 931,361 states |
| `payout_hold` | 2 events, 1 batch request, 1 settlement, 1 transfer, 1 dispute, no minimum | `NoSettlementUnderHold` | violated |
| `payout_profile` | as `payout_hold` | `ProfileCheckIsCurrent` | violated |
| `review` | 2 cases, 2 reviewers, 2 requests; three kinds of texts for the first case, gateway answering or failing; a passing and a failing refinement; lease of one tick | `TypeOK`, `Quarantined`, `ReadyIsEarned`, `LabelTellsFields`, `InReviewIsHeld`, `LiveClaimKept`, `OldestIsServed` | pass, about 328,000 states |
| `review_overwrite` | as `review` | `NoOverwrite` | violated |
| `delivery` | 3 cases of 2 owners, one unsafe; 2 datasets, 2 artifacts, 1 order, grant, dispute and DSR, 2 requests; five scenes | `TypeOK`, `BilledIsComplete`, `HoldoutIsolation`, `GrantSendsOnlySafe`, `GrantIsOrdered`, `FulfilledIsWithdrawn`, `ExportIsAuthorized`, `DownloadIsClear`, `ReadsMetered` | pass, about 452,000 states |
| `platform` | limiter: 2 clients, 2 threads, limit 1, window 3, 8 moments; start: 2 processes, 3 releases, 2 tables in 2 groups; asks: 2 releases, 3 configurations; doors: 2 owners with one address, 2 submissions, 2 assets, 2 requests | `TypesOK`, `BurstBounded`, `RefusedIsBusy`, `StatusTellsTables`, `ReadyIsQuiet`, `NothingMisfiled` | pass, 980,453 states |
| `payout_plan` | up to 4 cases, scores 0, 0.05, 0.50, 0.78, 1; revenue -1 to 9, 23, 100 cents; cost 0 or 2 | `SplitsThePool`, `NoFairerSplit`, `MoreWeightEarnsMore` | pass, 15,346 states |

Why the bounds are enough for the hazards they are after:

- Ingestion: the races are between two actors about one job (repeated ids,
  handler against worker) or between two jobs with one hash. Two submissions
  of one content and two workers have all of them; three failures suffice for
  an ambiguous push followed by a failing attempt and a failing record. Two
  attempts make the limit, and its overrun, reachable. The proofs remove these
  bounds for the properties they cover.
- Ledger: two requests for batches with limits 1 and 2 list overlapping,
  disjoint and equal sets of events; two transfers may split, miss or exceed
  the sum of a batch; one dispute is opened and resolved at every point.
  Batches, settlers and transfers are interchangeable and the properties are
  safety properties, so symmetry is sound. A second settlement request was
  checked as well (2.9 million states) and is left out of the run for time.
- Plan: revenues around the number of cases have every number of leftover
  cents; the scores have equal, nearly equal and very different weights, and
  the score 0 that is replaced by 0.1. The bound is on inputs, not on steps.

- Review: the races are between two requests on one case, with a claim, a release
  or time between them; the second case is there for the queue. `Narrow` lets one
  request at a time run once the second case exists, while claims, releases and
  time go on. Every step of a single case with two requests is covered.
- Delivery: two requests, since every race in it is between a read and a later
  use of one request and a step of one other, or of an admin. All handlers
  together are too many states, so a behaviour keeps to one *scene*: exports
  beside reviews and withdrawals; evaluations of two datasets; deliveries of one
  dataset; its orders; data subject requests beside an export. Within a scene
  everything interleaves. The theorems have no scenes and no bounds. Requests
  are interchangeable and all properties are safety properties (symmetry).
- Platform: the three parts share no variable, so a behaviour of one with the
  others still is a behaviour of each. The limiter's window of 3 in 8 moments
  fits two windows and the edge between them, and a capacity of 2 makes pruning
  run. Of the releases one appends a group, which is the ordinary upgrade, and one
  changes a definition. A behaviour either has starts of all three with nothing asked,
  or asks: then two releases start beside the requests, two processes run at a time
  only with the complete configuration, one request at a time is asked and followed
  while it has missed at most one signal, alerts are asked of a process that was
  ready, and evidence is filed while some process serves, an administrator first. Two
  processes suffice for a start that meets another release; the theorems are for any
  number. The two owners of the doors have one inbox address between them, so that
  their requests meet at its unique key and a row could be filed under the wrong one.
- One customer in the delivery run: that a grant's customer is its order's is left to
  the theorem.

`CHECK_DEADLOCK FALSE` where a system may stop: in ingestion and payouts requests
end and workers wait for ids that need not come; on the platform the time of the
limiter and the ids of the doors run out. The review and delivery runs check
deadlock.

### Fairness

`Ingestion!Fairness` is weak fairness of every worker and of every handler that
has started. The Go scheduler runs every goroutine, a worker is a loop that
never ends, and calls have timeouts, so an actor that can make its next call
makes it. A request need not arrive and no failure need happen.

`Review!Spec` has weak fairness of `Tick`, as time passes, and of `Claim`, as some
reviewer keeps asking for work. No request has to end and no reviewer has to decide.
`OldestIsServed` follows: the oldest case of the
queue leaves it or is claimed afresh again and again, because a claim expires.

`JobsSettle`
is checked without `crash`, `push`, `pop` and `db`: with any of these a job can stay
where it is for ever, because nothing scans the table (findings below).

### Findings

The violated properties state what a document of the repository says.

- `RetryIsTaken`: a job is set to `retry` when its push fails (`server.go`
  1040-1041; the same push error is dropped at `worker.go` 92), and nothing
  takes it again. `docs/LODIA_TECH_ARCHITECTURE.md` 1737: all tasks can be retried;
  `docs/PRODUCTION_CORE.md` 8: the jobs table is the retry ledger.
- `RetryIsIdempotent`: if reading the new case back fails (`processor.go` 89),
  every retry fails on the purged raw text and the job ends `failed` although
  its case exists. `docs/LODIA_TECH_ARCHITECTURE.md` 1738: all consumers are
  idempotent.
- `NoSettlementUnderHold`: a hold opened after `ops.go` 102 does not stop the
  transaction of `ops.go` 125. `docs/PRODUCTION_CORE.md` 43 and 165. What does
  hold is `HoldStops`: a hold that was open when the request began, and stays
  open, stops it.
- `ProfileCheckIsCurrent`: any old active profile row satisfies the check
  (`store/business.go` 251), although the newest waits for verification.
  `docs/PRODUCTION_CORE.md` 42.
- `NoOverwrite`: a refinement is written over a gate it has not read (`server.go`
  411 and 434). `docs/LODIA_TECH_ARCHITECTURE.md` 741: review actions carry a
  version number. What does hold is `ReadyIsEarned` and `LabelTellsFields`.

Differences met while modelling, which the models contain and no run is about:

- The worker writes DRL3 directly (`annotation.go` `Gate`);
  `docs/LODIA_TECH_ARCHITECTURE.md` 720-721: no automatic worker writes DRL3 or above.
- A passing refinement leaves `BlockedUses` and `model_gateway_retry` in the gate, and
  a failing one leaves DRL3 and `commercial_ready` in place; `EligibleCases` takes
  cases nobody has approved.
- A delivery grant that names no order needs no recognised one;
  `docs/PRODUCTION_CORE.md` 40: the order must be recognised.
- The overlap query stops at 5000 rows before they are filtered by purpose, so
  holdout isolation rests on the number of overlaps (`OverlapsFit`).
- Inbound mail is not idempotent: a message received twice makes two submissions;
  `docs/LODIA_TECH_ARCHITECTURE.md` 310 names an idempotency key.
- `datasetArtifact` sends the body of any artifact, data included, and looks at
  nothing else; `docs/PRODUCTION_CORE.md` 43: an open dispute blocks the delivery of
  affected data, and 165: the delivery path reads the disputes. Both hold of the
  portal (`DownloadIsClear`), neither of this route.
- When two releases disagree about a table before its group is registered, because
  one died after creating it or they start side by side, the status hides the drift
  (`docs/PRODUCTION_CORE.md` 57: drift is recognised); those tables, and only those,
  are `mixed`, and `StatusTellsTables` says of them that they exist. On the other
  hand, a release that adds a table to a group that is registered never matches again.
- The mock provider of `bootstrapInternalTest` counts as an active provider, and no
  route writes a compliance task but the placeholder, so production readiness
  needs rows that operators insert.

## 4. Properties and what they rest on

- `NoContributionLost` rests on the order find or create, then purge, and on
  `CreateCase` reporting an ignored INSERT as an error. It survives every
  failure the model has, repeated runs of one job included.
- `OutcomeNamesItsCase` rests on the unique key: the loser of the race finds
  the winner's case when it looks again. A retry may turn a processed
  submission into a failed one, so nothing is claimed of `failed`.
- `AttemptsOverrunByOne`: the bound on attempts is `MaxAttempts` except after an
  ambiguous push, when the handler's own `MarkJobFailed` may set a failed or
  running job back to `retry` once.
- `ExclusiveAttempt` and `LifecycleKept` hold when pushes are not ambiguous
  (repeated ids are allowed): the guarded UPDATE admits one worker per waiting
  status. With `unacked` the handler can reopen a running job; that is why they
  belong to the second run.
- `BatchAddsUp` and `PayoutsKept` rest on the count of updated rows in
  `CreatePayoutBatchForEvents`.
- `SettledWasPaid` holds across the separate count and sum because the sum is
  read in one statement and a batch has a positive number of events; it speaks
  of a moment in the past because a transfer may be set back later.
- `Quarantined` and `ReadyIsEarned` rest on `WithLongHorizonRefinement` leaving a
  gate at DRL0 alone and on the text of a case never changing: a gate read long
  ago is still a gate of the same text.
- `LabelTellsFields` rests on one UPDATE writing fields and gate together.
- `InReviewIsHeld` rests on no decision setting `in_review` and on release clearing
  status and claim together; `LiveClaimKept` on the one guarded UPDATE of a claim.
  It speaks of claims, not of decisions: a decision needs no claim in the code.
- `BilledIsComplete` rests on the order of `createDataset`; `HoldoutIsolation` on the
  later of two datasets always seeing the earlier one, since ids only grow.
- `GrantSendsOnlySafe` uses an old evaluation: it holds because scans and artifacts
  are only added and the cases of a dataset never change. It speaks of bodies sent
  under a grant.
- `DownloadIsClear` and `ExportIsAuthorized` are about what stood when the request
  began. A withdrawal that arrives during a download may come too late.
  `DownloadIsClear`, too, speaks of downloads under a grant.
- `ReadsMetered` rests on the guarded UPDATE of `IncrementDeliveryGrantRead`, not on
  the check before it, and on counting before sending.
- `BurstBounded`: two windows meet in one span of a window's length, so the bound is
  twice the limit; `RefusedIsBusy` rules out that pruning or the window's edge
  refuses an idle client.
- `StatusTellsTables` rests on a checksum being registered once, after the tables of
  the release that registers it. It covers crashes with repeated starts, starts side by
  side and upgrades; a registry whose groups come from successive releases matches.
  Of tables that are `mixed` it says only that they exist.
- `ReadyIsQuiet` needs every fact that readiness reads to be one that stays. It excepts
  alerts a read of which failed: such a request reports a critical alert about what
  it could not read, also of a process that was ready.
- `SettledToVerified` is about rows that were active once; that a newer row may be
  waiting is what `ProfileCheckIsCurrent` shows.
- `NothingMisfiled` rests on the unique key on inbox addresses, also where two owners
  share one, and on bodies being
  stored before their rows.

## 5. Proofs

`Ingestion_proofs` proves, for every set of submissions and workers, every
assignment of hashes, every `MaxAttempts`, with and without purging, and for
every set of failure kinds and any number of failures:

| theorem | statement |
| --- | --- |
| `TypeCorrect` | `Spec => []TypeOK` |
| `ContributionsSafe` | `Spec => []NoContributionLost` |
| `OutcomesHold` | `Spec => []OutcomeNamesItsCase` |
| `DoneJobsHold` | `Spec => []DoneHasCase` |
| `AttemptsBounded` | `Spec => []AttemptsOverrunByOne` |
| `AttemptsExclusive` | `Spec => []ExclusiveAttempt`, if `"unacked" \notin Faults` |
| `LifecycleImplemented` | `Spec => LifecycleKept`, the refinement of `JobLifecycle`, if `"unacked" \notin Faults` |

The only assumption beside that is `IngestionAssumption`, which TLC evaluates in
every run. Without the hypothesis on `unacked` the last two are false: a push that
was delivered and reported as failed lets the handler reopen a job that a worker
runs.

None of these but the first is inductive. A step "mark processed" is harmless only
because the actor that takes it has created the case before, and "purge" only
because its actor has created or found one. `ContributionInv` adds exactly what
an actor has learned before each of its calls:

- `AllLearned`: an actor about to mark, purge or report success knows a case
  with the hash of its submission; an actor about to mark a duplicate has found
  one (`found`); an actor that has created a case finds its own.
- `AcceptedAlone`: before the handler has created or pushed a job, no worker
  holds its id and the queue does not contain it, and its submission has no
  duplicate pointer, so the INSERT that sets `queued` overwrites nothing.

`cases` only grows (`CasesGrow`), so what one actor has learned is not undone by
another (`OtherLearned`); the actor's own step is treated action by action
(`HandlerLearned`, `WorkerLearned`, `ProcessLearned`). `ContributionInv` was
checked by TLC on the instance of `ingestion_faults` before it was proved.

For attempts, `JobStep` sorts every step by what it does to one job: it is quiet,
decides on a retry, accepts the job, fails its push, claims it, finishes it or ends
the attempt. `OverrunInv` then counts *parties*, which are the waiting row and
those at work on the job: there are two at first, the row and the handler, and a
claim or a failed attempt only turns one into the other (`TwoParties`). Each party
that was told to retry below the limit costs one attempt beyond it at most, and at
the limit at most one is left that was (`AtLimit`), none beyond it. `AttemptInv`,
without `unacked`: nobody else knows a job before its handler has ended
(`HandlerFirst`), one actor is at work on it (`OneHolder`), and what `MarkJobFailed`
read of the attempts is still true when it writes (`ReadHolds`). The refinement maps
each kind of step to one of `JobLifecycle` or a stutter. Both invariants were checked
by TLC first.

`PayoutLedger_proofs` proves, for every set of events, usages, amounts, payees,
requests, transfers, disputes, limits and minimums that satisfies
`LedgerAssumption` (also evaluated by TLC):

| theorem | statement |
| --- | --- |
| `EventsFollowBatches` | `Spec => []EventFollowsBatch` |
| `BatchesAddUp` | `Spec => []BatchAddsUp` |
| `OnlyVerifiedSettled` | `Spec => []SettledToVerified` |
| `HoldsStop` | `Spec => HoldStops`, an action property |
| `PayoutsImplement` | `Spec => PayoutsKept`, the refinement of `PayoutLifecycle` |
| `SettledWerePaid` | `Spec => []SettledWasPaid` |
| `TypeCorrect` | `Spec => []TypeOK` |

The first five rest on one inductive invariant, `LedgerInv` (checked by TLC on the
instance of `payout_ledger` first). Its point is what a request still knows
of the ledger when it uses an earlier read:

- `RequestsKnown`: a batch request that has not ended has made no batch and has
  listed something; a settlement past its first read has chosen a batch that
  exists. So a new batch has no events yet, and events that are attached never
  join a batch that somebody is settling.
- `HoldsKnown`: after its check of the disputes, a request's listed events (or
  the events of its batch) are under no hold that has been open since it began.
  The set of events a settlement looks at cannot grow in between, because no
  action attaches an event to a batch that exists.
- `VerifiedKnown`: after the profile check every payee of the batch has an
  active row; rows are only added.

`MoveKeeps` treats every step that only moves a request on, and the frame
lemmas say what each part of the invariant depends on. `BatchesAddUp` computes no
sum: the total is taken of the very set that the transaction attaches.

`SettledWerePaid` does: the settlement reads the count and the sum of succeeded
transfers apart, and transfers are made and confirmed in between. `MoneyInv` adds to
`LedgerInv` that every batch covered by its transfers *now* was covered at some
moment (`PaidKnown`), and that a request about to settle has seen its batch covered.
A step that touches one transfer changes one term of the sum. Only finitely many
transfers have been made at any moment, so that nothing has to be assumed of
`Transfers`.

`Sums` has the lemmas about `SumFunctionOnSet` this needs: a sum is its parts' sum
whatever the order the fold takes them in, it is a natural number, it is linear, a
sum of ones and zeroes counts the ones. The induction theorems of the library take
an operator, which no prover here can instantiate. `SetInduction` says the same
of a *set* of sets: a non-empty set of subsets of a finite set has a minimal
element (`FS_StrictSubsetOrderingWellFounded` and `WFMin`), which cannot be a
counterexample.

`PayoutPlan_proofs`, for any scores, revenues, costs and number of cases, and for
every outcome of the float arithmetic that the model allows:

| theorem | statement |
| --- | --- |
| `PlansAddUp` | `Spec => []SplitsThePool` |
| `PlansAreFair` | `Spec => []NoFairerSplit` |
| `PlansAreMonotonic` | `Spec => []MoreWeightEarnsMore` |

The remainder of every case lies between 0 and the total weight, also where a whole
quota came out one low (`Quotas`); so there are no more cents left over than cases
(`LeftoverFits`, with `SumCounts` and `SumLinear`), and the amount of a case is off
its quota by its remainder or by what its remainder lacks of the total weight.

`Review_proofs` proves, for any cases, texts, edits, reviewers, requests and lease:

| theorem | statement |
| --- | --- |
| `QuarantineHolds` | `Spec => []Quarantined` |
| `MarksAreEarned` | `Spec => []ReadyIsEarned` |
| `LabelsAreTrue` | `Spec => []LabelTellsFields` |
| `ReviewsAreHeld` | `Spec => []InReviewIsHeld` |
| `LiveClaimsAreKept` | `Spec => LiveClaimKept`, an action property |
| `TypeCorrect` | `Spec => []TypeOK` |

The invariant `IInv` says of every row that its gate *fits* its text, and of every
refinement in progress that the gate it has read fits the text of the same case
(`RequestsAreSound`). `Fits` does not mention the present row, so it survives
whatever other requests write, and the write of a stale gate gives a row that
fits again. Neither property is inductive without it.

`Delivery_proofs` proves, for any number of cases, owners, datasets, orders,
grants, disputes, DSR and requests, and for any bound on cases and artifacts:

| theorem | statement |
| --- | --- |
| `BillsAreComplete` | `Spec => []BilledIsComplete` |
| `HoldoutsAreIsolated` | `Spec => []HoldoutIsolation`, if `OverlapsFit` |
| `GrantsSendOnlySafe` | `Spec => []GrantSendsOnlySafe` |
| `GrantsAreOrdered` | `Spec => []GrantIsOrdered` |
| `DeletionsAreWithdrawn` | `Spec => []FulfilledIsWithdrawn` |
| `ExportsAreAuthorized` | `Spec => ExportIsAuthorized`, an action property |
| `DownloadsAreClear` | `Spec => DownloadIsClear`, an action property |
| `ReadsAreMetered` | `Spec => ReadsMetered`, the refinement of `MeteredReads` |
| `TypeCorrect` | `Spec => []TypeOK` |

The invariant has one clause for each table (`DatasetOK`, `GrantOK`, `SentOK`,
`DsrOK`) and one for each request (`RequestOK`): what it has learned by its last
call. An evaluation that has not found anything critical has seen all artifacts,
every earlier overlapping dataset, and a scan of each case it has inspected. A
download past its checks has seen no authorization gone of those gone when it
began. `Grows` lists what no step takes back; each step is shown to satisfy it
once, and what other requests know follows from it. `HoldoutIsolation` becomes
inductive when it is asked of a completed dataset and every *earlier* one
(`Isolated`), whether that one was evaluated or not. `OverlapsFit` says that LIMIT
cuts nothing off.

For `ReadsAreMetered` the mapping counts requests: what a grant owes is how many
requests had their read taken off and have not answered (`Pend`). Each step gives a
budget, moves one request into that set or out of it, or leaves all of it alone
(`Metered`), and only finitely many are in it at any time (`MeterInv`). A read
may be lost, when the request fails after `IncrementDeliveryGrantRead`; no body leaves
under a grant without one.

`Intake_proofs`, for any constants:

| theorem | statement |
| --- | --- |
| `NothingIsMisfiled` | `Spec => []NothingMisfiled` |
| `TypeCorrect` | `Spec => []TypeOK` |

An address belongs to the owner of its inbox (`AddressTells`), what a request learned
of its submission and assets stays true (`Honest`), and no two requests record one
asset (`RecordersDiffer`).

`Platform_proofs`, for any constants:

| theorem | statement |
| --- | --- |
| `StatusIsTrue` | `Spec => []StatusTellsTables` (`Spec` is that of `Launch`) |
| `ReadinessLasts` | `Spec => []ReadyIsQuiet` |
| `TypesAreCorrect` | `PlatformSpec => []TypesOK` |
| `BurstsAreBounded` | `PlatformSpec => []BurstBounded` |
| `RefusalsAreBusy` | `PlatformSpec => RefusedIsBusy`, an action property |
| `DoorsFileRight` | `PlatformSpec => []NothingMisfiled` |

For `StatusTellsTables` the invariant speaks of *open* tables, those of groups that
nobody has registered and that are not `mixed`: starts under way define an open table
alike (`VersionsAgree`), and one that exists is as each of them would have made it
(`UnregisteredIsOwn`), also if the process that made it has died. So a start that
registers a group seals its tables as its release defines them (`RegisteredIsSealed`),
and a group registered by another release tells the same of the tables if its checksum
is the same (`SealsTell`). For `ReadyIsQuiet`: what readiness has seen still holds,
since nothing it depends on is taken back; so a process that was ready stays `Quiet`,
and the reads of its alerts find what they do not fail to read (`AsksKnow`).

For the limiter, `LimiterInv` relates a bucket to the history of its client: the last
`count` requests that were let through belong to its window and all earlier ones to
windows that were over when it began (`Counted`); once the bucket is pruned, all of
them do. Hence of any two requests that are `Limit` apart the windows are apart by
`Window`, if the wait for the mutex is shorter than a window (`Spaced`, `Timely`);
of three such requests the last is therefore outside a span of a window less the
wait, which bounds the bursts. A longer wait makes that span empty. A full bucket
has `Limit` requests behind it since its window began, which is what a refusal needs.

The lemma `PartsRun` carries what is proved of a part over to the platform: the parts
share no variable, so each runs by its own specification. The theorems about
the doors are cited from an instance of `Intake_proofs`.

The only assumptions of these modules, beside those the specifications declare:
`None` is no row, request or bucket (`NoneIsNoRow`, `NoneIsNothing`,
`LimiterIsSane`); limit and window are positive whole numbers, which the defaults of
`newRateLimiter` see to (`LimiterIsSane`); every table has a group and no checksum is
`None` (`GroupsAreSane`); LIMIT cuts nothing off (`OverlapsFit`, for `HoldoutIsolation`
alone); and the hypothesis on `unacked` above.

Only model-checked: `OldestIsServed`, `JobsSettle` and everything else under
fairness, which is out of the prover's reach. Every invariant, action property and
refinement that a passing run checks is a theorem, for every value of the constants.
The five properties that are violated are shown by TLC's counterexamples.

## 6. Plan

In this order; each module with its runs, and its theorems when they are listed.

1. `Ingestion`, `JobLifecycle`: done, with theorems for all but liveness.
2. `PayoutLedger`, `PayoutLifecycle`, `Sums`: done, with their theorems.
3. `PayoutPlan`: done, with its theorems.
4. `QualityGate` and `Review`: done, with its theorems. Next to prove: facts about
   the operators of `QualityGate` for every set of fields and findings.
5. `Delivery` and `MeteredReads`: done, with their theorems.
6. `RateLimit`, `Launch`, `Intake`, `Platform`: done, with their theorems.
7. A composition of `Delivery` with `PayoutLedger` over shared disputes, if a property
   is found that neither of them has alone.

## 7. Not modelled, and why

- Users and auth tokens: a token is one row that is inserted, looked up with its
  expiry, and revoked by one UPDATE. A handler that asks for a role (`require`,
  `server.go` 1446) makes one such call before anything else. These routes do not ask:
  `health`, `ready`, `login`, `datasetContract`, `datasetArtifact`, `migrationStatus`,
  `migrationPlan`, `launchReadiness`, `runMaintenance`, the three portal routes, which
  check the token of their grant instead, and the fallbacks for unknown paths. Of
  these, `datasetArtifact`, `launchReadiness` and the portal are modelled; the others
  read, or do nothing, except `login`, which inserts a token. That an admin exists is
  part of `Launch`.
- Invoices, customers and contracts: single-row inserts and updates that nothing
  else reads.
- Metrics, commercial proof (which ignores disputes), tenant quota, source trust:
  reports; no state depends on them. The alerts about failed jobs and payout
  holds come and go with the work and are left out of `CriticalAlerts`.
- Fields of a usage report: its `grant_id` is what the body says; nothing reads it.
- The HTTP exchange with the model gateway is one outcome, ok or error. STS signing,
  annotation wording and the regular expressions of redaction are functions over
  strings; the models use what they find.
- Other middleware: headers and logs.
- Web console, site and deployment scripts: no state of the system.

Hazards without a property, each with its reason, are in `PROJECT.json`: a job whose
worker died stays running; an inline submission that failed leaves its job
queued; a repeated transfer; a transfer set back after settlement; the LIMIT of
the overlap query; bodies that `datasetArtifact` sends without a grant.

## 8. Running

    tlc -workers 2 -config MCIngestionFaults.cfg MCIngestion
    tlc -workers 2 -config MCPayoutLedger.cfg MCPayoutLedger
    tlc -workers 2 -config MCReview.cfg MCReview
    tlc -workers 2 -config MCDelivery.cfg MCDelivery
    tlc -workers 2 -config MCPlatform.cfg MCPlatform
    tlapm Delivery_proofs.tla

and likewise for the other configurations and proof modules. The proofs of
`Delivery` and `Ingestion` take a few minutes each.
