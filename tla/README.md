# Formal model of the AI governance gateway

TLA+ modules, TLC configurations and TLAPS proofs for
`services/governance-api`: the Go service that stores a governance decision, a
budget decision, a route and a usage record for every model invocation, and
that calls the model provider only behind the two decisions; and for what it
runs on: its connection pool, its migrations, the scripts that open the
database to an operator.

Paths below are relative to `src/services/governance-api` unless they begin
with `src/`.

## 1. Inventory

| Component | State | Operations | Interacts with |
|---|---|---|---|
| governance (`internal/governance`) | tables `governance_requests`, `policy_decisions` | `CreateRequest` (validate, `EvaluatePolicy`, one transaction), `GetRequest` (read) | called by both HTTP surfaces and by the router |
| budget guardrail (`internal/budget`) | tables `budget_policies` (written by administrators only), `budget_decisions` | `Evaluate`: `FindActivePolicy`, `CurrentSpend`, decision table, `RecordDecision` | reads the usage that the router records |
| FinOps (`internal/finops`) | price catalogue, built once at start | `NewStaticCatalog`, `Lookup`, `Estimate` | called by `main.go`, and by the router after the provider |
| AI router (`internal/airouter`) | tables `model_routes`, `usage_records`; constant route table | `Invoke`, `RecordInvocation` (one transaction) | governance, budget, provider, FinOps, in this order |
| providers (`internal/provider`) | none | `Invoke` of Azure OpenAI (SDK with two retries of 60 s) and of the mock | external model |
| HTTP API (`internal/httpserver/server.go`) | none | `POST /v1/governance/requests`, `POST /v1/ai/invoke`, GETs, health | router, governance |
| OpenAI facade (`openai_compat.go`) | none | `POST /v1/chat/completions` | router |
| schema (`migrations/`) | columns, constraints | up and down migrations | all repositories |
| process (`cmd/governance-api/main.go`) | running, draining, gone | wiring, SIGTERM, graceful shutdown with a deadline | the HTTP server |
| connection pool (`internal/database`) | five connections, the queue for them | acquire, wait, release, close | every statement, transaction and readiness probe |
| migration runner (`scripts/run-migrations.sh`) | `schema_migrations`, the schema | look up history, guard, apply and record per file | other runs, the operator |
| Azure migration (`scripts/migrate-azure.sh`) | a firewall rule | open, run the migrations, remove | the runner, the database server |
| demo database access (`src/scripts`) | firewall rules, state file | open, close | the database server |

Handlers share no memory but the pool: every other interaction goes through the
tables, so the interleaving of their statements and transactions is the
concurrency that matters. The scripts are separate processes that meet in the
database, in the firewall and in one file. What is hard:

* **Concurrency.** The spend is read in one statement, the decision stored in
  another, the charge written after the provider call. Spend is not reserved.
  Handlers queue for connections; runs of a script meet half way.
* **Failure.** Any statement, commit or provider call may fail or lose its
  result; the client may leave at any step, which cancels the request's
  context; the process may be killed. A call to Azure or to psql may fail with
  its effect, or a script be killed before its trap runs.
* **Ordering.** Evidence must be durable before the step it authorises, and an
  answer must follow its charge.
* **Time.** A budget period ends while a request is under way; a shutdown has
  ten seconds while a provider call may take three minutes; the connection of
  the client is closed after two.
* **Numbers.** Zero limits, thresholds reached exactly, cached tokens above
  input tokens, a percentage that overflows its column.

What makes each component correct:

* governance: a request and its decision are on record together, or neither is;
* budget: a decision counts what it must count, an unknown cost is never taken
  for zero, a guardrail that closed does not reopen in its month, overshoot is
  bounded by what was in flight;
* FinOps: no negative cost, no cost without a price, no price that another
  spelling of its name replaces or hides;
* router: no execution without two durable allow decisions, route and usage
  come together, each rung of evidence is climbed once and in order;
* HTTP: the status code agrees with what is on record;
* process: every request and every shutdown ends, and a response reaches its
  client unless retries or the database took too long;
* pool: no connection is lost, shared, or held while its handler waits; nobody
  waits forever;
* migrations: history and schema agree at every moment, and the history is
  always the beginning of one checkout;
* database access: a rule that a script created is removed by it, or named by
  the state file, unless its own run met a fault.

## 2. Modules

| Module | What it is |
|---|---|
| `Governance` | input records, validation, `EvaluatePolicy` |
| `FinOps` | catalogue lookup, rejection of unbillable usage, cost |
| `Budget` | the decision table and the overflow of `utilization_percent` |
| `Gateway` | the state machine: handlers, tables, provider, calendar, process; all properties |
| `GovernedInvocation` | abstract specification: the ladder of evidence of one request |
| `Pool` | the handlers of one process and the connections they share |
| `Deadlines` | the clocks of one invocation |
| `PriceList` | how the price catalogue comes to be |
| `Migrations` | concurrent runs of the migration runner on one database, and the operator |
| `MigrationLedger` | abstract specification: an append-only history of one checkout |
| `DatabaseAccess` | the three scripts that open the firewall, the state file, Azure |
| `MCGateway`, `MCPool`, `MCDeadlines`, `MCPriceList`, `MCMigrations`, `MCDatabaseAccess` | values of the constants for TLC |
| `GatewayProofs` | inductive invariant; types, audit chain, authorised executions, truthful replies; `Gateway` implements `GovernedInvocation` |
| `ChargeProofs` | what budget decisions count |
| `GuardrailProofs` | sums; verdicts do not relax, and the overshoot is bounded |
| `PoolProofs`, `DeadlineProofs`, `PriceListProofs`, `MigrationProofs`, `AccessProofs` | the theorems of each module |

`Gateway` extends `Governance`, `FinOps` and `Budget`, which are pure
operators, and instantiates `GovernedInvocation` with the refinement mapping
`Rung`, read off the tables. `Migrations` instantiates `MigrationLedger` with
its rows. The other modules are about what `Gateway` takes for granted, and say
so at the same names:

* `Gateway` assumes that every call of a handler ends. `Pool` takes the same
  calls apart into waiting, statements and rollback, and shows that they end
  although all handlers share the pool (`RequestsFinish`).
* `FinOps` assumes a catalogue without negative prices or two prices of one
  model (`CatalogAssumption`). `PriceList` shows that `NewStaticCatalog` returns
  no other (`FinOpsAssumptions`).
* `Gateway` has a charge whose response is lost as a disconnect. `Deadlines`
  shows when the server itself is the one to lose it.
* `Gateway` assumes the tables of all three migrations. `Migrations` shows when
  they are there; `DatabaseAccess` has `migrate-azure.sh` as one step between
  opening and closing the firewall.

### State and code: Gateway

`governance_requests` is the set of stored ids; the other tables are functions
from requests to a row or `NULL` (each has at most one row per request). The
columns kept are the ones a decision or a property depends on. `pc[r]`,
`local[r]`, `req[r]`, `cancelled[r]` and `status[r]` are the handler of `r`:
where it is, the Go locals that survive a step, the decoded input, whether its
context was cancelled, and its HTTP status. `executions` and `answeredBefore`
are history read by properties only.

One action stands for the code from one database statement, transaction or
provider call to the next:

| Action | Code |
|---|---|
| `Arrive`, `Reject` | routing, decoding, validation (`server.go`, `openai_compat.go`, `validateCreateRequest`) |
| `CreateRequest` | the transaction of `governance/repository.go`, then the switch in `Invoke` |
| `FindActivePolicy` | the clock and the policy SELECT of `Evaluate` |
| `CurrentSpend` | the spend SELECT and the decision table |
| `RecordDecision`, `DecisionRefused` | the INSERT of the decision, stored or rejected by a column, then the budget switch, route and provider lookup in `Invoke` |
| `RetryProvider`, `ProviderFails`, `NoTextOutput`, `ProviderAnswers` | the outcomes of the provider call, then pricing |
| `BeginRecord`, `CommitRecord` | `RecordInvocation`: its start fixes `recorded_at`, its commit shows both rows |
| `DatabaseFails` | any of these statements failing without effect |
| `Reply` | the response is written |
| `Disconnect`, `SetPolicy`, `NextMonth` | client, administrator, calendar |
| `Shutdown`, `Stop`, `Kill`, `Restart` | `main.go` from SIGTERM to exit, forced exit or crash, next start |

`Executed` models the hard half of a failure: the statement or commit took
effect and the handler sees an error.

### State and code: the other modules

`Pool`. `call[h]` is the repository or provider call of handler `h`, with the
step names of `Gateway`; `step[h]` is where it is in it. `conn`, `pool`, `open`
and `queue` are the connections, from both sides.

| Action | Code |
|---|---|
| `Acquire`, `Enqueue`, `Grant`, `Leave` | a connection is asked for, awaited in order, granted, given up because the context ended |
| `Statement`, `StatementFails`, `Rollback` | `Begin`, `Exec`, `QueryRow`, `Commit` and the deferred `Rollback` of the three repositories, all with the request's context |
| `ProviderReturns`, `Reply` | the rest of `Invoke`, without a connection |
| `Disconnect`, `Deadline` | the client leaves; the two seconds of `/readyz` |
| `Reap`, `Closed` | the pool closes idle connections; a connection that is being closed is gone, and its slot free |
| `Sigterm`, `Drained`, `Close`, `ShutdownDeadline`, `Crash`, `Restart` | `main.go`: `Server.Shutdown`, the deferred `db.Close`, `os.Exit` |

`Deadlines`. One handler with its clock `now`, the clock `since` of the attempt
or pause under way, and the time that database statements took (`waited`). A
phase ends by `Decide`, `Answer`, `Fail`, `Retry`, `Record` or `Respond`.

`PriceList`. The loop of `NewStaticCatalog`, one rate a step (`Enter`,
`Refuse`, `Accept`). `Trim` and `Lower` are functions given by the instance.

`Migrations`. `schema` is the set of migrations whose objects exist, `rows` the
table `schema_migrations`, `tracked` whether it exists. A run of
`run-migrations.sh` has its files, what its first query saw, and its place in
the loop.

| Action | Code |
|---|---|
| `CheckTracking`, `CountCore` | the two queries of the safety guard |
| `CreateTracking`, `SelectName` | `CREATE TABLE IF NOT EXISTS`; the recorded name of a version |
| `Execute`, `ExecuteFails`, `Commit` | `BEGIN`, the file, the `INSERT`; `COMMIT`, whose answer may be lost |
| `Report`, `Abort` | the last message; a failing psql, or a kill |
| `RegisterBaseline`, `Down` | what `src/docs/DEVELOPMENT_HISTORY.md` and the down files leave to the operator |

`DatabaseAccess`. `rule[p]` is the firewall rule that run `p` created: absent,
present, or being deleted. `stateFile` names a rule, none, or does not exist.
Each call to Azure, the state file or psql is a step with a failing twin:
`Create`/`CreateFails`, `WriteState`/`WriteFails`, `GetSecret`/`SecretFails`,
`CleanUp`/`CleanUpFails`, `CloseDeletes`/`CloseFails`, `Deleted`/
`DeletionFails`; `OpenLists` and `Verify` share `ListFails`. `NotReachable` and
`Verify` are the bounded loops; `Interrupt` and `Kill` are signals.

### Abstractions

* Money is an integer number of nano-USD; the prices of the catalogue are
  exact. `StoredCost` is the rounding of `NUMERIC(18, 8)`. The code compares in
  float64; the values of the model are exactly comparable.
* `budget_decisions.counted` stands for `spent_usd` and
  `unknown_cost_records`: the set of usage rows the SELECT read. Usage rows are
  never updated, so the set fixes both numbers.
* The clock and the policy SELECT of `Evaluate` are one action: nothing else
  reads both.
* A commit whose result is lost takes effect at once or never, not later.
* One clock: `month` is that of the Go process, which dates decisions, and that
  of PostgreSQL, whose `now()` dates charges. If they are apart at the end of a
  month, a charge may fall in the month before its decision's, and be counted
  there or missed by `OvershootBounded` for the length of the skew.
* A prompt of blanks passes validation and is refused by the Azure adapter: one
  of the errors that `ProviderFails` stands for.
* The budget and estimator that `Invoke` checks for `nil`, and the default
  branches for unknown decisions, cannot be reached in the wiring of `main.go`.
  The branch for an unregistered provider is kept.
* One process: the deployment sets `max_replicas = 1`
  (`src/infra/envs/demo/governance_api.tf`). A restart may change the provider.
* `Pool` leaves out what statements do. It is as free as pgxpool in what becomes
  of a connection given back; a dialled connection that fails is a statement
  that fails. A connection that was interrupted, broke or is too old keeps its
  slot ("closing") until pgxpool has closed it in the background, for which it
  allows 15 s. A failed start of the service is not a state of the service.
* In `Deadlines` the client stays and the process runs; a statement may take
  any time, since none has a deadline of its own.
* In `Migrations` a file creates the objects of its version out of the tables of
  version 1, in one step between `BEGIN` and `COMMIT`. The operator runs down
  files newest first, and while no run is under way.
* In `DatabaseAccess` each run has a rule name of its own (the scripts take the
  time in seconds). Any rule lets psql in until Azure has withdrawn it. On
  SIGINT or SIGTERM bash runs the EXIT trap of `demo-db-access-open.sh` with the
  status of the last completed command, so that the trap, which acts only on a
  status other than 0, may do nothing: `Kill` allows both. The state
  file under `${TMPDIR:-/tmp}` stays until a script removes it: a reboot that
  empties that directory is left out, and would leave a rule that no file names.
  The trap of `migrate-azure.sh` returns to the script, which goes on:
  `Interrupt`.
* Definitions whose comment begins with "Fault:" are deliberately wrong
  variants. No specification uses them; each replaces one definition to show
  that a property notices it.

## 3. What TLC checks

| Run | Question | Bounds |
|---|---|---|
| `Audit` | Do failures, cancellations, retries, kills and restarts ever break the audit trail, execute without authority, answer untruthfully or leave the ladder? | 2 requests over 7 inputs (every control path of the three endpoints), 2 policies or none, 2 faults, 1 restart, 2 SDK retries, billable and unbillable usage; an unpriced deployment is in `Verdicts` |
| `Spend` | What does a decision count, and how far can concurrent requests overshoot? | 3 requests, 2 in flight, 2 cost centers, a policy, a zero limit, a disabled policy or none, 2 months, no faults |
| `Verdicts` | Does a guardrail reopen within its month? | 3 requests, 2 policies changed twice, 2 months, 1 restart, a priced and an unpriced deployment, no faults |
| `Liveness` | Do requests and shutdowns end? | 2 requests, 4 inputs, 2 policies or none, 2 faults, 1 SDK retry; no symmetry |
| `LoweredLimit`, `UnknownModel`, `NoText` | Disagreements with the documentation (section 6) | 2 requests, no faults |
| `Pool` | Is a connection ever lost, shared, held while waiting, or with a handler at `db.Close`? Do requests end, and do abandoned requests, probes and shutdowns when the database hangs, and do slots come back? | 2 handlers, 1 connection, 2 INSERTs a transaction, all entry points, any number of failures, crashes and restarts |
| `Migrate` | Do history and schema agree, whatever runs meet, and do runs end that wait for each other? | 2 runs at a time, without end, of 5 checkouts (main, older, branch, misnamed, empty), 1 migration undone |
| `Access` | Which rules can be forgotten? Do scripts end and migrations clean up? | 2 runs of any script, opens and closes one at a time, both may meet any number of faults, 2 attempts in each loop |
| `Deadlines` | How long may an invocation take, and when is its response lost? | the times of `main.go` and the provider, in units of 15 s, for 8 minutes |
| `PriceList` | Which lists of rates are accepted, and what does the catalogue then say? | every list of up to 3 of 24 rates |

Why these bounds are enough to be interesting. Two faults suffice for every
pair of failures of one request (a lost commit and then a kill, a retry and
then a disconnect), and for one failure in each of two requests. Three requests
are the fewest in which one is answered, and two more overlap after it; a limit
of 6000 with a charge of 5100 nano-USD puts one charge past the threshold but
below the limit, and two past the limit. Two months let a request begin in one
and be charged in the next. `MaxFaults`, `MaxInFlight`, `MaxMonth`,
`MaxPolicyChanges` and `MaxRestarts` are bounds of the model; `MaxRetries` is
the code's 2 in `Audit`. Requests are interchangeable, so the runs of `Gateway`
that check only safety use symmetry. `Spend` and `Verdicts` run without faults:
a failed request charges at most what a successful one does, and all four
properties are proved with them, and for any number of requests.

Two handlers on one connection are the fewest that contend; handlers are reused
without end, so that every order of arrivals occurs. Three migrations are the
repository's three; two runs at a time suffice for every race on one version,
and start again without end. Two runs of the access scripts are every pair: an
open with a close, with another open, with a migration. These three instances
are small because the runs also check liveness; what more handlers,
connections or runs could do to the invariants is settled by the proofs.
In `Deadlines` the horizon exceeds three attempts and two pauses by three
minutes for the database, and 15 s divides all times. Three rates are the fewest
in which two collide and a third is good, before, between or after them.

Deadlock is checked in `Pool` and `Migrate`. It is not checked in the other
runs, where the system does stop: when requests or scripts are used up, the list
is read, or the response is written.

The properties:

* `AuditChain`: request and policy decision together; budget decision only
  behind a governance allow; route and usage together behind a budget allow.
* `ExecutionsAuthorised`: the provider runs the model, even in attempts that
  fail, only behind both durable allows; nothing is charged that did not run.
* `RepliesMatchAudit`: what each status code claims is on record.
* `KeepsPromise`: refinement of `GovernedInvocation`.
* `DecisionsCountAnsweredCharges`: a decision counts every charge answered
  before its request arrived, and none of another cost center or month.
* `UnknownCostHoldsMonth`, `VerdictsNeverRelax`: the guardrail stays closed for
  later arrivals, for unknown cost and under one policy.
* `OvershootBounded`: spend passes the threshold by less than one dearest
  charge for each request in flight. This quantifies the README's "Important
  MVP limitation".
* `RequestsEnd`, `ShutdownEnds`: liveness.

Of the pool:

* `PoolAccounted`, `QueueAccurate`: each slot is out exactly while one handler
  has it, and never back in the middle of a transaction; each waiter is in the
  queue once, and nobody else is.
* `HoldersWork`: no handler has a connection while it waits for another one, for
  the provider or for its client. It is why a few connections cannot deadlock.
* `CloseFindsNoHolder`: `db.Close`, which waits without a deadline, never waits
  for a handler, only for connections that are being closed.
* `RequestsFinish`, `ProbesEnd`, `AbandonedFinish`, `AbandonedSlotsReturn`,
  `ShutdownEnds`: liveness, with a responsive and with a hung database. The
  fourth says that the pool gets back the slot of a handler whose client left,
  although nothing is heard from the database.

Of the other modules:

* `HandlerBounded`, `LostOnlyIfSlow`: apart from the database, an invocation
  takes at most an attempt and, for each retry, a pause and an attempt; its
  response is lost only after a retry or a slow database.
* `FinOpsAssumptions`, `EveryRateIsFound`, `RefusedForReason`: an accepted
  catalogue prices each rate as given, under every spelling; a list is refused
  only for a reason.
* `LedgerMatchesSchema`, `SuccessMeansSchema`, `KeepsLedger`: rows and objects
  agree unless the operator undoes a migration; a run that reports success is
  complete; the rows refine `MigrationLedger`, even then.
* `RunsEnd`, `ScriptsEnd`: runs and scripts end.
* `ForgottenOnlyByFault`, `ReadyCanBeClosed`: with one demo script at a time, a
  rule is forgotten only if its own run met a fault, and access that was
  reported ready never is.
* `MigrationRuleGoes`: the rule of a migration goes, unless a fault met the
  run.

### Fairness

`FairSpec` assumes weak fairness of each handler's next step and of `Stop`. Go
schedules every runnable goroutine; a provider call ends because the SDK gives
each attempt 60 s and retries at most twice; a dead database connection is
broken by the driver's keep-alive, which makes the statement fail; and
`Server.Shutdown` polls until no connection is active. Nothing is assumed of
clients, administrators, the calendar, kills or restarts. `ShutdownEnds` does
not need the ten-second deadline: `Kill` may end a shutdown early but is never
relied on.

`FairSpec` of `Pool` assumes nothing of the database and the provider, only
that handlers go on, that Go's timers expire, and that a cancelled context ends
the statement or call under way, which pgx and the SDK promise and the code
relies on by passing the request's context to each; and that the pool gives up
on a connection it closes (`Closed`). `RequestsFinish` alone has
a premise, `Responsive`: the database and the provider end each call, for the
reasons above. Nothing is assumed of the order in which handlers are served,
which the queue decides.

`FairSpec` of `Migrations` is strong fairness of each run: a blocked transaction
may be overtaken by later runs, but PostgreSQL queues for its locks. `FairSpec`
of `DatabaseAccess` is weak fairness of each script's next step (az and docker
return, with a result or an error) and of Azure finishing a deletion that it
accepted and that does not fail. No fairness is assumed of faults, signals or
starts.

## 4. What is proved

For every value of the constants that satisfies the named assumptions. Of
`Gateway`: a finite set of requests, well-formed inputs, policies and usage
reports, a catalogue that `NewStaticCatalog` accepts, a `NULL` that is no value,
and finitely many rates and usage reports (`FinitenessAssumption`: a catalogue
is a slice, token counts are 64-bit integers), without which no charge would be
the dearest.
Of the others: any handlers, connections and runs, any checkouts of which one
begins with the baseline, any number of attempts and any timeouts, any spelling
for which trimming twice is trimming once.

| Theorem | Statement |
|---|---|
| `Invariance` | `Spec => []Inv` |
| `TypeCorrect`, `Audited`, `Authorised`, `TruthfulReplies` | `TypeOK`, `AuditChain`, `ExecutionsAuthorised`, `RepliesMatchAudit` |
| `PromiseKept` | `Spec => KeepsPromise`: every step is one rung of the ladder, or a stutter |
| `ChargesCounted`, `UnknownCostHolds` | `DecisionsCountAnsweredCharges`, `UnknownCostHoldsMonth` |
| `VerdictInvariance`, `GuardrailStaysShut` | `Spec => []VerdictInv`, `VerdictsNeverRelax` |
| `OvershootInvariance`, `OvershootIsBounded` | `Spec => []OvershootInv`, `OvershootBounded` |
| `OverflowsAreDenials` | a verdict that `utilization_percent` cannot hold is a denial |
| `OnePrice` | a usage report has at most one cost, the same under every spelling |
| `PoolInvariance` | `Spec => []Inv`, of which `TypeOK` of `Pool` is a part |
| `NoConnectionLeaks`, `QueueIsAccurate`, `NoHoldAndWait`, `CloseDoesNotBlock` | `PoolAccounted`, `QueueAccurate`, `HoldersWork`, `CloseFindsNoHolder` |
| `MigrationInvariance`, `MigrationTypeCorrect` | `Spec => []Inv` and `TypeOK` of `Migrations` |
| `LedgerAgrees`, `SuccessIsComplete` | `LedgerMatchesSchema`, `SuccessMeansSchema` |
| `LedgerKept` | `Spec => KeepsLedger`: every step applies the next version of some checkout, or stutters |
| `AccessInvariance`, `AccessTypeCorrect` | `Spec => []Inv` and `TypeOK` of `DatabaseAccess` |
| `NoRuleForgotten`, `ReadyIsNamed` | `ForgottenOnlyByFault`, `ReadyCanBeClosed` |
| `DeadlineInvariance`, `DeadlineTypeCorrect` | `Spec => []Inv` and `TypeOK` of `Deadlines` |
| `HandlerIsBounded`, `LossIsExplained` | `HandlerBounded`, `LostOnlyIfSlow` |
| `PriceListInvariance`, `PriceListTypeCorrect` | `Spec => []Inv` and `TypeOK` of `PriceList` |
| `CatalogueFit`, `RatesFound`, `RefusalHasReason` | `FinOpsAssumptions`, `EveryRateIsFound`, `RefusedForReason` |

*The invariant `Inv`.* `AuditChain` is not inductive: nothing in it says that a
handler about to store a usage row has an allow on record. `StepEvidence(r)`
adds, for each value of `pc[r]`, the evidence that earlier steps stored and the
absence of later evidence; `StatusEvidence(r)` extends `RepliesMatchAudit` to
responses that are chosen but not yet written. One lemma per action shows that
it is preserved.

*The refinement.* `Climbs(r)` says that a step leaves the rows of all other
requests alone and moves `r` by one edge of the ladder or none. `Inv` supplies
the rung a handler is on; each action is then one edge.

*The charges.* Between reading the spend and storing the decision other
handlers go on, so `ChargeInv` speaks of `Row(r)`, the decision taken but not
yet stored, or stored. Three facts keep it: a charge never changes, an answered
request never changes (`Final`), and a new decision row comes only from
`CurrentSpend`, or is a review without a policy (`RowStep`).

*Sums.* `CurrentSpend` sums with the fold of the community modules, a recursive
function over subsets. Induction over sets is replaced by a smallest
counterexample, which exists because strict inclusion among the subsets of a
finite set is well-founded (`SmallestSet`). From it: the sum exists
(`SumExists`), it does not depend on the order in which elements are picked
(`TotalRemove`), it grows with the set (`TotalMonotone`), and it grows by at
most the dearest element for each new one (`TotalBounded`). `SpentIsTotal` ties
the fold of the model to it.

*The verdicts.* `RowVerdict(r)` says that a decision, pending or stored, is the
verdict on the charges it counted; those never change, so neither does their
sum (`SnapshotKept`). `RowNested(r)` says that it counts all that a decision
answered before its request counted: those charges were stored before that
answer, and nothing removes a charge. With fewer charges, no larger sum and no
unknown cost more, an allow of the later request makes the earlier verdict an
allow (`VerdictMonotone`).

*The overshoot.* The bound is not inductive, because a request that is allowed
charges much later, when the spend has grown. `HasHeadroom` is the
strengthening: some part of the charges of a month, the *base*, is below the
threshold, and the charges beyond it, together with the requests that may still
charge that month (`MayCharge`), are no more than can be in flight. A new allow
finds all charges below the threshold and takes them as the new base
(`NewHeadroom`); then every request beyond the base is in flight. Until the next
allow nobody joins `MayCharge` (`NoNewcomer`), and a new charge only moves a
request from `MayCharge` to `Charged` (`ChargeExpected`), so the base stays one
(`BaseKept`). `TimeInv` keeps the months in order, since a request decided in
one month may charge the next; `PolicyStands` says that decisions were taken
under the policy in force while `changes = 0`; `WithinMaxCost` bounds each
charge. TLC checked this invariant on the instances of `Spend` and `Verdicts`
before it was proved.

*The pool.* The properties are almost inductive together. `InCall` adds that a
handler on its way has a call, `Drain` that no handler is left once
`Server.Shutdown` has returned. The queue needs that what `RemoveAt` returns has
the other waiters, each once (`RemoveAtPlaces`).

*The migrations.* Neither property is inductive: a run acts on what it saw
earlier. `Progress(p)` says that the files behind a run are on record under
their names; rows are never removed, so it stays true whatever other runs do.
`Exclusive(p)` says that an open transaction is about a version that no row and
no other transaction has, which is what `Blocked` and `Applicable` buy.
`Untracked` carries the guard: a run that is past it, on a database still
without history, works on an empty schema. `History`, that the rows begin some
checkout, is the refinement: a run that comes to version v has a checkout whose
first v - 1 names are the rows.

*The access scripts.* `Creation(p)` ties a rule to what its script knows of it,
`NamesOpen` ties the state file to a rule whose open wrote it, and `Knows` ties
what an open or close has read to the file, which no other demo script changes
meanwhile (`Alone`). One lemma per action, one step per part of the invariant.

*The clocks.* `Clock` states for each phase what the time spent so far is made
of; one retry more adds a pause and an attempt. *The price list.* `Loaded` says
that the catalogue is exactly the rates that the loop has passed.

Only model-checked: liveness under fairness (`RequestsEnd`, `ShutdownEnds`,
`RequestsFinish`, `ProbesEnd`, `AbandonedFinish`, `AbandonedSlotsReturn`,
`RunsEnd`, `ScriptsEnd`, `MigrationRuleGoes`), which needs `ENABLED` and is out of the prover's reach,
and the runs of section 6, whose properties are violated. Every safety property
that a passing run checks is a theorem.

## 5. Hazards

`PROJECT.json` lists each hazard at its line with the properties that cover it.
Two have none, because the code does go wrong there: down files and overlapping
opens (section 6). Two more are confirmed rather than excluded. A client whose
response was lost after the write timeout and that asks again is charged twice:
requests carry no idempotency key, and `LostOnlyIfSlow` only says when that may
happen. And a firewall rule can be forgotten when its own run meets a fault:
`ForgottenOnlyByFault` says that nothing else does it.

## 6. Disagreements with the documentation

* `VerdictsAreRecorded` (`LoweredLimit`). `utilization_percent` is
  `NUMERIC(9,4)`. Once spend is 1000 times the limit, as after an administrator
  lowers it, the deny row is rejected by PostgreSQL and the request ends with
  500 and no budget decision. The history document says spend at or above the
  limit is denied and that a denial leaves a budget decision. The request is
  still stopped before the provider.
* `AllowsAreUsed` (`UnknownModel`). The budget allow is stored before the
  logical model is looked up: an unknown model is answered 400 and leaves an
  allow without route and usage, contrary to the invariant "ALLOW -> budget
  decision + route + usage".
* `UnknownCostIsNotZero` (`NoText`). A response without text (all output tokens
  spent on reasoning) is turned into an error before its usage is read. The
  execution leaves no usage row, so later decisions count it as zero, contrary
  to "Unknown cost is never treated as zero."

The scripts disagree with what they print in four more cases, which have no run
of their own. They can be read off the actions named.

* Down files. They drop the objects of a migration and leave its row, so the
  next run skips it and still prints "All migrations applied successfully."
  `Down` leaves `rows` alone and `SelectName` goes past a version with a row;
  hence the condition `downs = 0` of `SuccessMeansSchema`.
* Overlapping opens. After two opens that overlap, without any fault,
  `demo-db-access-close.sh` prints "Temporary firewall rules remaining: 0"
  while the other rule is there and no file names it. Both pass `OpenChecks`
  before either reaches `WriteState`, and the second overwrites the file of the
  first; without its condition `~Overlapping`, `ForgottenOnlyByFault` is
  violated in an instance where runs overlap.
* Stacked rules. `demo-db-access-open.sh` says "Refuse to stack another demo
  firewall rule", but looks only for the rule that the state file names
  (`OpenChecks`). After a creation that az reports as failed, or a deletion
  that fails in the trap (`CreateFails`, `CleanUpFails`), the next open adds a
  second.
* The guard. `schema_migrations` is looked up and the core tables are counted
  in two psql calls (`CheckTracking`, `CountCore`). If another run, or the
  registration of the baseline, comes in between, the script stops with
  "database schema exists but schema_migrations is missing", although it
  exists. Nothing is damaged; the next run succeeds.

## 7. Not modelled

* Terraform and the API Management policies (`src/infra`), CI, and
  `register-azure-providers.sh`: they keep no state of this program; Azure and
  GitHub execute them.
* How the OpenAI facade turns messages into a prompt, the order in which it
  refuses unsupported fields, the shape of its errors, and JSON decoding: pure
  functions of one request, without state; `Arrive` and `Reject` have their
  outcome.
* `/healthz`, a constant answer, and logging.
* Reading of the environment (`internal/config`): plain input.
* Rounding of float64 sums, and indexes of the schema: no property here tells
  them apart.
* The read timeouts of `net/http`, and the ten seconds of `Server.Shutdown` as a
  clock: a shutdown may be cut short at any moment, which is more than they do.
* Two rules created within one second, which would share a name.
