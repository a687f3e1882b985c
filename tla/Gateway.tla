------------------------------- MODULE Gateway -------------------------------
(***************************************************************************)
(* The governance gateway: HTTP handlers running concurrently in one       *)
(* process, the PostgreSQL tables they share, the model provider they      *)
(* call, the calendar that delimits budget periods, and the life of the    *)
(* process.                                                                *)
(*                                                                         *)
(* A handler is the call chain                                             *)
(*   httpserver -> airouter.Invoke -> governance.CreateRequest             *)
(*                                 -> budget.Evaluate                      *)
(*                                 -> provider.Invoke                      *)
(*                                 -> airouter.RecordInvocation            *)
(* It yields at each database statement or transaction and at the provider *)
(* call: one action per such step, the code between two of them belongs to *)
(* the step before.  pc[r] is the step the handler of request r is at:     *)
(*                                                                         *)
(*   idle -> create -> policy -> spend -> decide -> call -> record         *)
(*        -> commit -> reply -> done               (lost: process killed)  *)
(*                                                                         *)
(* Source: services/governance-api.                                        *)
(***************************************************************************)
EXTENDS Integers, FiniteSets, FiniteSetsExt, Governance, FinOps, Budget

CONSTANTS
    Requests,        \* HTTP requests; a client's retry is another request
    Inputs,          \* what a request may carry (see Governance)
    CostCenters,     \* cost centers that may have a budget policy
    PolicyChoices,   \* the budget policies an administrator may store
    UsageReports,    \* token usage the provider may report
    Deployments,     \* values of AZURE_OPENAI_DEPLOYMENT
    ConfiguredProviders,
    NULL,            \* SQL NULL, or no value
    MaxRetries,      \* retries of the provider SDK (2 in the code)
    MaxInFlight,     \* bound: requests in flight at once
    MaxMonth,        \* bound: last calendar month
    MaxPolicyChanges,\* bound: administrator updates
    MaxRestarts,     \* bound: starts of the process after the first
    MaxFaults        \* bound: failed calls, disconnected clients and kills

LogicalModel == "fast-general"

RouteTargets ==
    {[provider |-> "mock", model |-> "mock-fast-general"]}
        \cup [provider : {"azure-openai"}, model : Deployments]

Months == 1 .. MaxMonth

\* counted stands for spent_usd and unknown_cost_records: the usage rows, by
\* request, that the SELECT read.  Rows are never updated, so the set fixes
\* both columns (SnapshotOf).
DecisionRows == [decision : Decisions, period : Months,
                 policy : BudgetPolicies \cup {NULL},
                 counted : SUBSET Requests]

UsageRows == [cost : Nat \cup {NULL}, month : Months]

ASSUME RequestsAssumption == IsFiniteSet(Requests)

ASSUME InputsAssumption ==
    \A input \in Inputs : /\ input.api \in Apis
                          /\ input.wellFormed \in BOOLEAN
                          /\ input.costCenter \in CostCenters \cup {""}

ASSUME ChoicesAssumption ==
    /\ PolicyChoices \subseteq BudgetPolicies
    /\ UsageReports \subseteq Usages
    /\ Deployments \cup {"mock-fast-general"} \subseteq ModelNames
    /\ ConfiguredProviders \subseteq Providers

\* A catalogue is a slice of rates, and token counts are 64-bit integers.
ASSUME FinitenessAssumption == IsFiniteSet(Catalog) /\ IsFiniteSet(UsageReports)

ASSUME BoundsAssumption ==
    /\ MaxRetries \in Nat
    /\ MaxInFlight \in Nat
    /\ MaxMonth \in Nat \ {0}
    /\ MaxPolicyChanges \in Nat
    /\ MaxRestarts \in Nat
    /\ MaxFaults \in Nat

ASSUME NullAssumption ==
    /\ NULL \notin Inputs
    /\ NULL \notin BudgetPolicies
    /\ NULL \notin DecisionRows
    /\ NULL \notin UsageRows
    /\ NULL \notin RouteTargets
    /\ NULL \notin Decisions
    /\ NULL \notin Int

VARIABLES
    \* the tables
    governance_requests,  \* ids of the stored requests (columns: req)
    policy_decisions,     \* governance decision per request, or NULL
    budget_policies,      \* policy row per cost center, or NULL
    budget_decisions,     \* budget decision row per request, or NULL
    model_routes,         \* route row per request, or NULL
    usage_records,        \* usage row per request, or NULL
    \* the handlers
    pc, req, local, cancelled, status,
    \* the process and its environment
    server, route, month, changes, restarts, faults,
    \* history, read by properties only
    executions,           \* times the provider ran the model for a request
    answeredBefore        \* requests answered before this one arrived

database == <<governance_requests, policy_decisions, budget_policies,
              budget_decisions, model_routes, usage_records>>
handlers == <<pc, req, local, cancelled, status>>
world    == <<server, route, month, changes, restarts>>
history  == <<executions, answeredBefore>>
vars     == <<database, handlers, world, faults, history>>

----------------------------------------------------------------------------
\* Handlers

\* The Go locals of one handler that survive from a step to the next.
Locals == [period   : 0 .. MaxMonth,
           policy   : BudgetPolicies \cup {NULL},
           decision : DecisionRows \cup {NULL},
           attempts : 0 .. MaxRetries,
           cost     : Nat \cup {NULL},
           txMonth  : 0 .. MaxMonth]

NoLocals == [period |-> 0, policy |-> NULL, decision |-> NULL,
             attempts |-> 0, cost |-> NULL, txMonth |-> 0]

DatabaseSteps == {"create", "policy", "spend", "decide", "record", "commit"}

InFlightSteps == DatabaseSteps \cup {"call", "reply"}

InFlight == {r \in Requests : pc[r] \in InFlightSteps}

\* Requests whose handler has written its response.
Answered == {r \in Requests : pc[r] = "done"}

\* The handler goes to its next step with some of its locals updated.
Continue(r, step, locals) ==
    /\ pc' = [pc EXCEPT ![r] = step]
    /\ local' = [local EXCEPT ![r] = locals]
    /\ UNCHANGED <<req, cancelled, status>>

\* Invoke returns and the handler has chosen its status code.
Conclude(r, code) ==
    /\ pc' = [pc EXCEPT ![r] = "reply"]
    /\ local' = [local EXCEPT ![r] = NoLocals]
    /\ status' = [status EXCEPT ![r] = code]
    /\ UNCHANGED <<req, cancelled>>

\* A failure that the environment injects; MaxFaults bounds them.
Fault == /\ faults < MaxFaults
         /\ faults' = faults + 1

\* Once the client has gone every call with the request's context fails.
CallFails(r) == \/ cancelled[r] /\ UNCHANGED faults
                \/ ~cancelled[r] /\ Fault

\* The statement or transaction took effect; its result reaches the handler,
\* or the connection breaks first and the handler sees an error.
Executed(r, next) ==
    /\ ~cancelled[r]
    /\ \/ next /\ UNCHANGED faults
       \/ Conclude(r, 500) /\ Fault

\* Status of a governance or budget decision that stops the request.
RefusalStatus(api, decision) ==
    IF decision = "deny" THEN 403
    ELSE IF api = "native" THEN 202 ELSE 409

----------------------------------------------------------------------------
\* One action per step of a handler

\* The server accepts a connection; no handler action precedes it.
Arrive(r) ==
    /\ pc[r] = "idle"
    /\ server = "up"
    /\ Cardinality(InFlight) < MaxInFlight
    /\ \E input \in Inputs : req' = [req EXCEPT ![r] = input]
    /\ pc' = [pc EXCEPT ![r] = "create"]
    /\ answeredBefore' = [answeredBefore EXCEPT ![r] = Answered]
    /\ UNCHANGED <<database, local, cancelled, status, world, faults,
                   executions>>

\* The handler or validateCreateRequest refuses the request.
Reject(r) ==
    /\ pc[r] = "create"
    /\ ~ValidCreateRequest(req[r])
    /\ Conclude(r, 400)
    /\ UNCHANGED <<database, world, faults, history>>

\* Fault: only a denial stops the request.
ReviewPasses(r, decision) ==
    IF req[r].api = "governance" THEN Conclude(r, 201)
    ELSE IF decision = "deny" THEN Conclude(r, 403)
    ELSE Continue(r, "policy", NoLocals)

\* What Invoke, or the governance endpoint, does with the stored decision.
AfterGovernance(r, decision) ==
    IF req[r].api = "governance" THEN Conclude(r, 201)
    ELSE IF decision # "allow"
         THEN Conclude(r, RefusalStatus(req[r].api, decision))
         ELSE Continue(r, "policy", NoLocals)

\* One transaction stores the request and its policy decision.
CreateRequest(r) ==
    /\ pc[r] = "create"
    /\ ValidCreateRequest(req[r])
    /\ LET decision == EvaluatePolicy(ClassificationOf(req[r]))
       IN  /\ governance_requests' = governance_requests \cup {r}
           /\ policy_decisions' = [policy_decisions EXCEPT ![r] = decision]
           /\ Executed(r, AfterGovernance(r, decision))
    /\ UNCHANGED <<budget_policies, budget_decisions, model_routes,
                   usage_records, world, history>>

\* Evaluate reads the clock, then the policy of the cost center.  Without a
\* cost center or an enabled policy the verdict is review.
FindActivePolicy(r) ==
    LET cc     == req[r].costCenter
        policy == IF cc \in CostCenters THEN budget_policies[cc] ELSE NULL
        review == [decision |-> "review", period |-> month,
                   policy |-> NULL, counted |-> {}]
        here   == [NoLocals EXCEPT !.period = month]
    IN  /\ pc[r] = "policy"
        /\ cancelled[r] => cc = ""
        /\ IF policy # NULL /\ policy.enabled
           THEN Continue(r, "spend", [here EXCEPT !.policy = policy])
           ELSE Continue(r, "decide", [here EXCEPT !.decision = review])
        /\ UNCHANGED <<database, world, faults, history>>

\* Fault: the period has no lower bound.
NoPeriodStart(cc, period) ==
    {q \in governance_requests : /\ usage_records[q] # NULL
                                 /\ req[q].costCenter = cc
                                 /\ usage_records[q].month <= period}

\* Fault: the month is that of the SELECT, not the one Evaluate fixed.
MonthOfSelect(cc, period) ==
    {q \in governance_requests : /\ usage_records[q] # NULL
                                 /\ req[q].costCenter = cc
                                 /\ usage_records[q].month = month}

\* Usage rows that CurrentSpend joins and filters.
SpendRows(cc, period) ==
    {q \in governance_requests : /\ usage_records[q] # NULL
                                 /\ req[q].costCenter = cc
                                 /\ usage_records[q].month = period}

KnownCost(q) == IF usage_records[q].cost = NULL THEN 0
                ELSE usage_records[q].cost

Spent(rows) == MapThenSumSet(KnownCost, rows)

Unknown(rows) == {q \in rows : usage_records[q].cost = NULL}

SnapshotOf(rows) == [spent   |-> Spent(rows),
                     unknown |-> Cardinality(Unknown(rows))]

\* One SELECT, then the decision table on the policy read before.
CurrentSpend(r) ==
    LET policy == local[r].policy
        rows   == SpendRows(req[r].costCenter, local[r].period)
        row    == [decision |-> Verdict(policy, SnapshotOf(rows)),
                   period   |-> local[r].period,
                   policy   |-> policy,
                   counted  |-> rows]
    IN  /\ pc[r] = "spend"
        /\ ~cancelled[r]
        /\ Continue(r, "decide", [local[r] EXCEPT !.decision = row])
        /\ UNCHANGED <<database, world, faults, history>>

\* The logical model has a route and the route a provider, or Invoke fails.
AfterBudget(r, decision) ==
    IF decision # "allow" THEN Conclude(r, RefusalStatus(req[r].api, decision))
    ELSE IF req[r].model # LogicalModel THEN Conclude(r, 400)
    ELSE IF route.provider \notin ConfiguredProviders THEN Conclude(r, 503)
    ELSE Continue(r, "call", NoLocals)

\* PostgreSQL refuses a row whose utilization overflows its column.
Storable(row) ==
    row.policy # NULL =>
        ~UtilizationOverflows(row.policy, SnapshotOf(row.counted))

\* INSERT ... SELECT of the budget decision; one row per request (UNIQUE).
RecordDecision(r) ==
    LET row == local[r].decision
    IN  /\ pc[r] = "decide"
        /\ r \in governance_requests
        /\ budget_decisions[r] = NULL
        /\ Storable(row)
        /\ budget_decisions' = [budget_decisions EXCEPT ![r] = row]
        /\ Executed(r, AfterBudget(r, row.decision))
        /\ UNCHANGED <<governance_requests, policy_decisions, budget_policies,
                       model_routes, usage_records, world, history>>

DecisionRefused(r) ==
    /\ pc[r] = "decide"
    /\ ~Storable(local[r].decision)
    /\ Conclude(r, 500)
    /\ UNCHANGED <<database, world, faults, history>>

\* The provider ran the model for r.
Execute(r) == executions' = [executions EXCEPT ![r] = @ + 1]

\* One attempt of the SDK fails in a way it retries; the model may have run.
RetryProvider(r) ==
    /\ pc[r] = "call"
    /\ route.provider = "azure-openai"
    /\ ~cancelled[r]
    /\ local[r].attempts < MaxRetries
    /\ Continue(r, "call", [local[r] EXCEPT !.attempts = @ + 1])
    /\ Fault
    /\ Execute(r) \/ UNCHANGED executions
    /\ UNCHANGED <<database, world, answeredBefore>>

\* Fault: a call whose client has gone is not given up.
IgnoresCancellation(r) ==
    /\ pc[r] = "call"
    /\ route.provider = "azure-openai"
    /\ ~cancelled[r]
    /\ Conclude(r, 502)
    /\ Fault
    /\ UNCHANGED <<database, world, history>>

\* The call returns an error, with or without the model having run.
ProviderFails(r) ==
    /\ pc[r] = "call"
    /\ route.provider = "azure-openai" \/ cancelled[r]
    /\ Conclude(r, 502)
    /\ CallFails(r)
    /\ \/ UNCHANGED executions
       \/ route.provider = "azure-openai" /\ Execute(r)
    /\ UNCHANGED <<database, world, answeredBefore>>

\* The model ran and reports its usage, but the response has no text (its
\* output tokens went into reasoning): Invoke of the provider is an error.
NoTextOutput(r) ==
    /\ pc[r] = "call"
    /\ route.provider = "azure-openai"
    /\ ~cancelled[r]
    /\ Conclude(r, 502)
    /\ Execute(r)
    /\ UNCHANGED <<database, world, faults, answeredBefore>>

\* The provider answers, and Invoke prices the reported usage.
ProviderAnswers(r) ==
    /\ pc[r] = "call"
    /\ ~cancelled[r]
    /\ Execute(r)
    /\ \E usage \in UsageReports :
          IF EstimationFails(usage) THEN Conclude(r, 500)
          ELSE LET costs == Estimate(route.provider, route.model, usage)
                   cost  == IF costs = {} THEN NULL
                            ELSE CHOOSE c \in costs : TRUE
               IN  Continue(r, "record", [NoLocals EXCEPT !.cost = cost])
    /\ UNCHANGED <<database, world, faults, answeredBefore>>

\* Fault: the route is inserted outside the transaction.
RouteWithoutTransaction(r) ==
    /\ pc[r] = "record"
    /\ ~cancelled[r]
    /\ model_routes' = [model_routes EXCEPT ![r] = route]
    /\ Continue(r, "commit", [local[r] EXCEPT !.txMonth = month])
    /\ UNCHANGED <<governance_requests, policy_decisions, budget_policies,
                   budget_decisions, usage_records, world, faults, history>>

\* RecordInvocation opens its transaction and runs its two INSERTs.  Their
\* recorded_at is now(), the start of the transaction.
BeginRecord(r) ==
    /\ pc[r] = "record"
    /\ ~cancelled[r]
    /\ r \in governance_requests
    /\ Continue(r, "commit", [local[r] EXCEPT !.txMonth = month])
    /\ UNCHANGED <<database, world, faults, history>>

\* The commit makes both rows visible.
CommitRecord(r) ==
    LET row == [cost  |-> IF local[r].cost = NULL THEN NULL
                          ELSE StoredCost(local[r].cost),
                month |-> local[r].txMonth]
    IN  /\ pc[r] = "commit"
        /\ model_routes' = [model_routes EXCEPT ![r] = route]
        /\ usage_records' = [usage_records EXCEPT ![r] = row]
        /\ Executed(r, Conclude(r, 200))
        /\ UNCHANGED <<governance_requests, policy_decisions, budget_policies,
                       budget_decisions, world, history>>

\* Fault: an allow goes on although its decision could not be stored.
DecisionErrorIgnored(r) ==
    /\ pc[r] = "decide"
    /\ local[r].decision.decision = "allow"
    /\ Continue(r, "call", NoLocals)
    /\ CallFails(r)
    /\ UNCHANGED <<database, world, history>>

\* Fault: the error of the commit is not looked at.
CommitErrorIgnored(r) ==
    /\ pc[r] = "commit"
    /\ Conclude(r, 200)
    /\ CallFails(r)
    /\ UNCHANGED <<database, world, history>>

\* Fault: the commit waits for a connection that has gone.
CommitHangs(r) ==
    /\ pc[r] \in DatabaseSteps \ {"commit"}
    /\ pc[r] = "create" => ValidCreateRequest(req[r])
    /\ pc[r] = "policy" => req[r].costCenter # ""
    /\ Conclude(r, 500)
    /\ CallFails(r)
    /\ UNCHANGED <<database, world, history>>

\* A statement, or the commit of a transaction, fails without effect.
DatabaseFails(r) ==
    /\ pc[r] \in DatabaseSteps
    /\ pc[r] = "create" => ValidCreateRequest(req[r])
    /\ pc[r] = "policy" => req[r].costCenter # ""
    /\ Conclude(r, 500)
    /\ CallFails(r)
    /\ UNCHANGED <<database, world, history>>

\* The response is written (to nobody, if the client has gone).
Reply(r) ==
    /\ pc[r] = "reply"
    /\ pc' = [pc EXCEPT ![r] = "done"]
    /\ UNCHANGED <<database, req, local, cancelled, status, world, faults,
                   history>>

----------------------------------------------------------------------------
\* The environment and the process

\* net/http cancels the request's context when the client disconnects.
Disconnect(r) ==
    /\ pc[r] \in InFlightSteps
    /\ ~cancelled[r]
    /\ cancelled' = [cancelled EXCEPT ![r] = TRUE]
    /\ Fault
    /\ UNCHANGED <<database, pc, req, local, status, world, history>>

\* SIGTERM: the listener closes, the handlers go on.
Shutdown ==
    /\ server = "up"
    /\ server' = "draining"
    /\ UNCHANGED <<database, handlers, route, month, changes, restarts,
                   faults, history>>

\* Shutdown returns when no handler is left.
Stop ==
    /\ server = "draining"
    /\ InFlight = {}
    /\ server' = "down"
    /\ UNCHANGED <<database, handlers, route, month, changes, restarts,
                   faults, history>>

\* The process exits over running handlers: os.Exit(1) when the ten seconds
\* of graceful shutdown are over, or a crash.
Kill ==
    /\ server \in {"up", "draining"}
    /\ InFlight # {}
    /\ server' = "down"
    /\ Fault
    /\ pc' = [r \in Requests |-> IF r \in InFlight THEN "lost" ELSE pc[r]]
    /\ local' = [r \in Requests |-> NoLocals]
    /\ UNCHANGED <<database, req, cancelled, status, route, month, changes,
                   restarts, history>>

\* The process starts again, perhaps with another provider or deployment.
Restart ==
    /\ server = "down"
    /\ restarts < MaxRestarts
    /\ server' = "up"
    /\ restarts' = restarts + 1
    /\ route' \in RouteTargets
    /\ UNCHANGED <<database, handlers, month, changes, faults, history>>

\* A calendar month (UTC) ends.
NextMonth ==
    /\ month < MaxMonth
    /\ month' = month + 1
    /\ UNCHANGED <<database, handlers, server, route, changes, restarts,
                   faults, history>>

\* An administrator inserts, updates or disables a budget policy.
SetPolicy(cc) ==
    /\ changes < MaxPolicyChanges
    /\ changes' = changes + 1
    /\ \E policy \in PolicyChoices :
          /\ policy # budget_policies[cc]
          /\ budget_policies' = [budget_policies EXCEPT ![cc] = policy]
    /\ UNCHANGED <<governance_requests, policy_decisions, budget_decisions,
                   model_routes, usage_records, handlers, server, route,
                   month, restarts, faults, history>>

----------------------------------------------------------------------------
Init ==
    /\ governance_requests = {}
    /\ policy_decisions = [r \in Requests |-> NULL]
    /\ budget_policies \in [CostCenters -> PolicyChoices \cup {NULL}]
    /\ budget_decisions = [r \in Requests |-> NULL]
    /\ model_routes = [r \in Requests |-> NULL]
    /\ usage_records = [r \in Requests |-> NULL]
    /\ pc = [r \in Requests |-> "idle"]
    /\ req = [r \in Requests |-> NULL]
    /\ local = [r \in Requests |-> NoLocals]
    /\ cancelled = [r \in Requests |-> FALSE]
    /\ status = [r \in Requests |-> 0]
    /\ server = "up"
    /\ route \in RouteTargets
    /\ month = 1
    /\ changes = 0
    /\ restarts = 0
    /\ faults = 0
    /\ executions = [r \in Requests |-> 0]
    /\ answeredBefore = [r \in Requests |-> {}]

Governing(r) == \/ Reject(r)
                \/ CreateRequest(r)

Budgeting(r) == \/ FindActivePolicy(r)
                \/ CurrentSpend(r)
                \/ RecordDecision(r)
                \/ DecisionRefused(r)

Invoking(r) == \/ RetryProvider(r)
               \/ ProviderFails(r)
               \/ NoTextOutput(r)
               \/ ProviderAnswers(r)

Recording(r) == \/ BeginRecord(r)
                \/ CommitRecord(r)

\* A step of the handler of r.
Handle(r) == \/ Governing(r)
             \/ Budgeting(r)
             \/ Invoking(r)
             \/ Recording(r)
             \/ DatabaseFails(r)
             \/ Reply(r)

Environment == \/ \E r \in Requests : Arrive(r) \/ Disconnect(r)
               \/ \E cc \in CostCenters : SetPolicy(cc)
               \/ Shutdown \/ Stop \/ Kill \/ Restart
               \/ NextMonth

Next == Environment \/ \E r \in Requests : Handle(r)

Spec == Init /\ [][Next]_vars

\* Go schedules every runnable goroutine, and each call of a handler ends:
\* the SDK gives every attempt 60 s and retries twice, and the driver's
\* keep-alive breaks a dead database connection.  Server.Shutdown polls until
\* no connection is active.
Fairness == /\ \A r \in Requests : WF_vars(Handle(r))
            /\ WF_vars(Stop)

FairSpec == Spec /\ Fairness

----------------------------------------------------------------------------
\* Properties

TablesOK ==
    /\ governance_requests \subseteq Requests
    /\ policy_decisions \in [Requests -> Decisions \cup {NULL}]
    /\ budget_policies \in [CostCenters -> BudgetPolicies \cup {NULL}]
    /\ budget_decisions \in [Requests -> DecisionRows \cup {NULL}]
    /\ model_routes \in [Requests -> RouteTargets \cup {NULL}]
    /\ usage_records \in [Requests -> UsageRows \cup {NULL}]

Steps == InFlightSteps \cup {"idle", "done", "lost"}

StatusCodes == {0, 200, 201, 202, 400, 403, 409, 500, 502, 503}

HandlersOK ==
    /\ pc \in [Requests -> Steps]
    /\ req \in [Requests -> Inputs \cup {NULL}]
    /\ local \in [Requests -> Locals]
    /\ cancelled \in [Requests -> BOOLEAN]
    /\ status \in [Requests -> StatusCodes]

WorldOK ==
    /\ server \in {"up", "draining", "down"}
    /\ route \in RouteTargets
    /\ month \in Months
    /\ changes \in 0 .. MaxPolicyChanges
    /\ restarts \in 0 .. MaxRestarts

HistoryOK ==
    /\ executions \in [Requests -> Nat]
    /\ answeredBefore \in [Requests -> SUBSET Requests]

\* The tables hold what their columns and CHECK constraints accept, the
\* handlers their locals, and no counter passes its bound (migrations, the Go
\* types, and the retry limit of the SDK).
TypeOK == /\ TablesOK
          /\ HandlersOK
          /\ WorldOK
          /\ faults \in 0 .. MaxFaults
          /\ HistoryOK

\* The tables form an unbroken chain of evidence at every moment, even while
\* transactions fail and the process dies: a route and a usage row come
\* together, behind a budget allow, behind a governance allow, behind the
\* request (airouter.Invoke and the transactions of the three repositories).
AuditChain ==
    \A r \in Requests :
        /\ policy_decisions[r] # NULL <=> r \in governance_requests
        /\ budget_decisions[r] # NULL => policy_decisions[r] = "allow"
        /\ model_routes[r] # NULL =>
               /\ budget_decisions[r] # NULL
               /\ budget_decisions[r].decision = "allow"
        /\ usage_records[r] # NULL <=> model_routes[r] # NULL

\* The provider never runs the model for a request, not even in an attempt
\* that fails, unless both allow decisions are already durable; and no usage
\* is charged that the provider did not run (airouter.Invoke).
ExecutionsAuthorised ==
    \A r \in Requests :
        /\ executions[r] > 0 =>
               /\ policy_decisions[r] = "allow"
               /\ budget_decisions[r] # NULL
               /\ budget_decisions[r].decision = "allow"
        /\ usage_records[r] # NULL => executions[r] > 0

Stopped(r, decision) ==
    \/ policy_decisions[r] = decision
    \/ budget_decisions[r] # NULL /\ budget_decisions[r].decision = decision

\* A written response tells the truth about what is on record: a completion
\* is charged, a refusal is stored and cost nothing, and a bad request never
\* reached the provider (invokeAI, createOpenAIChatCompletion,
\* createGovernanceRequest and handleAIError).
RepliesMatchAudit ==
    \A r \in Answered :
        /\ status[r] = 200 => usage_records[r] # NULL
        /\ status[r] = 201 => /\ policy_decisions[r] # NULL
                              /\ budget_decisions[r] = NULL
        /\ status[r] \in {202, 409} => Stopped(r, "review")
        /\ status[r] = 403 => Stopped(r, "deny")
        /\ status[r] \in {201, 202, 400, 403, 409, 503} => executions[r] = 0

\* Usage rows among those of some requests that r's decision should count.
ChargesTo(r, requests) ==
    {q \in requests : /\ usage_records[q] # NULL
                      /\ req[q].costCenter = req[r].costCenter
                      /\ usage_records[q].month = budget_decisions[r].period}

\* A decision that read the spend counts every charge answered before its
\* request arrived, and only charges of its cost center and month, although
\* reading the spend and storing the decision are separate statements
\* (budget.Evaluate).  Charges of overlapping requests may be missing.
DecisionsCountAnsweredCharges ==
    \A r \in Requests :
        (budget_decisions[r] # NULL /\ budget_decisions[r].policy # NULL) =>
            /\ ChargesTo(r, answeredBefore[r]) \subseteq
                   budget_decisions[r].counted
            /\ budget_decisions[r].counted \subseteq ChargesTo(r, Requests)

\* Once an answered request left a usage row of unknown cost, no request that
\* arrives later in that month is allowed for that cost center: unknown cost
\* forces review (budget.Evaluate, docs/ROADMAP.md).
UnknownCostHoldsMonth ==
    \A r \in Requests :
        (budget_decisions[r] # NULL /\ budget_decisions[r].decision = "allow")
        => \A q \in ChargesTo(r, answeredBefore[r]) :
               usage_records[q].cost # NULL

\* Under one limit and threshold the guardrail does not reopen within a
\* month: after an answered review or deny no later arrival is allowed
\* (budget.Evaluate over the rows that CurrentSpend sums).
VerdictsNeverRelax ==
    \A r \in Requests : \A q \in answeredBefore[r] :
        (/\ budget_decisions[r] # NULL
         /\ budget_decisions[q] # NULL
         /\ req[r].costCenter = req[q].costCenter
         /\ budget_decisions[r].period = budget_decisions[q].period
         /\ budget_decisions[r].policy = budget_decisions[q].policy
         /\ budget_decisions[r].decision = "allow")
        => budget_decisions[q].decision = "allow"

\* The dearest charge one request can leave.
MaxCost ==
    Max({0} \cup {StoredCost(cost) : cost \in
        UNION {Estimate(target.provider, target.model, usage) :
               target \in RouteTargets,
               usage \in {u \in UsageReports : ~EstimationFails(u)}}})

\* Spend is not reserved, so concurrent requests overshoot the threshold, but
\* by no more than one charge for each request in flight at once; a cost
\* center without an enabled policy is never charged (budget.Evaluate and
\* README.md, "Important MVP limitation").  Stated while policies stand still,
\* and for one clock of the process and PostgreSQL.
OvershootBounded ==
    changes = 0 =>
    \A cc \in CostCenters, period \in Months :
        LET policy == budget_policies[cc]
            spent  == Spent(SpendRows(cc, period))
        IN  \/ spent = 0
            \/ /\ policy # NULL
               /\ policy.enabled
               /\ (spent - MaxInFlight * MaxCost) * 100
                      < policy.threshold * policy.limit

\* A request that has arrived is answered, or dies with the process.
RequestsEnd ==
    \A r \in Requests : pc[r] = "create" ~> pc[r] \in {"done", "lost"}

\* A shutdown ends by itself: draining handlers finish without the ten-second
\* deadline, since none of them waits for another (main.go, Server.Shutdown).
ShutdownEnds == server = "draining" ~> server = "down"

----------------------------------------------------------------------------
\* What the documents say and the code does not do.  Each is stated for
\* behaviours in which no call fails, no client leaves and no kill happens.

\* docs/DEVELOPMENT_HISTORY.md: spent >= monthly limit is denied, and a denial
\* leaves a budget decision.  Every request that governance allows gets a
\* verdict on record (budget.Evaluate, RecordDecision).
VerdictsAreRecorded ==
    faults = 0 =>
    \A r \in Answered :
        (policy_decisions[r] = "allow" /\ req[r].api # "governance")
        => budget_decisions[r] # NULL

\* docs/DEVELOPMENT_HISTORY.md: an allow leaves a budget decision, a route and
\* a usage row (airouter.Invoke).
AllowsAreUsed ==
    faults = 0 =>
    \A r \in Answered :
        (budget_decisions[r] # NULL /\ budget_decisions[r].decision = "allow")
        => model_routes[r] # NULL /\ usage_records[r] # NULL

\* docs/DEVELOPMENT_HISTORY.md: unknown cost is never treated as zero.  A
\* request is not allowed on a spend that leaves out an execution answered
\* before it arrived (azure_openai.go, budget.Evaluate).
UnknownCostIsNotZero ==
    faults = 0 =>
    \A r \in Requests :
        (budget_decisions[r] # NULL /\ budget_decisions[r].decision = "allow")
        => \A q \in answeredBefore[r] :
               (/\ executions[q] > 0
                /\ req[q].costCenter = req[r].costCenter)
               => usage_records[q] # NULL

----------------------------------------------------------------------------
\* The abstract specification, and the rung that the tables prove.

Rung(r) ==
    IF pc[r] = "done" /\ status[r] = 200 THEN "delivered"
    ELSE IF usage_records[r] # NULL THEN "charged"
    ELSE IF executions[r] > 0 THEN "executed"
    ELSE IF budget_decisions[r] # NULL
         THEN IF budget_decisions[r].decision = "allow"
              THEN "authorised" ELSE "withheld"
    ELSE IF policy_decisions[r] = NULL THEN "none"
    ELSE IF policy_decisions[r] = "allow" THEN "permitted" ELSE "refused"

Promised == INSTANCE GovernedInvocation
                WITH rung <- [r \in Requests |-> Rung(r)]

\* Every step of the gateway climbs at most one rung for one request, in the
\* order of the governed request flow: evidence is stored before the step it
\* authorises, never rewritten, and an answer follows its charge.
KeepsPromise == Promised!Spec
=============================================================================
