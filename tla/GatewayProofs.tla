---------------------------- MODULE GatewayProofs ----------------------------
(***************************************************************************)
(* Theorems about Gateway for every value of its constants.                *)
(***************************************************************************)
EXTENDS Gateway, FiniteSetTheorems, TLAPS

----------------------------------------------------------------------------
\* The inductive invariant

\* What the handler of r may rely on at each step: the evidence that the
\* earlier steps stored, and nothing of the later ones.
StepEvidence(r) ==
    /\ pc[r] # "idle" => req[r] \in Inputs
    /\ pc[r] \in {"idle", "create"} =>
           /\ policy_decisions[r] = NULL
           /\ budget_decisions[r] = NULL
           /\ executions[r] = 0
    /\ pc[r] \in {"policy", "spend", "decide"} =>
           /\ policy_decisions[r] = "allow"
           /\ budget_decisions[r] = NULL
           /\ executions[r] = 0
    /\ pc[r] \in {"call", "record", "commit"} =>
           /\ policy_decisions[r] = "allow"
           /\ budget_decisions[r] # NULL
           /\ budget_decisions[r].decision = "allow"
           /\ usage_records[r] = NULL
    /\ pc[r] \in {"record", "commit"} => executions[r] > 0
    /\ pc[r] = "spend" => /\ local[r].policy \in BudgetPolicies
                         /\ local[r].period \in Months
    /\ pc[r] = "decide" => local[r].decision \in DecisionRows
    /\ pc[r] = "commit" => local[r].txMonth \in Months

\* A status code, from the moment it is chosen, agrees with the audit trail.
StatusEvidence(r) ==
    pc[r] \in {"reply", "done"} =>
        /\ status[r] = 200 => usage_records[r] # NULL
        /\ status[r] = 201 => /\ policy_decisions[r] # NULL
                              /\ budget_decisions[r] = NULL
        /\ status[r] \in {202, 409} => Stopped(r, "review")
        /\ status[r] = 403 => Stopped(r, "deny")
        /\ status[r] \in {201, 202, 400, 403, 409, 503} => executions[r] = 0

Inv == /\ TypeOK
       /\ AuditChain
       /\ ExecutionsAuthorised
       /\ \A r \in Requests : StepEvidence(r)
       /\ \A r \in Requests : StatusEvidence(r)

----------------------------------------------------------------------------
\* Types of what the operators return

\* The decision table returns a decision.
LEMMA VerdictType ==
    ASSUME NEW policy, NEW snapshot
    PROVE  Verdict(policy, snapshot) \in Decisions
  BY DEF Verdict, Decisions

\* The baseline policy returns a decision.
LEMMA PolicyType ==
    ASSUME NEW classification
    PROVE  EvaluatePolicy(classification) \in Decisions
  BY DEF EvaluatePolicy, Decisions

\* A handler starts with proper locals.
LEMMA NoLocalsType == NoLocals \in Locals
  BY BoundsAssumption DEF NoLocals, Locals

\* A price times a billable usage is a natural number of nano-USD.
LEMMA CostType ==
    ASSUME NEW rate \in Catalog, NEW usage \in UsageReports,
           ~EstimationFails(usage)
    PROVE  CostAt(rate, usage) \in Nat
  <1>1. /\ usage.cached \in Nat
        /\ usage.output \in Nat
        /\ usage.input - usage.cached \in Nat
    BY ChoicesAssumption DEF Usages, EstimationFails
  <1>2. /\ rate.input \in Nat
        /\ rate.cached \in Nat
        /\ rate.output \in Nat
    BY CatalogAssumption
  <1>3. \A a, b \in Nat : a * b \in Nat
    OBVIOUS
  <1>4. /\ (usage.input - usage.cached) * rate.input \in Nat
        /\ usage.cached * rate.cached \in Nat
        /\ usage.output * rate.output \in Nat
    BY <1>1, <1>2, <1>3
  <1>5. \A a, b, c \in Nat : a + b + c \in Nat
    OBVIOUS
  <1> QED
    BY <1>4, <1>5 DEF CostAt

\* Rounding keeps a cost a natural number.
LEMMA StoredCostType ==
    ASSUME NEW cost \in Nat
    PROVE  StoredCost(cost) \in Nat
  BY DEF StoredCost

----------------------------------------------------------------------------
\* The two ways a handler step ends

\* Going on keeps the types of the handlers.
LEMMA ContinueType ==
    ASSUME HandlersOK, NEW r \in Requests, NEW step \in Steps,
           NEW locals \in Locals, Continue(r, step, locals)
    PROVE  HandlersOK'
  BY DEF HandlersOK, Continue

\* Concluding keeps the types of the handlers.
LEMMA ConcludeType ==
    ASSUME HandlersOK, NEW r \in Requests, NEW code \in StatusCodes,
           Conclude(r, code)
    PROVE  HandlersOK'
  BY NoLocalsType DEF HandlersOK, Conclude, Steps, InFlightSteps

\* No fault passes the bound.
LEMMA FaultType ==
    ASSUME TypeOK, NEW r \in Requests, Fault \/ CallFails(r)
    PROVE  faults' \in 0 .. MaxFaults
  BY BoundsAssumption DEF TypeOK, HandlersOK, Fault, CallFails

\* An error claims nothing: whatever is stored, the handler may conclude so.
LEMMA ErrorEvidence ==
    ASSUME Inv, NEW r \in Requests, NEW code \in {500, 502},
           pc[r] \in InFlightSteps, Conclude(r, code), UNCHANGED database,
           \A q \in Requests \ {r} : executions'[q] = executions[q]
    PROVE  /\ \A q \in Requests : StepEvidence(q)'
           /\ \A q \in Requests : StatusEvidence(q)'
  <1>1. /\ pc'[r] = "reply"
        /\ status'[r] = code
        /\ req' = req
    BY DEF Inv, TypeOK, HandlersOK, Conclude
  <1>2. \A q \in Requests \ {r} : /\ pc'[q] = pc[q]
                                  /\ status'[q] = status[q]
                                  /\ local'[q] = local[q]
    BY DEF Inv, TypeOK, HandlersOK, Conclude
  <1>3. req[r] \in Inputs
    BY DEF Inv, StepEvidence, InFlightSteps, DatabaseSteps
  <1>4. \A q \in Requests : StepEvidence(q)'
    BY <1>1, <1>2, <1>3 DEF Inv, StepEvidence, database
  <1>5. \A q \in Requests : StatusEvidence(q)'
    BY <1>1, <1>2 DEF Inv, StatusEvidence, Stopped, database
  <1> QED
    BY <1>4, <1>5

----------------------------------------------------------------------------
\* Each action preserves the invariant

\* Reject preserves the invariant.
LEMMA RejectStep ==
    ASSUME Inv, NEW r \in Requests, Reject(r)
    PROVE  Inv'
  <1>1. TypeOK'
    BY ConcludeType
    DEF Inv, TypeOK, Reject, TablesOK, WorldOK, HistoryOK, StatusCodes,
        database, world, history
  <1>2. AuditChain' /\ ExecutionsAuthorised'
    BY DEF Inv, Reject, AuditChain, ExecutionsAuthorised, database, history
  <1>3. \A q \in Requests : StepEvidence(q)'
    BY
    DEF Inv, TypeOK, HandlersOK, Reject, Conclude, StepEvidence, database,
        history, InFlightSteps, DatabaseSteps
  <1>4. \A q \in Requests : StatusEvidence(q)'
    BY
    DEF Inv, TypeOK, HandlersOK, Reject, Conclude, StepEvidence,
        StatusEvidence, Stopped, database, history
  <1> QED
    BY <1>1, <1>2, <1>3, <1>4 DEF Inv

\* BeginRecord preserves the invariant.
LEMMA BeginRecordStep ==
    ASSUME Inv, NEW r \in Requests, BeginRecord(r)
    PROVE  Inv'
  <1>1. TypeOK'
    <2>1. [local[r] EXCEPT !.txMonth = month] \in Locals
      BY BoundsAssumption DEF Inv, TypeOK, HandlersOK, WorldOK, Months, Locals
    <2> QED
      BY <2>1, ContinueType
      DEF Inv, TypeOK, BeginRecord, TablesOK, WorldOK, HistoryOK, Steps,
          InFlightSteps, DatabaseSteps, database, world, history
  <1>2. AuditChain' /\ ExecutionsAuthorised'
    BY
    DEF Inv, BeginRecord, AuditChain, ExecutionsAuthorised, database, history
  <1>3. \A q \in Requests : StepEvidence(q)'
    BY
    DEF Inv, TypeOK, HandlersOK, WorldOK, BeginRecord, Continue, StepEvidence,
        Locals, database, history
  <1>4. \A q \in Requests : StatusEvidence(q)'
    BY
    DEF Inv, TypeOK, HandlersOK, BeginRecord, Continue, StepEvidence,
        StatusEvidence, Stopped, database, history
  <1> QED
    BY <1>1, <1>2, <1>3, <1>4 DEF Inv

\* Arrive preserves the invariant.
LEMMA ArriveStep ==
    ASSUME Inv, NEW r \in Requests, Arrive(r)
    PROVE  Inv'
  <1>1. TypeOK'
    BY
    DEF Inv, TypeOK, Arrive, Answered, TablesOK, HandlersOK, WorldOK,
        HistoryOK, Steps, InFlightSteps, DatabaseSteps, database, world
  <1>2. AuditChain' /\ ExecutionsAuthorised'
    BY DEF Inv, Arrive, AuditChain, ExecutionsAuthorised, database
  <1>3. \A q \in Requests : StepEvidence(q)'
    BY DEF Inv, TypeOK, HandlersOK, Arrive, StepEvidence, database
  <1>4. \A q \in Requests : StatusEvidence(q)'
    BY DEF Inv, TypeOK, HandlersOK, Arrive, StatusEvidence, Stopped, database
  <1> QED
    BY <1>1, <1>2, <1>3, <1>4 DEF Inv

\* DatabaseFails preserves the invariant.
LEMMA DatabaseFailsStep ==
    ASSUME Inv, NEW r \in Requests, DatabaseFails(r)
    PROVE  Inv'
  <1>1. /\ pc[r] \in InFlightSteps
        /\ Conclude(r, 500)
        /\ CallFails(r)
        /\ UNCHANGED <<database, world, history>>
    BY DEF DatabaseFails, InFlightSteps
  <1>2. TypeOK'
    BY <1>1, ConcludeType, FaultType
    DEF Inv, TypeOK, TablesOK, WorldOK, HistoryOK, StatusCodes, database,
        world, history
  <1>3. AuditChain' /\ ExecutionsAuthorised'
    BY <1>1 DEF Inv, AuditChain, ExecutionsAuthorised, database, history
  <1> QED
    BY <1>1, <1>2, <1>3, ErrorEvidence DEF Inv, history

\* DecisionRefused preserves the invariant.
LEMMA DecisionRefusedStep ==
    ASSUME Inv, NEW r \in Requests, DecisionRefused(r)
    PROVE  Inv'
  <1>1. /\ pc[r] \in InFlightSteps
        /\ Conclude(r, 500)
        /\ UNCHANGED <<database, world, faults, history>>
    BY DEF DecisionRefused, InFlightSteps, DatabaseSteps
  <1>2. TypeOK'
    BY <1>1, ConcludeType
    DEF Inv, TypeOK, TablesOK, WorldOK, HistoryOK, StatusCodes, database,
        world, history
  <1>3. AuditChain' /\ ExecutionsAuthorised'
    BY <1>1 DEF Inv, AuditChain, ExecutionsAuthorised, database, history
  <1> QED
    BY <1>1, <1>2, <1>3, ErrorEvidence DEF Inv, history

\* Reply preserves the invariant.
LEMMA ReplyStep ==
    ASSUME Inv, NEW r \in Requests, Reply(r)
    PROVE  Inv'
  <1>1. TypeOK'
    BY
    DEF Inv, TypeOK, Reply, TablesOK, HandlersOK, WorldOK, HistoryOK, Steps,
        database, world, history
  <1>2. AuditChain' /\ ExecutionsAuthorised'
    BY DEF Inv, Reply, AuditChain, ExecutionsAuthorised, database, history
  <1>3. \A q \in Requests : StepEvidence(q)'
    BY DEF Inv, TypeOK, HandlersOK, Reply, StepEvidence, database, history
  <1>4. \A q \in Requests : StatusEvidence(q)'
    BY
    DEF Inv, TypeOK, HandlersOK, Reply, StatusEvidence, Stopped, database,
        history
  <1> QED
    BY <1>1, <1>2, <1>3, <1>4 DEF Inv

\* CreateRequest preserves the invariant.
LEMMA CreateRequestStep ==
    ASSUME Inv, NEW r \in Requests, CreateRequest(r)
    PROVE  Inv'
  <1> DEFINE decision == EvaluatePolicy(ClassificationOf(req[r]))
  <1>1. /\ pc[r] = "create"
        /\ governance_requests' = governance_requests \cup {r}
        /\ policy_decisions' = [policy_decisions EXCEPT ![r] = decision]
        /\ UNCHANGED <<budget_policies, budget_decisions, model_routes,
                       usage_records, world, history>>
    BY DEF CreateRequest
  <1>2. \/ /\ AfterGovernance(r, decision)
           /\ UNCHANGED faults
        \/ /\ Conclude(r, 500)
           /\ Fault
    BY DEF CreateRequest, Executed
  <1>3. /\ decision \in Decisions
        /\ decision # NULL
    BY PolicyType, NullAssumption
  <1>4. CASE AfterGovernance(r, decision) /\ UNCHANGED faults
    <2>1. \/ req[r].api = "governance" /\ Conclude(r, 201)
          \/ /\ decision \in {"review", "deny"}
             /\ \E code \in {202, 403, 409} :
                   /\ Conclude(r, code)
                   /\ code = 403 <=> decision = "deny"
          \/ decision = "allow" /\ Continue(r, "policy", NoLocals)
      BY <1>3, <1>4 DEF AfterGovernance, RefusalStatus, Decisions
    <2> HIDE DEF decision
    <2>2. TypeOK'
      BY <1>1, <1>3, <1>4, <2>1, ConcludeType, ContinueType, NoLocalsType
      DEF Inv, TypeOK, TablesOK, WorldOK, HistoryOK, StatusCodes, Steps,
          InFlightSteps, DatabaseSteps, world, history
    <2>3. AuditChain' /\ ExecutionsAuthorised'
      BY <1>1, <1>3, <2>1
      DEF Inv, TypeOK, TablesOK, AuditChain, ExecutionsAuthorised,
          StepEvidence, history
    <2>4. \A q \in Requests : StepEvidence(q)'
      BY <1>1, <1>3, <2>1
      DEF Inv, TypeOK, TablesOK, HandlersOK, AuditChain, Conclude, Continue,
          StepEvidence, history
    <2>5. \A q \in Requests : StatusEvidence(q)'
      BY <1>1, <1>3, <2>1
      DEF Inv, TypeOK, TablesOK, HandlersOK, AuditChain, Conclude, Continue,
          StepEvidence, StatusEvidence, Stopped, history
    <2> QED
      BY <2>2, <2>3, <2>4, <2>5 DEF Inv
  <1>5. CASE Conclude(r, 500) /\ Fault
    <2> HIDE DEF decision
    <2>2. TypeOK'
      BY <1>1, <1>3, <1>5, ConcludeType, FaultType
      DEF Inv, TypeOK, TablesOK, WorldOK, HistoryOK, StatusCodes, world,
          history
    <2>3. AuditChain' /\ ExecutionsAuthorised'
      BY <1>1, <1>3
      DEF Inv, TypeOK, TablesOK, AuditChain, ExecutionsAuthorised,
          StepEvidence, history
    <2>4. \A q \in Requests : StepEvidence(q)'
      BY <1>1, <1>3, <1>5
      DEF Inv, TypeOK, TablesOK, HandlersOK, Conclude, StepEvidence, history
    <2>5. \A q \in Requests : StatusEvidence(q)'
      BY <1>1, <1>3, <1>5
      DEF Inv, TypeOK, TablesOK, HandlersOK, AuditChain, Conclude,
          StepEvidence, StatusEvidence, Stopped, history
    <2> QED
      BY <2>2, <2>3, <2>4, <2>5 DEF Inv
  <1> QED
    BY <1>2, <1>4, <1>5

\* FindActivePolicy preserves the invariant.
LEMMA FindActivePolicyStep ==
    ASSUME Inv, NEW r \in Requests, FindActivePolicy(r)
    PROVE  Inv'
  <1> DEFINE review == [decision |-> "review", period |-> month,
                        policy |-> NULL, counted |-> {}]
             here   == [NoLocals EXCEPT !.period = month]
  <1>1. PICK policy \in BudgetPolicies \cup {NULL} :
           /\ pc[r] = "policy"
           /\ \/ /\ policy # NULL
                 /\ Continue(r, "spend", [here EXCEPT !.policy = policy])
              \/ Continue(r, "decide", [here EXCEPT !.decision = review])
           /\ UNCHANGED <<database, world, faults, history>>
    BY DEF FindActivePolicy, Inv, TypeOK, TablesOK
  <1>2. /\ review \in DecisionRows
        /\ month \in Months
        /\ month \in 0 .. MaxMonth
    BY BoundsAssumption
    DEF DecisionRows, Decisions, Inv, TypeOK, WorldOK, Months
  <1>3. /\ [here EXCEPT !.policy = policy] \in Locals
        /\ [here EXCEPT !.policy = policy].policy = policy
        /\ [here EXCEPT !.policy = policy].period = month
        /\ [here EXCEPT !.decision = review] \in Locals
        /\ [here EXCEPT !.decision = review].decision = review
    <2> HIDE DEF review
    <2> QED
      BY <1>2, NoLocalsType DEF NoLocals, Locals
  <1> HIDE DEF here, review
  <1>4. \E step \in {"spend", "decide"}, locals \in Locals :
           /\ Continue(r, step, locals)
           /\ step = "spend" => /\ locals.policy \in BudgetPolicies
                                /\ locals.period \in Months
           /\ step = "decide" => locals.decision \in DecisionRows
    BY <1>1, <1>2, <1>3
  <1>5. TypeOK'
    BY <1>1, <1>4, ContinueType
    DEF Inv, TypeOK, TablesOK, WorldOK, HistoryOK, Steps, InFlightSteps,
        DatabaseSteps, database, world, history
  <1>6. AuditChain' /\ ExecutionsAuthorised'
    BY <1>1 DEF Inv, AuditChain, ExecutionsAuthorised, database, history
  <1>7. \A q \in Requests : StepEvidence(q)'
    BY <1>1, <1>4
    DEF Inv, TypeOK, HandlersOK, Continue, StepEvidence, database, history
  <1>8. \A q \in Requests : StatusEvidence(q)'
    BY <1>1, <1>4
    DEF Inv, TypeOK, HandlersOK, Continue, StatusEvidence, Stopped, database,
        history
  <1> QED
    BY <1>5, <1>6, <1>7, <1>8 DEF Inv

\* CurrentSpend preserves the invariant.
LEMMA CurrentSpendStep ==
    ASSUME Inv, NEW r \in Requests, CurrentSpend(r)
    PROVE  Inv'
  <1> DEFINE rows == SpendRows(req[r].costCenter, local[r].period)
             row  == [decision |-> Verdict(local[r].policy, SnapshotOf(rows)),
                      period   |-> local[r].period,
                      policy   |-> local[r].policy,
                      counted  |-> rows]
  <1>1. /\ pc[r] = "spend"
        /\ Continue(r, "decide", [local[r] EXCEPT !.decision = row])
        /\ UNCHANGED <<database, world, faults, history>>
    BY DEF CurrentSpend
  <1>2. row \in DecisionRows
    <2>1. rows \in SUBSET Requests
      BY DEF SpendRows, Inv, TypeOK, TablesOK
    <2>2. /\ local[r].policy \in BudgetPolicies
          /\ local[r].period \in Months
      BY <1>1 DEF Inv, StepEvidence
    <2> HIDE DEF rows
    <2> QED
      BY <2>1, <2>2, VerdictType DEF DecisionRows
  <1> HIDE DEF row
  <1>3. /\ [local[r] EXCEPT !.decision = row] \in Locals
        /\ [local[r] EXCEPT !.decision = row].decision = row
    BY <1>2 DEF Inv, TypeOK, HandlersOK, Locals
  <1>4. TypeOK'
    BY <1>1, <1>3, ContinueType
    DEF Inv, TypeOK, TablesOK, WorldOK, HistoryOK, Steps, InFlightSteps,
        DatabaseSteps, database, world, history
  <1>5. AuditChain' /\ ExecutionsAuthorised'
    BY <1>1 DEF Inv, AuditChain, ExecutionsAuthorised, database, history
  <1>6. \A q \in Requests : StepEvidence(q)'
    BY <1>1, <1>2, <1>3
    DEF Inv, TypeOK, HandlersOK, Continue, StepEvidence, database, history
  <1>7. \A q \in Requests : StatusEvidence(q)'
    BY <1>1
    DEF Inv, TypeOK, HandlersOK, Continue, StatusEvidence, Stopped, database,
        history
  <1> QED
    BY <1>4, <1>5, <1>6, <1>7 DEF Inv

\* RecordDecision preserves the invariant.
LEMMA RecordDecisionStep ==
    ASSUME Inv, NEW r \in Requests, RecordDecision(r)
    PROVE  Inv'
  <1> DEFINE row == local[r].decision
  <1>1. /\ pc[r] = "decide"
        /\ budget_decisions' = [budget_decisions EXCEPT ![r] = row]
        /\ UNCHANGED <<governance_requests, policy_decisions, budget_policies,
                       model_routes, usage_records, world, history>>
    BY DEF RecordDecision
  <1>2. \/ AfterBudget(r, row.decision) /\ UNCHANGED faults
        \/ Conclude(r, 500) /\ Fault
    BY DEF RecordDecision, Executed
  <1>3. /\ row \in DecisionRows
        /\ row # NULL
        /\ row.decision \in Decisions
    BY <1>1, NullAssumption DEF Inv, StepEvidence, DecisionRows
  <1>4. \/ /\ row.decision = "allow"
           /\ Continue(r, "call", NoLocals)
           /\ UNCHANGED faults
        \/ \E code \in {202, 400, 403, 409, 500, 503} :
              /\ Conclude(r, code)
              /\ UNCHANGED faults \/ Fault
              /\ code \in {202, 409} => row.decision = "review"
              /\ code = 403 => row.decision = "deny"
    BY <1>2, <1>3 DEF AfterBudget, RefusalStatus, Decisions
  <1>5. /\ policy_decisions[r] = "allow"
        /\ executions[r] = 0
        /\ usage_records[r] = NULL
        /\ req[r] \in Inputs
    BY <1>1 DEF Inv, StepEvidence, AuditChain
  <1> HIDE DEF row
  <1>6. TypeOK'
    BY <1>1, <1>3, <1>4, ConcludeType, ContinueType, NoLocalsType, FaultType
    DEF Inv, TypeOK, TablesOK, WorldOK, HistoryOK, StatusCodes, Steps,
        InFlightSteps, world, history
  <1>7. AuditChain' /\ ExecutionsAuthorised'
    BY <1>1, <1>3, <1>5
    DEF Inv, TypeOK, TablesOK, AuditChain, ExecutionsAuthorised, history
  <1>8. \A q \in Requests : StepEvidence(q)'
    BY <1>1, <1>3, <1>4, <1>5
    DEF Inv, TypeOK, TablesOK, HandlersOK, Conclude, Continue, StepEvidence,
        history
  <1>9. \A q \in Requests : StatusEvidence(q)'
    BY <1>1, <1>3, <1>4, <1>5
    DEF Inv, TypeOK, TablesOK, HandlersOK, Conclude, Continue, StatusEvidence,
        Stopped, history
  <1> QED
    BY <1>6, <1>7, <1>8, <1>9 DEF Inv

\* RetryProvider preserves the invariant.
LEMMA RetryProviderStep ==
    ASSUME Inv, NEW r \in Requests, RetryProvider(r)
    PROVE  Inv'
  <1>1. /\ pc[r] = "call"
        /\ Continue(r, "call", [local[r] EXCEPT !.attempts = @ + 1])
        /\ Fault
        /\ Execute(r) \/ UNCHANGED executions
        /\ UNCHANGED <<database, world, answeredBefore>>
    BY DEF RetryProvider
  <1>2. [local[r] EXCEPT !.attempts = @ + 1] \in Locals
    BY BoundsAssumption DEF RetryProvider, Inv, TypeOK, HandlersOK, Locals
  <1>3. \A q \in Requests :
           executions'[q] \in {executions[q], executions[q] + 1}
    BY <1>1 DEF Execute, Inv, TypeOK, HistoryOK
  <1>4. TypeOK'
    <2>1. executions' \in [Requests -> Nat]
      BY <1>1 DEF Execute, Inv, TypeOK, HistoryOK
    <2>2. HandlersOK'
      BY <1>1, <1>2, ContinueType DEF Inv, TypeOK, Steps, InFlightSteps
    <2>3. faults' \in 0 .. MaxFaults
      BY <1>1, FaultType DEF Inv
    <2> QED
      BY <1>1, <2>1, <2>2, <2>3
      DEF Inv, TypeOK, TablesOK, WorldOK, HistoryOK, database, world
  <1>5. AuditChain' /\ ExecutionsAuthorised'
    BY <1>1, <1>3
    DEF Inv, TypeOK, HistoryOK, AuditChain, ExecutionsAuthorised, StepEvidence,
        Execute, database
  <1>6. \A q \in Requests : StepEvidence(q)'
    BY <1>1
    DEF Inv, TypeOK, HandlersOK, HistoryOK, Continue, StepEvidence, Execute,
        database
  <1>7. \A q \in Requests : StatusEvidence(q)'
    BY <1>1
    DEF Inv, TypeOK, HandlersOK, HistoryOK, Continue, StatusEvidence, Stopped,
        Execute, database
  <1> QED
    BY <1>4, <1>5, <1>6, <1>7 DEF Inv

\* The provider call ends in an error, whether or not the model ran.
LEMMA CallErrorStep ==
    ASSUME Inv, NEW r \in Requests, NEW code \in {500, 502},
           pc[r] = "call", Conclude(r, code),
           Execute(r) \/ UNCHANGED executions,
           faults' \in 0 .. MaxFaults,
           UNCHANGED <<database, world, answeredBefore>>
    PROVE  Inv'
  <1>1. /\ \A q \in Requests : executions'[q] \in Nat
        /\ \A q \in Requests \ {r} : executions'[q] = executions[q]
        /\ executions' \in [Requests -> Nat]
        /\ executions[r] > 0 => executions'[r] > 0
    BY DEF Execute, Inv, TypeOK, HistoryOK
  <1>2. TypeOK'
    BY <1>1, ConcludeType
    DEF Inv, TypeOK, TablesOK, WorldOK, HistoryOK, StatusCodes, database, world
  <1>3. AuditChain' /\ ExecutionsAuthorised'
    BY <1>1 DEF Inv, AuditChain, ExecutionsAuthorised, StepEvidence, database
  <1> QED
    BY <1>1, <1>2, <1>3, ErrorEvidence DEF Inv, InFlightSteps

\* ProviderFails preserves the invariant.
LEMMA ProviderFailsStep ==
    ASSUME Inv, NEW r \in Requests, ProviderFails(r)
    PROVE  Inv'
  <1>1. faults' \in 0 .. MaxFaults
    BY FaultType DEF ProviderFails, Inv
  <1> QED
    BY <1>1, CallErrorStep DEF ProviderFails

\* NoTextOutput preserves the invariant.
LEMMA NoTextOutputStep ==
    ASSUME Inv, NEW r \in Requests, NoTextOutput(r)
    PROVE  Inv'
  BY CallErrorStep DEF NoTextOutput, Inv, TypeOK

\* ProviderAnswers preserves the invariant.
LEMMA ProviderAnswersStep ==
    ASSUME Inv, NEW r \in Requests, ProviderAnswers(r)
    PROVE  Inv'
  <1>1. /\ pc[r] = "call"
        /\ Execute(r)
        /\ UNCHANGED <<database, world, faults, answeredBefore>>
    BY DEF ProviderAnswers
  <1>2. PICK usage \in UsageReports :
           IF EstimationFails(usage) THEN Conclude(r, 500)
           ELSE LET costs == Estimate(route.provider, route.model, usage)
                    cost  == IF costs = {} THEN NULL
                             ELSE CHOOSE c \in costs : TRUE
                IN  Continue(r, "record", [NoLocals EXCEPT !.cost = cost])
    BY DEF ProviderAnswers
  <1>3. CASE EstimationFails(usage)
    BY <1>1, <1>2, <1>3, CallErrorStep DEF Inv, TypeOK
  <1>4. CASE ~EstimationFails(usage)
    <2> DEFINE costs == Estimate(route.provider, route.model, usage)
               cost  == IF costs = {} THEN NULL ELSE CHOOSE c \in costs : TRUE
               here  == [NoLocals EXCEPT !.cost = cost]
    <2>1. Continue(r, "record", here)
      BY <1>2, <1>4
    <2>2. \A c \in costs : c \in Nat
      BY <1>4, CostType DEF Estimate, Lookup
    <2>3. cost \in Nat \cup {NULL}
      BY <2>2
    <2> HIDE DEF cost
    <2>4. here \in Locals
      BY <2>3, NoLocalsType DEF NoLocals, Locals
    <2> HIDE DEF here
    <2>5. /\ executions' \in [Requests -> Nat]
          /\ executions'[r] > 0
          /\ \A q \in Requests \ {r} : executions'[q] = executions[q]
      BY <1>1 DEF Execute, Inv, TypeOK, HistoryOK
    <2>6. TypeOK'
      BY <1>1, <2>1, <2>4, <2>5, ContinueType
      DEF Inv, TypeOK, TablesOK, WorldOK, HistoryOK, Steps, InFlightSteps,
          DatabaseSteps, database, world
    <2>7. AuditChain' /\ ExecutionsAuthorised'
      BY <1>1, <2>5
      DEF Inv, AuditChain, ExecutionsAuthorised, StepEvidence, database
    <2>8. \A q \in Requests : StepEvidence(q)'
      BY <1>1, <2>1, <2>5
      DEF Inv, TypeOK, HandlersOK, Continue, StepEvidence, database
    <2>9. \A q \in Requests : StatusEvidence(q)'
      BY <1>1, <2>1, <2>5
      DEF Inv, TypeOK, HandlersOK, Continue, StatusEvidence, Stopped, database
    <2> QED
      BY <2>6, <2>7, <2>8, <2>9 DEF Inv
  <1> QED
    BY <1>3, <1>4

\* CommitRecord preserves the invariant.
LEMMA CommitRecordStep ==
    ASSUME Inv, NEW r \in Requests, CommitRecord(r)
    PROVE  Inv'
  <1> DEFINE row == [cost  |-> IF local[r].cost = NULL THEN NULL
                               ELSE StoredCost(local[r].cost),
                     month |-> local[r].txMonth]
  <1>1. /\ pc[r] = "commit"
        /\ model_routes' = [model_routes EXCEPT ![r] = route]
        /\ usage_records' = [usage_records EXCEPT ![r] = row]
        /\ UNCHANGED <<governance_requests, policy_decisions, budget_policies,
                       budget_decisions, world, history>>
    BY DEF CommitRecord
  <1>2. \E code \in {200, 500} : /\ Conclude(r, code)
                                 /\ UNCHANGED faults \/ Fault
    BY DEF CommitRecord, Executed
  <1>3. row \in UsageRows
    <2>1. local[r].cost \in Nat \cup {NULL} /\ local[r].txMonth \in Months
      BY <1>1 DEF Inv, TypeOK, HandlersOK, Locals, StepEvidence
    <2> QED
      BY <2>1, StoredCostType DEF UsageRows
  <1>4. /\ row # NULL
        /\ route # NULL
        /\ route \in RouteTargets
    BY <1>3, NullAssumption DEF Inv, TypeOK, WorldOK
  <1>5. /\ budget_decisions[r] # NULL
        /\ budget_decisions[r].decision = "allow"
        /\ executions[r] > 0
        /\ req[r] \in Inputs
    BY <1>1 DEF Inv, StepEvidence
  <1> HIDE DEF row
  <1>6. TypeOK'
    BY <1>1, <1>2, <1>3, <1>4, ConcludeType, FaultType
    DEF Inv, TypeOK, TablesOK, WorldOK, HistoryOK, StatusCodes, world, history
  <1>7. AuditChain' /\ ExecutionsAuthorised'
    BY <1>1, <1>4, <1>5
    DEF Inv, TypeOK, TablesOK, AuditChain, ExecutionsAuthorised, history
  <1>8. \A q \in Requests : StepEvidence(q)'
    BY <1>1, <1>2, <1>4, <1>5
    DEF Inv, TypeOK, TablesOK, HandlersOK, Conclude, StepEvidence, history
  <1>9. \A q \in Requests : StatusEvidence(q)'
    BY <1>1, <1>2, <1>4, <1>5
    DEF Inv, TypeOK, TablesOK, HandlersOK, Conclude, StatusEvidence, Stopped,
        history
  <1> QED
    BY <1>6, <1>7, <1>8, <1>9 DEF Inv

\* Kill preserves the invariant.
LEMMA KillStep ==
    ASSUME Inv, Kill
    PROVE  Inv'
  <1>1. /\ server' = "down"
        /\ Fault
        /\ pc' = [q \in Requests |-> IF q \in InFlight THEN "lost" ELSE pc[q]]
        /\ local' = [q \in Requests |-> NoLocals]
        /\ UNCHANGED <<database, req, cancelled, status, route, month, changes,
                       restarts, history>>
    BY DEF Kill
  <1>2. \A q \in Requests : /\ pc'[q] \in {pc[q], "lost"}
                            /\ pc[q] \in InFlightSteps => pc'[q] = "lost"
                            /\ pc[q] = "idle" => pc'[q] = "idle"
    BY <1>1 DEF InFlight, InFlightSteps, DatabaseSteps
  <1>3. \A q \in Requests : pc'[q] \in Steps
    BY <1>2 DEF Inv, TypeOK, HandlersOK, Steps
  <1>4. TypeOK'
    BY <1>1, <1>3, NoLocalsType, BoundsAssumption
    DEF Inv, TypeOK, TablesOK, HandlersOK, WorldOK, HistoryOK, Fault, database,
        history
  <1>5. AuditChain' /\ ExecutionsAuthorised'
    BY <1>1 DEF Inv, AuditChain, ExecutionsAuthorised, database, history
  <1>6. \A q \in Requests : StepEvidence(q)'
    BY <1>1, <1>2
    DEF Inv, StepEvidence, database, history, InFlightSteps, DatabaseSteps
  <1>7. \A q \in Requests : StatusEvidence(q)'
    BY <1>1, <1>2 DEF Inv, StatusEvidence, Stopped, database, history
  <1> QED
    BY <1>4, <1>5, <1>6, <1>7 DEF Inv

\* Steps of the world outside the handlers touch no evidence.
LEMMA WorldStep ==
    ASSUME Inv,
           \/ \E r \in Requests : Disconnect(r)
           \/ \E cc \in CostCenters : SetPolicy(cc)
           \/ Shutdown \/ Stop \/ Restart \/ NextMonth
           \/ UNCHANGED vars
    PROVE  Inv'
  <1>1. /\ UNCHANGED <<governance_requests, policy_decisions, budget_decisions,
                       model_routes, usage_records, pc, req, local, status,
                       history>>
    BY
    DEF Disconnect, SetPolicy, Shutdown, Stop, Restart, NextMonth, vars,
        database, handlers, world
  <1>2. /\ TablesOK'
        /\ HandlersOK'
    BY <1>1, ChoicesAssumption
    DEF Inv, TypeOK, TablesOK, HandlersOK, Disconnect, SetPolicy, Shutdown,
        Stop, Restart, NextMonth, vars, database, handlers
  <1>3. /\ WorldOK'
        /\ faults' \in 0 .. MaxFaults
        /\ HistoryOK'
    BY <1>1, BoundsAssumption
    DEF Inv, TypeOK, WorldOK, HistoryOK, Months, Fault, Disconnect, SetPolicy,
        Shutdown, Stop, Restart, NextMonth, vars, database, handlers, world,
        history
  <1>4. AuditChain' /\ ExecutionsAuthorised'
    BY <1>1 DEF Inv, AuditChain, ExecutionsAuthorised, history
  <1>5. \A q \in Requests : StepEvidence(q)' /\ StatusEvidence(q)'
    BY <1>1 DEF Inv, StepEvidence, StatusEvidence, Stopped, history
  <1> QED
    BY <1>2, <1>3, <1>4, <1>5 DEF Inv, TypeOK

----------------------------------------------------------------------------
\* The invariant and what follows from it

\* Nothing is on record before the first request (Init).
LEMMA InitInv ==
    ASSUME Init
    PROVE  Inv
  <1>1. TypeOK
    <2>1. /\ TablesOK
          /\ WorldOK
      BY BoundsAssumption, ChoicesAssumption
      DEF Init, TablesOK, WorldOK, Months
    <2>2. HandlersOK
      BY NoLocalsType DEF Init, HandlersOK, Steps, StatusCodes
    <2> QED
      BY <2>1, <2>2, BoundsAssumption DEF Init, TypeOK, HistoryOK
  <1>2. AuditChain /\ ExecutionsAuthorised
    BY DEF Init, AuditChain, ExecutionsAuthorised
  <1>3. \A r \in Requests : StepEvidence(r) /\ StatusEvidence(r)
    BY DEF Init, StepEvidence, StatusEvidence
  <1> QED
    BY <1>1, <1>2, <1>3 DEF Inv

\* A step of a handler preserves the invariant: one lemma per action.
LEMMA HandleInv ==
    ASSUME Inv, NEW r \in Requests, Handle(r)
    PROVE  Inv'
  <1>1. CASE Governing(r)
    BY <1>1, RejectStep, CreateRequestStep DEF Governing
  <1>2. CASE Budgeting(r)
    BY <1>2, FindActivePolicyStep, CurrentSpendStep, RecordDecisionStep,
       DecisionRefusedStep DEF Budgeting
  <1>3. CASE Invoking(r)
    BY <1>3, RetryProviderStep, ProviderFailsStep, NoTextOutputStep,
       ProviderAnswersStep DEF Invoking
  <1>4. CASE Recording(r)
    BY <1>4, BeginRecordStep, CommitRecordStep DEF Recording
  <1>5. CASE DatabaseFails(r)
    BY <1>5, DatabaseFailsStep
  <1>6. CASE Reply(r)
    BY <1>6, ReplyStep
  <1> QED
    BY <1>1, <1>2, <1>3, <1>4, <1>5, <1>6 DEF Handle

\* Every step, and every stutter, preserves the invariant.
LEMMA NextInv ==
    ASSUME Inv, [Next]_vars
    PROVE  Inv'
  <1>1. CASE \E r \in Requests : Handle(r)
    BY <1>1, HandleInv
  <1>2. CASE \E r \in Requests : Arrive(r)
    BY <1>2, ArriveStep
  <1>3. CASE Kill
    BY <1>3, KillStep
  <1>4. CASE \/ \E r \in Requests : Disconnect(r)
             \/ \E cc \in CostCenters : SetPolicy(cc)
             \/ Shutdown \/ Stop \/ Restart \/ NextMonth
             \/ UNCHANGED vars
    BY <1>4, WorldStep
  <1> QED
    BY <1>1, <1>2, <1>3, <1>4 DEF Next, Environment

\* The inductive invariant holds in every behaviour, whatever the requests,
\* policies, prices, faults and bounds.
THEOREM Invariance == Spec => []Inv
  <1>1. Init => Inv
    BY InitInv
  <1>2. Inv /\ [Next]_vars => Inv'
    BY NextInv
  <1> QED
    BY <1>1, <1>2, PTL DEF Spec

\* The tables, the locals and the counters keep their types (the columns and
\* CHECK constraints of the migrations).
THEOREM TypeCorrect == Spec => []TypeOK
  <1>1. Inv => TypeOK
    BY DEF Inv
  <1> QED
    BY <1>1, Invariance, PTL

\* The chain of evidence in the tables is never broken, in any interleaving
\* and through any failure (airouter.Invoke and the three transactions).
THEOREM Audited == Spec => []AuditChain
  <1>1. Inv => AuditChain
    BY DEF Inv
  <1> QED
    BY <1>1, Invariance, PTL

\* The provider never runs the model without both durable allow decisions
\* (airouter.Invoke).
THEOREM Authorised == Spec => []ExecutionsAuthorised
  <1>1. Inv => ExecutionsAuthorised
    BY DEF Inv
  <1> QED
    BY <1>1, Invariance, PTL

\* Every response that was written agrees with the audit trail (the status
\* codes of the three endpoints).
THEOREM TruthfulReplies == Spec => []RepliesMatchAudit
  <1>1. Inv => RepliesMatchAudit
    BY DEF Inv, StatusEvidence, RepliesMatchAudit, Answered
  <1> QED
    BY <1>1, Invariance, PTL

----------------------------------------------------------------------------
\* Gateway implements GovernedInvocation: each step moves one request by one
\* rung of the ladder, or none.

\* The steps of the ladder.
Ladder == {<<"none", "refused">>, <<"none", "permitted">>,
           <<"permitted", "withheld">>, <<"permitted", "authorised">>,
           <<"authorised", "executed">>, <<"executed", "charged">>,
           <<"charged", "delivered">>}

\* The step changes nothing that the rung of q depends on.
RungKept(q) ==
    /\ policy_decisions'[q] = policy_decisions[q]
    /\ budget_decisions'[q] = budget_decisions[q]
    /\ usage_records'[q] = usage_records[q]
    /\ executions'[q] = executions[q]
    /\ (pc'[q] = "done" /\ status'[q] = 200)
           <=> (pc[q] = "done" /\ status[q] = 200)

\* The step leaves the other requests alone, and r climbs at most one rung.
Climbs(r) ==
    /\ \A q \in Requests \ {r} : RungKept(q)
    /\ Rung(r)' = Rung(r) \/ <<Rung(r), Rung(r)'>> \in Ladder

\* A kept row proves the same rung.
LEMMA KeptRung ==
    ASSUME NEW q \in Requests, RungKept(q)
    PROVE  Rung(q)' = Rung(q)
  BY DEF RungKept, Rung

\* A climb of one request is a step of the abstract specification.
LEMMA ClimbIsStep ==
    ASSUME NEW r \in Requests, Climbs(r)
    PROVE  [Promised!Next]_([q \in Requests |-> Rung(q)])
  <1> DEFINE rung == [q \in Requests |-> Rung(q)]
  <1>1. \A q \in Requests \ {r} : Rung(q)' = Rung(q)
    BY KeptRung DEF Climbs
  <1>2. rung' = [q \in Requests |-> Rung(q)']
    OBVIOUS
  <1>3. CASE Rung(r)' = Rung(r)
    <2>1. \A q \in Requests : Rung(q)' = Rung(q)
      BY <1>1, <1>3
    <2>2. rung' = rung
      BY <1>2, <2>1
    <2> QED
      BY <2>2
  <1>4. CASE <<Rung(r), Rung(r)'>> \in Ladder
    <2>1. rung' = [rung EXCEPT ![r] = Rung(r)']
      BY <1>1, <1>2
    <2>2. PICK from, to : /\ <<from, to>> \in Ladder
                          /\ Rung(r) = from
                          /\ Rung(r)' = to
      BY <1>4
    <2>3. Promised!Climb(r, from, to)
      BY <2>1, <2>2 DEF Promised!Climb
    <2>4. Promised!Next
      BY <2>2, <2>3 DEF Ladder, Promised!Next, Promised!Refuse,
         Promised!Permit, Promised!Withhold, Promised!Authorise,
         Promised!Execute, Promised!Charge, Promised!Deliver
    <2> QED
      BY <2>4
  <1> QED
    BY <1>3, <1>4 DEF Climbs

----------------------------------------------------------------------------
\* What a handler leaves alone

\* A step that only concludes or continues the handler keeps every row.
LEMMA QuietStep ==
    ASSUME Inv, NEW r \in Requests, pc[r] \in InFlightSteps,
           \/ \E code \in StatusCodes : Conclude(r, code)
           \/ \E step \in InFlightSteps : \E locals : Continue(r, step, locals),
           UNCHANGED <<policy_decisions, budget_decisions, usage_records,
                       executions>>
    PROVE  Climbs(r)
  <1>1. \A q \in Requests : RungKept(q)
    BY DEF RungKept, Inv, TypeOK, HandlersOK, Conclude, Continue,
       InFlightSteps, DatabaseSteps
  <1> QED
    BY <1>1, KeptRung DEF Climbs

\* A handler in its provider call climbs by executing, or keeps its rung.
LEMMA CallClimbs ==
    ASSUME Inv, NEW r \in Requests, pc[r] = "call",
           \/ \E code \in StatusCodes : Conclude(r, code)
           \/ \E step \in InFlightSteps : \E locals : Continue(r, step, locals),
           Execute(r) \/ UNCHANGED executions,
           UNCHANGED database
    PROVE  Climbs(r)
  <1>1. CASE UNCHANGED executions
    BY <1>1, QuietStep DEF database, InFlightSteps
  <1>2. CASE Execute(r)
    <2>1. /\ pc'[r] \in InFlightSteps
          /\ \A q \in Requests \ {r} : /\ pc'[q] = pc[q]
                                       /\ status'[q] = status[q]
      BY DEF Inv, TypeOK, HandlersOK, Conclude, Continue, InFlightSteps
    <2>2. /\ executions[r] \in Nat
          /\ executions'[r] = executions[r] + 1
          /\ \A q \in Requests \ {r} : executions'[q] = executions[q]
      BY <1>2 DEF Execute, Inv, TypeOK, HistoryOK
    <2>3. \A q \in Requests \ {r} : RungKept(q)
      BY <2>1, <2>2 DEF RungKept, database
    <2>4. /\ usage_records[r] = NULL
          /\ budget_decisions[r] # NULL
          /\ budget_decisions[r].decision = "allow"
      BY DEF Inv, StepEvidence
    <2>5. Rung(r) = IF executions[r] > 0 THEN "executed" ELSE "authorised"
      BY <2>4 DEF Rung
    <2>6. Rung(r)' = "executed"
      BY <2>1, <2>2, <2>4 DEF Rung, database, InFlightSteps, DatabaseSteps
    <2>7. Rung(r)' = Rung(r) \/ <<Rung(r), Rung(r)'>> \in Ladder
      BY <2>5, <2>6 DEF Ladder
    <2> QED
      BY <2>3, <2>7 DEF Climbs
  <1> QED
    BY <1>1, <1>2

----------------------------------------------------------------------------
\* The actions that climb

\* none to refused or permitted.
LEMMA CreateRequestClimbs ==
    ASSUME Inv, NEW r \in Requests, CreateRequest(r)
    PROVE  Climbs(r)
  <1> DEFINE decision == EvaluatePolicy(ClassificationOf(req[r]))
  <1>1. /\ pc[r] = "create"
        /\ policy_decisions' = [policy_decisions EXCEPT ![r] = decision]
        /\ UNCHANGED <<budget_decisions, usage_records, executions>>
        /\ \/ \E code \in StatusCodes : Conclude(r, code)
           \/ Continue(r, "policy", NoLocals)
    BY DEF CreateRequest, Executed, AfterGovernance, RefusalStatus,
       StatusCodes, history
  <1>2. decision \in Decisions /\ decision # NULL
    BY PolicyType, NullAssumption
  <1> HIDE DEF decision
  <1>3. \A q \in Requests \ {r} : RungKept(q)
    BY <1>1 DEF RungKept, Inv, TypeOK, HandlersOK, TablesOK, Conclude, Continue
  <1>4. /\ pc'[r] # "done"
        /\ policy_decisions'[r] = decision
    BY <1>1 DEF Inv, TypeOK, HandlersOK, TablesOK, Conclude, Continue
  <1>5. /\ policy_decisions[r] = NULL
        /\ budget_decisions[r] = NULL
        /\ usage_records[r] = NULL
        /\ executions[r] = 0
    BY <1>1 DEF Inv, StepEvidence, AuditChain
  <1>6. Rung(r) = "none"
    BY <1>1, <1>5 DEF Rung
  <1>7. Rung(r)' \in {"refused", "permitted"}
    BY <1>1, <1>2, <1>4, <1>5 DEF Rung
  <1> QED
    BY <1>3, <1>6, <1>7 DEF Climbs, Ladder

\* permitted to withheld or authorised.
LEMMA RecordDecisionClimbs ==
    ASSUME Inv, NEW r \in Requests, RecordDecision(r)
    PROVE  Climbs(r)
  <1> DEFINE row == local[r].decision
  <1>1. /\ pc[r] = "decide"
        /\ budget_decisions' = [budget_decisions EXCEPT ![r] = row]
        /\ UNCHANGED <<policy_decisions, usage_records, executions>>
        /\ \/ \E code \in StatusCodes : Conclude(r, code)
           \/ Continue(r, "call", NoLocals)
    BY DEF RecordDecision, Executed, AfterBudget, RefusalStatus,
       StatusCodes, history
  <1>2. row # NULL
    BY <1>1, NullAssumption DEF Inv, StepEvidence
  <1> HIDE DEF row
  <1>3. \A q \in Requests \ {r} : RungKept(q)
    BY <1>1 DEF RungKept, Inv, TypeOK, HandlersOK, TablesOK, Conclude, Continue
  <1>4. /\ pc'[r] # "done"
        /\ budget_decisions'[r] = row
    BY <1>1 DEF Inv, TypeOK, HandlersOK, TablesOK, Conclude, Continue
  <1>5. /\ policy_decisions[r] = "allow"
        /\ budget_decisions[r] = NULL
        /\ usage_records[r] = NULL
        /\ executions[r] = 0
        /\ "allow" # NULL
    BY <1>1, NullAssumption DEF Inv, StepEvidence, AuditChain, Decisions
  <1>6. Rung(r) = "permitted"
    BY <1>1, <1>5 DEF Rung
  <1>7. Rung(r)' \in {"withheld", "authorised"}
    BY <1>1, <1>2, <1>4, <1>5 DEF Rung
  <1> QED
    BY <1>3, <1>6, <1>7 DEF Climbs, Ladder

\* authorised to executed.
LEMMA InvokingClimbs ==
    ASSUME Inv, NEW r \in Requests, Invoking(r)
    PROVE  Climbs(r)
  <1>1. /\ pc[r] = "call"
        /\ UNCHANGED database
        /\ Execute(r) \/ UNCHANGED executions
    BY DEF Invoking, RetryProvider, ProviderFails, NoTextOutput,
       ProviderAnswers
  <1>2. \/ \E code \in StatusCodes : Conclude(r, code)
        \/ \E step \in InFlightSteps : \E locals : Continue(r, step, locals)
    <2>1. CASE RetryProvider(r)
      BY <2>1 DEF RetryProvider, InFlightSteps
    <2>2. CASE ProviderFails(r) \/ NoTextOutput(r)
      BY <2>2 DEF ProviderFails, NoTextOutput, StatusCodes
    <2>3. CASE ProviderAnswers(r)
      BY <2>3 DEF ProviderAnswers, StatusCodes, InFlightSteps, DatabaseSteps
    <2> QED
      BY <2>1, <2>2, <2>3 DEF Invoking
  <1> QED
    BY <1>1, <1>2, CallClimbs

\* executed to charged.
LEMMA CommitRecordClimbs ==
    ASSUME Inv, NEW r \in Requests, CommitRecord(r)
    PROVE  Climbs(r)
  <1>1. PICK row \in UsageRows :
           /\ pc[r] = "commit"
           /\ usage_records' = [usage_records EXCEPT ![r] = row]
           /\ UNCHANGED <<policy_decisions, budget_decisions, executions>>
           /\ Conclude(r, 200) \/ Conclude(r, 500)
    <2> DEFINE row == [cost  |-> IF local[r].cost = NULL THEN NULL
                                 ELSE StoredCost(local[r].cost),
                       month |-> local[r].txMonth]
    <2>1. local[r].cost \in Nat \cup {NULL} /\ local[r].txMonth \in Months
      BY DEF CommitRecord, Inv, TypeOK, HandlersOK, Locals, StepEvidence
    <2>2. row \in UsageRows
      BY <2>1, StoredCostType DEF UsageRows
    <2> QED
      BY <2>2 DEF CommitRecord, Executed, history
  <1>2. row # NULL
    BY NullAssumption
  <1>3. \A q \in Requests \ {r} : RungKept(q)
    BY <1>1 DEF RungKept, Inv, TypeOK, HandlersOK, TablesOK, Conclude
  <1>4. /\ pc'[r] # "done"
        /\ usage_records'[r] = row
    BY <1>1 DEF Inv, TypeOK, HandlersOK, TablesOK, Conclude
  <1>5. executions[r] > 0 /\ usage_records[r] = NULL
    BY <1>1 DEF Inv, StepEvidence
  <1>6. Rung(r) = "executed" /\ Rung(r)' = "charged"
    BY <1>1, <1>2, <1>4, <1>5 DEF Rung
  <1> QED
    BY <1>3, <1>6 DEF Climbs, Ladder

\* charged to delivered, or a response without an answer.
LEMMA ReplyClimbs ==
    ASSUME Inv, NEW r \in Requests, Reply(r)
    PROVE  Climbs(r)
  <1>1. /\ pc[r] = "reply"
        /\ pc' = [pc EXCEPT ![r] = "done"]
        /\ UNCHANGED <<status, policy_decisions, budget_decisions,
                       usage_records, executions>>
    BY DEF Reply, database, history
  <1>2. \A q \in Requests \ {r} : RungKept(q)
    BY <1>1 DEF RungKept, Inv, TypeOK, HandlersOK
  <1>3. CASE status[r] = 200
    <2>1. usage_records[r] # NULL
      BY <1>1, <1>3 DEF Inv, StatusEvidence
    <2>2. Rung(r) = "charged" /\ Rung(r)' = "delivered"
      BY <1>1, <1>3, <2>1 DEF Rung, Inv, TypeOK, HandlersOK
    <2> QED
      BY <1>2, <2>2 DEF Climbs, Ladder
  <1>4. CASE status[r] # 200
    BY <1>1, <1>2, <1>4, KeptRung DEF Climbs, RungKept
  <1> QED
    BY <1>3, <1>4

----------------------------------------------------------------------------
\* Every step climbs, and the theorem

\* A step of a handler moves its request by one rung or none.
LEMMA HandleClimbs ==
    ASSUME Inv, NEW r \in Requests, Handle(r)
    PROVE  Climbs(r)
  <1>1. CASE Reject(r) \/ FindActivePolicy(r) \/ CurrentSpend(r)
             \/ DecisionRefused(r) \/ BeginRecord(r) \/ DatabaseFails(r)
    <2>1. /\ pc[r] \in InFlightSteps
          /\ UNCHANGED <<policy_decisions, budget_decisions, usage_records,
                         executions>>
      BY <1>1 DEF Reject, FindActivePolicy, CurrentSpend, DecisionRefused,
         BeginRecord, DatabaseFails, InFlightSteps, DatabaseSteps, database,
         history
    <2>2. \/ \E code \in StatusCodes : Conclude(r, code)
          \/ \E step \in InFlightSteps : \E locals : Continue(r, step, locals)
      <3>1. CASE Reject(r) \/ DecisionRefused(r) \/ DatabaseFails(r)
        <4>1. Conclude(r, 400) \/ Conclude(r, 500)
          BY <3>1 DEF Reject, DecisionRefused, DatabaseFails
        <4> QED
          BY <4>1 DEF StatusCodes
      <3>2. CASE FindActivePolicy(r)
        BY <3>2 DEF FindActivePolicy, InFlightSteps, DatabaseSteps
      <3>3. CASE CurrentSpend(r) \/ BeginRecord(r)
        BY <3>3 DEF CurrentSpend, BeginRecord, InFlightSteps, DatabaseSteps
      <3> QED
        BY <1>1, <3>1, <3>2, <3>3
    <2> QED
      BY <2>1, <2>2, QuietStep
  <1>2. CASE CreateRequest(r) \/ RecordDecision(r) \/ CommitRecord(r)
    BY <1>2, CreateRequestClimbs, RecordDecisionClimbs, CommitRecordClimbs
  <1>3. CASE Invoking(r) \/ Reply(r)
    BY <1>3, InvokingClimbs, ReplyClimbs
  <1> QED
    BY <1>1, <1>2, <1>3 DEF Handle, Governing, Budgeting, Recording

\* No other step moves any request.
LEMMA EnvironmentKeeps ==
    ASSUME Inv, Environment \/ UNCHANGED vars
    PROVE  \A q \in Requests : RungKept(q)
  <1>1. CASE \E r \in Requests : Arrive(r)
    BY <1>1 DEF Arrive, RungKept, Inv, TypeOK, HandlersOK, database
  <1>2. CASE Kill
    BY <1>2 DEF Kill, RungKept, InFlight, InFlightSteps, DatabaseSteps,
       database, history
  <1>3. CASE \/ \E r \in Requests : Disconnect(r)
             \/ \E cc \in CostCenters : SetPolicy(cc)
             \/ Shutdown \/ Stop \/ Restart \/ NextMonth
             \/ UNCHANGED vars
    BY <1>3 DEF Disconnect, SetPolicy, Shutdown, Stop, Restart, NextMonth,
       vars, database, handlers, history, RungKept
  <1> QED
    BY <1>1, <1>2, <1>3 DEF Environment

\* The gateway keeps the promise of GovernedInvocation: evidence is stored
\* before the step it authorises, never rewritten, and an answer follows its
\* charge, for every number of requests and in every interleaving.
THEOREM PromiseKept == Spec => KeepsPromise
  <1>1. Init => Promised!Init
    BY DEF Init, Promised!Init, Rung
  <1>2. Inv /\ [Next]_vars
            => [Promised!Next]_([r \in Requests |-> Rung(r)])
    <2> SUFFICES ASSUME Inv, [Next]_vars
                 PROVE  [Promised!Next]_([r \in Requests |-> Rung(r)])
      OBVIOUS
    <2>1. CASE \E r \in Requests : Handle(r)
      BY <2>1, HandleClimbs, ClimbIsStep
    <2>2. CASE Environment \/ UNCHANGED vars
      <3>1. \A r \in Requests : Rung(r)' = Rung(r)
        BY <2>2, EnvironmentKeeps, KeptRung
      <3> QED
        BY <3>1
    <2> QED
      BY <2>1, <2>2 DEF Next
  <1> QED
    BY <1>1, <1>2, Invariance, PTL DEF Spec, KeepsPromise, Promised!Spec
=============================================================================
