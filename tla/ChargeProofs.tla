----------------------------- MODULE ChargeProofs -----------------------------
(***************************************************************************)
(* What a budget decision may rely on, for every value of the constants:   *)
(* it counts every charge answered before its request arrived, although    *)
(* the spend is read in one statement and the decision stored in another.  *)
(***************************************************************************)
EXTENDS GatewayProofs

\* The decision row of r: taken but not yet stored, or stored.
Row(r) == IF pc[r] = "decide" THEN local[r].decision ELSE budget_decisions[r]

\* Usage rows of requests that carry the cost center of r, in a month.
Charges(r, period, requests) ==
    {q \in requests : /\ usage_records[q] # NULL
                      /\ req[q].costCenter = req[r].costCenter
                      /\ usage_records[q].month = period}

\* A row that read the spend counts what was answered, and nothing else.
RowCounts(r) ==
    (Row(r) # NULL /\ Row(r).policy # NULL) =>
        /\ Charges(r, Row(r).period, answeredBefore[r]) \subseteq Row(r).counted
        /\ Row(r).counted \subseteq Charges(r, Row(r).period, Requests)

\* An allow read the spend, and every charge it counted has a cost.
RowAllows(r) ==
    (Row(r) # NULL /\ Row(r).decision = "allow") =>
        /\ Row(r).policy # NULL
        /\ \A q \in Row(r).counted : usage_records[q].cost # NULL

AnsweredAreDone ==
    \A r \in Requests : \A q \in answeredBefore[r] : pc[q] = "done"

ChargeInv == /\ AnsweredAreDone
             /\ \A r \in Requests : RowCounts(r)
             /\ \A r \in Requests : RowAllows(r)

----------------------------------------------------------------------------
\* What no step undoes

\* A charge is final, and so is all that belongs to an answered request.
Final(q) ==
    /\ usage_records[q] # NULL => /\ usage_records'[q] = usage_records[q]
                                  /\ req'[q] = req[q]
    /\ pc[q] = "done" => /\ pc'[q] = "done"
                         /\ usage_records'[q] = usage_records[q]
                         /\ req'[q] = req[q]

\* The step takes no new decision for r and leaves the row as it was.
RowKept(r) ==
    /\ Row(r)' = Row(r)
    /\ answeredBefore'[r] = answeredBefore[r]
    /\ req'[r] = req[r]

\* What a step may do to the decision row of r.
RowStep(r) == \/ RowKept(r)
              \/ Row(r)' = NULL
              \/ /\ Row(r)'.policy = NULL
                 /\ Row(r)'.decision = "review"
              \/ CurrentSpend(r)

\* A handler step that stores no usage undoes no charge and no answer.
LEMMA QuietFinal ==
    ASSUME Inv, NEW r \in Requests, pc[r] # "done",
           \/ \E code : Conclude(r, code)
           \/ \E step, locals : Continue(r, step, locals),
           UNCHANGED usage_records
    PROVE  \A q \in Requests : Final(q)
  BY DEF Final, Inv, TypeOK, HandlersOK, Conclude, Continue

\* A handler step touches the decision row of no other request.
LEMMA OtherRows ==
    ASSUME Inv, NEW r \in Requests,
           \/ \E code : Conclude(r, code)
           \/ \E step, locals : Continue(r, step, locals),
           \A q \in Requests \ {r} : budget_decisions'[q] = budget_decisions[q],
           UNCHANGED answeredBefore
    PROVE  \A q \in Requests \ {r} : RowKept(q)
  BY DEF RowKept, Row, Inv, TypeOK, HandlersOK, Conclude, Continue

\* A handler step that takes and stores no decision leaves r's row, unless
\* the decision was pending: then it is dropped.
LEMMA NoDecisionStep ==
    ASSUME Inv, NEW r \in Requests,
           \/ \E code : Conclude(r, code)
           \/ \E step, locals : /\ Continue(r, step, locals)
                                /\ step # "decide"
                                /\ pc[r] # "decide",
           UNCHANGED <<budget_decisions, answeredBefore>>
    PROVE  \A q \in Requests : RowStep(q)
  <1>1. \A q \in Requests \ {r} : RowKept(q)
    BY OtherRows
  <1>2. pc'[r] # "decide" /\ req'[r] = req[r]
    BY DEF Inv, TypeOK, HandlersOK, Conclude, Continue
  <1>3. CASE pc[r] = "decide"
    <2>1. budget_decisions[r] = NULL
      BY <1>3 DEF Inv, StepEvidence
    <2>2. Row(r)' = NULL
      BY <1>2, <2>1 DEF Row
    <2> QED
      BY <1>1, <2>2 DEF RowStep
  <1>4. CASE pc[r] # "decide"
    <2>1. RowKept(r)
      BY <1>2, <1>4 DEF RowKept, Row
    <2> QED
      BY <1>1, <2>1 DEF RowStep
  <1> QED
    BY <1>3, <1>4

----------------------------------------------------------------------------
\* Every action

\* Reading the policy decides nothing, or decides a review without a policy.
LEMMA FindActivePolicyRow ==
    ASSUME Inv, NEW r \in Requests, FindActivePolicy(r)
    PROVE  \A q \in Requests : Final(q) /\ RowStep(q)
  <1> DEFINE review == [decision |-> "review", period |-> month,
                        policy |-> NULL, counted |-> {}]
             here   == [NoLocals EXCEPT !.period = month]
             there  == [here EXCEPT !.decision = review]
  <1>1. /\ pc[r] = "policy"
        /\ \/ \E locals : Continue(r, "spend", locals)
           \/ Continue(r, "decide", there)
        /\ UNCHANGED <<usage_records, budget_decisions, answeredBefore>>
    BY DEF FindActivePolicy, database, history
  <1>2. /\ there.decision = review
        /\ review.policy = NULL
        /\ review.decision = "review"
    BY DEF NoLocals
  <1> HIDE DEF there, review
  <1>3. \A q \in Requests : Final(q)
    BY <1>1, QuietFinal
  <1>4. CASE \E locals : Continue(r, "spend", locals)
    BY <1>1, <1>3, <1>4, NoDecisionStep
  <1>5. CASE Continue(r, "decide", there)
    <2>1. \A q \in Requests \ {r} : RowKept(q)
      BY <1>1, OtherRows
    <2>2. Row(r)' = review
      BY <1>2, <1>5 DEF Row, Continue, Inv, TypeOK, HandlersOK
    <2> QED
      BY <1>2, <1>3, <2>1, <2>2 DEF RowStep
  <1> QED
    BY <1>1, <1>4, <1>5

\* Storing the pending decision keeps it.
LEMMA RecordDecisionRow ==
    ASSUME Inv, NEW r \in Requests, RecordDecision(r)
    PROVE  \A q \in Requests : Final(q) /\ RowStep(q)
  <1>1. /\ pc[r] = "decide"
        /\ budget_decisions' =
               [budget_decisions EXCEPT ![r] = local[r].decision]
        /\ UNCHANGED <<usage_records, answeredBefore>>
        /\ \/ \E code : Conclude(r, code)
           \/ Continue(r, "call", NoLocals)
    BY DEF RecordDecision, Executed, AfterBudget, history
  <1>2. \A q \in Requests : Final(q)
    BY <1>1, QuietFinal
  <1>3. \A q \in Requests \ {r} : RowKept(q)
    BY <1>1, OtherRows DEF Inv, TypeOK, TablesOK
  <1>4. RowKept(r)
    BY <1>1 DEF RowKept, Row, Conclude, Continue, Inv, TypeOK, TablesOK,
       HandlersOK
  <1> QED
    BY <1>2, <1>3, <1>4 DEF RowStep

\* A charge is added, none is rewritten.
LEMMA CommitRecordFinal ==
    ASSUME Inv, NEW r \in Requests, CommitRecord(r)
    PROVE  \A q \in Requests : Final(q) /\ RowStep(q)
  <1>1. /\ pc[r] = "commit"
        /\ \A q \in Requests \ {r} : usage_records'[q] = usage_records[q]
        /\ UNCHANGED <<budget_decisions, answeredBefore>>
        /\ \E code : Conclude(r, code)
    BY DEF CommitRecord, Executed, history, Inv, TypeOK, TablesOK
  <1>2. usage_records[r] = NULL
    BY <1>1 DEF Inv, StepEvidence
  <1>3. \A q \in Requests : Final(q)
    BY <1>1, <1>2 DEF Final, Conclude, Inv, TypeOK, HandlersOK
  <1> QED
    BY <1>1, <1>3, NoDecisionStep

\* Reading the spend changes only the pending decision of r.
LEMMA CurrentSpendRow ==
    ASSUME Inv, NEW r \in Requests, CurrentSpend(r)
    PROVE  \A q \in Requests : Final(q) /\ RowStep(q)
  <1>1. /\ pc[r] = "spend"
        /\ \E locals : Continue(r, "decide", locals)
        /\ UNCHANGED <<usage_records, budget_decisions, answeredBefore>>
    BY DEF CurrentSpend, database, history
  <1>2. \A q \in Requests : Final(q)
    BY <1>1, QuietFinal
  <1>3. \A q \in Requests \ {r} : RowKept(q)
    BY <1>1, OtherRows
  <1> QED
    BY <1>2, <1>3 DEF RowStep

\* The remaining steps of a handler.
LEMMA OtherHandleRow ==
    ASSUME Inv, NEW r \in Requests,
           \/ Governing(r) \/ DecisionRefused(r) \/ Invoking(r)
           \/ BeginRecord(r) \/ DatabaseFails(r)
    PROVE  \A q \in Requests : Final(q) /\ RowStep(q)
  <1>1. /\ pc[r] # "done"
        /\ UNCHANGED <<usage_records, budget_decisions, answeredBefore>>
    BY DEF Governing, Reject, CreateRequest, DecisionRefused, Invoking,
       RetryProvider, ProviderFails, NoTextOutput, ProviderAnswers,
       BeginRecord, DatabaseFails, DatabaseSteps, database, history
  <1>2. \/ \E code : Conclude(r, code)
        \/ \E step, locals : /\ Continue(r, step, locals)
                             /\ step # "decide"
                             /\ pc[r] # "decide"
    <2>1. CASE Governing(r)
      BY <2>1 DEF Governing, Reject, CreateRequest, Executed, AfterGovernance
    <2>2. CASE Invoking(r)
      BY <2>2 DEF Invoking, RetryProvider, ProviderFails, NoTextOutput,
         ProviderAnswers
    <2>3. CASE DecisionRefused(r) \/ DatabaseFails(r)
      BY <2>3 DEF DecisionRefused, DatabaseFails
    <2>4. CASE BeginRecord(r)
      BY <2>4 DEF BeginRecord
    <2> QED
      BY <2>1, <2>2, <2>3, <2>4
  <1> QED
    BY <1>1, <1>2, QuietFinal, NoDecisionStep

\* Writing a response.
LEMMA ReplyRow ==
    ASSUME Inv, NEW r \in Requests, Reply(r)
    PROVE  \A q \in Requests : Final(q) /\ RowStep(q)
  BY DEF Reply, Final, RowStep, RowKept, Row, Inv, TypeOK, HandlersOK,
     database, history

\* Only an arrival and a kill concern decision rows or requests.
LEMMA EnvironmentRow ==
    ASSUME Inv, Environment \/ UNCHANGED vars
    PROVE  \A q \in Requests : Final(q) /\ RowStep(q)
  <1>1. ASSUME NEW r \in Requests, Arrive(r)
        PROVE  \A q \in Requests : Final(q) /\ RowStep(q)
    <2>1. budget_decisions[r] = NULL /\ usage_records[r] = NULL
      BY <1>1 DEF Arrive, Inv, StepEvidence, AuditChain
    <2>2. /\ pc[r] = "idle"
          /\ pc' = [pc EXCEPT ![r] = "create"]
          /\ \A q \in Requests \ {r} :
                /\ req'[q] = req[q]
                /\ answeredBefore'[q] = answeredBefore[q]
          /\ UNCHANGED <<budget_decisions, usage_records, local>>
      BY <1>1 DEF Arrive, Inv, TypeOK, HandlersOK, HistoryOK, database
    <2>3. \A q \in Requests : Final(q)
      BY <2>1, <2>2 DEF Final, Inv, TypeOK, HandlersOK
    <2>4. \A q \in Requests \ {r} : RowKept(q)
      BY <2>2 DEF RowKept, Row, Inv, TypeOK, HandlersOK
    <2>5. Row(r)' = NULL
      BY <2>1, <2>2 DEF Row, Inv, TypeOK, HandlersOK
    <2> QED
      BY <2>3, <2>4, <2>5 DEF RowStep
  <1>2. CASE Kill
    <2>1. /\ \A q \in Requests :
                pc'[q] = IF pc[q] \in InFlightSteps THEN "lost" ELSE pc[q]
          /\ UNCHANGED <<budget_decisions, usage_records, req, answeredBefore>>
      BY <1>2 DEF Kill, InFlight, database, history
    <2>2. \A q \in Requests : Final(q)
      BY <2>1 DEF Final, InFlightSteps, DatabaseSteps
    <2>3. \A q \in Requests : pc[q] = "decide" => Row(q)' = NULL
      BY <2>1 DEF Row, Inv, StepEvidence, InFlightSteps, DatabaseSteps
    <2>4. \A q \in Requests : pc[q] # "decide" => RowKept(q)
      BY <2>1 DEF RowKept, Row
    <2> QED
      BY <2>2, <2>3, <2>4 DEF RowStep
  <1>3. CASE \/ \E r \in Requests : Disconnect(r)
             \/ \E cc \in CostCenters : SetPolicy(cc)
             \/ Shutdown \/ Stop \/ Restart \/ NextMonth
             \/ UNCHANGED vars
    BY <1>3 DEF Disconnect, SetPolicy, Shutdown, Stop, Restart, NextMonth,
       vars, database, handlers, history, Final, RowStep, RowKept, Row
  <1> QED
    BY <1>1, <1>2, <1>3 DEF Environment

\* Every step keeps the charges and the answers, and a decision row comes
\* only from reading the spend.
LEMMA StepKeeps ==
    ASSUME Inv, [Next]_vars
    PROVE  \A q \in Requests : Final(q) /\ RowStep(q)
  <1>1. ASSUME NEW r \in Requests, Handle(r)
        PROVE  \A q \in Requests : Final(q) /\ RowStep(q)
    BY <1>1, FindActivePolicyRow, RecordDecisionRow, CommitRecordFinal,
       CurrentSpendRow, OtherHandleRow, ReplyRow
    DEF Handle, Budgeting, Recording
  <1> QED
    BY <1>1, EnvironmentRow DEF Next

----------------------------------------------------------------------------
\* The decision that reads the spend

\* No unknown row is left in a snapshot that counts none: the snapshot is
\* finite, so a cardinality of zero means the empty set.
LEMMA NoneUnknown ==
    ASSUME NEW rows \in SUBSET Requests,
           ~(Cardinality(Unknown(rows)) > 0)
    PROVE  \A q \in rows : usage_records[q].cost # NULL
  <1>1. IsFiniteSet(Unknown(rows))
    BY RequestsAssumption, FS_Subset DEF Unknown
  <1>2. Cardinality(Unknown(rows)) \in Nat
    BY <1>1, FS_CardinalityType
  <1>3. Cardinality(Unknown(rows)) = 0
    BY <1>2
  <1>4. Unknown(rows) = {}
    BY <1>1, <1>3, FS_EmptySet
  <1> QED
    BY <1>4 DEF Unknown

\* The SELECT counts exactly the charges of the moment, and the decision is
\* the verdict on them under the policy read before.
LEMMA NewRow ==
    ASSUME Inv, NEW r \in Requests, CurrentSpend(r)
    PROVE  LET rows == Charges(r, local[r].period, Requests)
           IN  /\ Row(r)' = [decision |-> Verdict(local[r].policy,
                                                  SnapshotOf(rows)),
                             period   |-> local[r].period,
                             policy   |-> local[r].policy,
                             counted  |-> rows]
               /\ pc[r] = "spend"
               /\ local[r].policy \in BudgetPolicies
               /\ UNCHANGED <<req, usage_records, answeredBefore>>
  <1> DEFINE rows == SpendRows(req[r].costCenter, local[r].period)
             row  == [decision |-> Verdict(local[r].policy, SnapshotOf(rows)),
                      period   |-> local[r].period,
                      policy   |-> local[r].policy,
                      counted  |-> rows]
             here == [local[r] EXCEPT !.decision = row]
  <1>1. /\ pc[r] = "spend"
        /\ Continue(r, "decide", here)
        /\ UNCHANGED <<usage_records, answeredBefore, governance_requests>>
    BY DEF CurrentSpend, database, history
  <1>2. here.decision = row
    BY DEF Inv, TypeOK, HandlersOK, Locals
  <1>3. rows = Charges(r, local[r].period, Requests)
    <2>1. governance_requests \subseteq Requests
      BY DEF Inv, TypeOK, TablesOK
    <2>2. \A q \in Requests : usage_records[q] # NULL
                              => q \in governance_requests
      BY NullAssumption DEF Inv, AuditChain, Decisions
    <2> QED
      BY <2>1, <2>2 DEF SpendRows, Charges
  <1>4. local[r].policy \in BudgetPolicies
    BY <1>1 DEF Inv, StepEvidence
  <1> HIDE DEF here
  <1>5. Row(r)' = row /\ req' = req
    BY <1>1, <1>2 DEF Row, Continue, Inv, TypeOK, HandlersOK
  <1> HIDE DEF rows
  <1> QED
    BY <1>1, <1>3, <1>4, <1>5

\* So it counts all that was answered before; and its verdict is an allow
\* only if all have a cost.
LEMMA CurrentSpendCounts ==
    ASSUME Inv, AnsweredAreDone, NEW r \in Requests, CurrentSpend(r)
    PROVE  RowCounts(r)' /\ RowAllows(r)'
  <1> DEFINE rows == Charges(r, local[r].period, Requests)
             row  == [decision |-> Verdict(local[r].policy, SnapshotOf(rows)),
                      period   |-> local[r].period,
                      policy   |-> local[r].policy,
                      counted  |-> rows]
  <1>1. /\ Row(r)' = row
        /\ local[r].policy \in BudgetPolicies
        /\ UNCHANGED <<req, usage_records, answeredBefore>>
    BY NewRow
  <1>2. /\ row.period = local[r].period
        /\ row.policy = local[r].policy
        /\ row.counted = rows
        /\ row.decision = Verdict(local[r].policy, SnapshotOf(rows))
    OBVIOUS
  <1>3. rows = Charges(r, local[r].period, Requests)
    OBVIOUS
  <1>4. answeredBefore[r] \subseteq Requests
    BY DEF Inv, TypeOK, HistoryOK
  <1>5. row.decision = "allow" => \A q \in rows : usage_records[q].cost # NULL
    <2>1. rows \in SUBSET Requests
      BY DEF Charges
    <2> HIDE DEF rows
    <2>2. SnapshotOf(rows).unknown = Cardinality(Unknown(rows))
      BY DEF SnapshotOf
    <2> QED
      BY <2>1, <2>2, NoneUnknown DEF Verdict
  <1> HIDE DEF row, rows
  <1>6. RowCounts(r)'
    <2>1. \A q \in row.counted :
             /\ q \in Requests
             /\ usage_records'[q] # NULL
             /\ req'[q].costCenter = req'[r].costCenter
             /\ usage_records'[q].month = row.period
      BY <1>1, <1>2, <1>3 DEF Charges
    <2>2. \A q \in answeredBefore'[r] :
             (/\ usage_records'[q] # NULL
              /\ req'[q].costCenter = req'[r].costCenter
              /\ usage_records'[q].month = row.period)
             => q \in row.counted
      BY <1>1, <1>2, <1>3, <1>4 DEF Charges
    <2> QED
      BY <1>1, <2>1, <2>2 DEF RowCounts, Charges
  <1>7. RowAllows(r)'
    BY <1>1, <1>2, <1>5, NullAssumption DEF RowAllows
  <1> QED
    BY <1>6, <1>7
----------------------------------------------------------------------------
\* The invariant and what follows from it

\* A kept row stays exact: charges only grow, those of answered requests not
\* at all.
LEMMA KeptRowCounts ==
    ASSUME Inv, ChargeInv, \A q \in Requests : Final(q),
           NEW r \in Requests, RowKept(r)
    PROVE  RowCounts(r)' /\ RowAllows(r)'
  <1>1. answeredBefore[r] \subseteq Requests
    BY DEF Inv, TypeOK, HistoryOK
  <1>2. Row(r) # NULL /\ Row(r).policy # NULL =>
           /\ \A q \in Row(r).counted :
                 /\ q \in Requests
                 /\ usage_records[q] # NULL
                 /\ req[q].costCenter = req[r].costCenter
                 /\ usage_records[q].month = Row(r).period
           /\ \A q \in answeredBefore[r] :
                 (/\ usage_records[q] # NULL
                  /\ req[q].costCenter = req[r].costCenter
                  /\ usage_records[q].month = Row(r).period)
                 => q \in Row(r).counted
    BY DEF ChargeInv, RowCounts, Charges
  <1>3. \A q \in answeredBefore[r] : /\ usage_records'[q] = usage_records[q]
                                     /\ req'[q] = req[q]
    BY <1>1 DEF ChargeInv, AnsweredAreDone, Final
  <1>4. RowCounts(r)'
    BY <1>2, <1>3 DEF RowKept, RowCounts, Charges, Final
  <1>5. RowAllows(r)'
    BY <1>2 DEF ChargeInv, RowAllows, RowKept, Final
  <1> QED
    BY <1>4, <1>5

\* Requests seen answered on arrival stay answered.
LEMMA AnsweredStay ==
    ASSUME Inv, AnsweredAreDone, [Next]_vars
    PROVE  AnsweredAreDone'
  <1>1. \A q \in Requests : pc[q] = "done" => pc'[q] = "done"
    BY StepKeeps DEF Final
  <1>2. \A r \in Requests : answeredBefore'[r] \in {answeredBefore[r], Answered}
    <2>1. ASSUME NEW r \in Requests, Arrive(r)
          PROVE  \A q \in Requests :
                    answeredBefore'[q] \in {answeredBefore[q], Answered}
      BY <2>1 DEF Arrive, Inv, TypeOK, HistoryOK
    <2>2. CASE UNCHANGED answeredBefore
      BY <2>2
    <2>3. ASSUME NEW r \in Requests, Handle(r)
          PROVE  UNCHANGED answeredBefore
      BY <2>3 DEF Handle, Governing, Budgeting, Invoking, Recording, Reject,
         CreateRequest, FindActivePolicy, CurrentSpend, RecordDecision,
         DecisionRefused, RetryProvider, ProviderFails, NoTextOutput,
         ProviderAnswers, BeginRecord, CommitRecord, DatabaseFails, Reply,
         history
    <2>4. CASE \/ \E r \in Requests : Disconnect(r)
               \/ \E cc \in CostCenters : SetPolicy(cc)
               \/ Shutdown \/ Stop \/ Kill \/ Restart \/ NextMonth
               \/ UNCHANGED vars
      BY <2>4 DEF Disconnect, SetPolicy, Shutdown, Stop, Kill, Restart,
         NextMonth, vars, history
    <2> QED
      BY <2>1, <2>2, <2>3, <2>4 DEF Next, Environment
  <1>3. \A r \in Requests : answeredBefore[r] \subseteq Requests
    BY DEF Inv, TypeOK, HistoryOK
  <1> QED
    BY <1>1, <1>2, <1>3 DEF AnsweredAreDone, Answered

\* Every step preserves what the decisions rely on.
LEMMA ChargeStep ==
    ASSUME Inv, ChargeInv, [Next]_vars
    PROVE  ChargeInv'
  <1>1. AnsweredAreDone'
    BY AnsweredStay DEF ChargeInv
  <1>2. ASSUME NEW r \in Requests
        PROVE  RowCounts(r)' /\ RowAllows(r)'
    <2>1. CASE RowKept(r)
      BY <2>1, StepKeeps, KeptRowCounts
    <2>2. CASE Row(r)' = NULL
      BY <2>2 DEF RowCounts, RowAllows
    <2>3. CASE Row(r)'.policy = NULL /\ Row(r)'.decision = "review"
      BY <2>3 DEF RowCounts, RowAllows
    <2>4. CASE CurrentSpend(r)
      BY <2>4, CurrentSpendCounts DEF ChargeInv
    <2> QED
      BY <2>1, <2>2, <2>3, <2>4, StepKeeps DEF RowStep
  <1> QED
    BY <1>1, <1>2 DEF ChargeInv

\* The strengthened invariant holds in every behaviour.
THEOREM ChargeInvariance == Spec => []ChargeInv
  <1>1. Init => ChargeInv
    BY DEF Init, ChargeInv, AnsweredAreDone, RowCounts, RowAllows, Row
  <1>2. Inv /\ ChargeInv /\ [Next]_vars => ChargeInv'
    BY ChargeStep
  <1> QED
    BY <1>1, <1>2, Invariance, PTL DEF Spec

\* A stored decision is not pending.
LEMMA StoredRow ==
    ASSUME Inv, NEW r \in Requests, budget_decisions[r] # NULL
    PROVE  Row(r) = budget_decisions[r]
  BY DEF Inv, StepEvidence, Row

\* A stored budget decision counts every charge answered before its request
\* arrived, and only charges of its cost center and month (budget.Evaluate,
\* CurrentSpend), for every number of concurrent handlers.
THEOREM ChargesCounted == Spec => []DecisionsCountAnsweredCharges
  <1>1. Inv /\ ChargeInv => DecisionsCountAnsweredCharges
    BY StoredRow DEF ChargeInv, RowCounts, DecisionsCountAnsweredCharges,
       Charges, ChargesTo
  <1> QED
    BY <1>1, Invariance, ChargeInvariance, PTL

\* Once an answered request left a charge of unknown cost, no later arrival
\* of that cost center is allowed in that month (budget.Evaluate).
THEOREM UnknownCostHolds == Spec => []UnknownCostHoldsMonth
  <1>1. Inv /\ ChargeInv => UnknownCostHoldsMonth
    <2> SUFFICES ASSUME Inv, ChargeInv, NEW r \in Requests,
                        budget_decisions[r] # NULL,
                        budget_decisions[r].decision = "allow",
                        NEW q \in ChargesTo(r, answeredBefore[r])
                 PROVE  usage_records[q].cost # NULL
      BY DEF UnknownCostHoldsMonth
    <2>1. /\ Row(r) # NULL
          /\ Row(r).decision = "allow"
          /\ Row(r).period = budget_decisions[r].period
      BY StoredRow
    <2>2. /\ Row(r).policy # NULL
          /\ \A s \in Row(r).counted : usage_records[s].cost # NULL
      BY <2>1 DEF ChargeInv, RowAllows
    <2>3. q \in Row(r).counted
      BY <2>1, <2>2 DEF ChargeInv, RowCounts, Charges, ChargesTo
    <2> QED
      BY <2>2, <2>3
  <1> QED
    BY <1>1, Invariance, ChargeInvariance, PTL
=============================================================================
