------------------------------- MODULE Budget -------------------------------
(***************************************************************************)
(* The decision table of the budget guardrail.  Source: internal/budget    *)
(* (service.go) and the columns of budget_decisions in migration 000003.   *)
(*                                                                         *)
(* A policy is [enabled, limit, threshold]: the limit in nano-USD a month, *)
(* the threshold in percent.  A spend snapshot is [spent, unknown]: the    *)
(* sum of the known costs and the number of usage rows without a cost.     *)
(***************************************************************************)
EXTENDS Integers

BudgetPolicies == [enabled : BOOLEAN, limit : Nat, threshold : 0 .. 100]

\* Fault: the fraction, not the percentage, is compared with the threshold.
ComparesFraction(policy, spent) == spent >= policy.threshold * policy.limit

\* utilization = spent / limit * 100, compared with the threshold.
ReachesThreshold(policy, spent) ==
    spent * 100 >= policy.threshold * policy.limit

\* Fault: rows without a cost are summed as zero.
IgnoresUnknown(policy, snapshot) ==
    IF policy.limit = 0 \/ snapshot.spent >= policy.limit THEN "deny"
    ELSE IF ReachesThreshold(policy, snapshot.spent) THEN "review"
    ELSE "allow"

\* The verdict of Evaluate once a policy and a snapshot have been read.
Verdict(policy, snapshot) ==
    IF snapshot.unknown > 0 THEN "review"
    ELSE IF policy.limit = 0 \/ snapshot.spent >= policy.limit THEN "deny"
    ELSE IF ReachesThreshold(policy, snapshot.spent) THEN "review"
    ELSE "allow"

\* utilization_percent is NUMERIC(9, 4): PostgreSQL rejects 100000 and more.
\* The column is NULL when a cost is unknown and 100 when the limit is zero.
\* (Rounding to four decimals moves the boundary by 0.00005: no integer lies
\* in between for limits below two million nano-USD.)
UtilizationOverflows(policy, snapshot) ==
    /\ snapshot.unknown = 0
    /\ policy.limit > 0
    /\ snapshot.spent * 100 >= 100000 * policy.limit
=============================================================================
