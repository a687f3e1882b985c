---------------------------- MODULE GuardrailProofs ----------------------------
(***************************************************************************)
(* What the guardrail promises about money, for every value of the         *)
(* constants: its verdicts do not relax within a month, and concurrent     *)
(* requests overshoot the threshold by a bounded amount.  Both need facts  *)
(* about sums, which come first.  Two facts about the operators close.     *)
(***************************************************************************)
EXTENDS ChargeProofs

----------------------------------------------------------------------------
\* Sums over finite sets.  Induction takes the form of a smallest
\* counterexample, which needs no theorem with an operator as a parameter.

\* The element a fold takes first.
Picked(s) == CHOOSE x \in s : TRUE

\* g sums the costs c over every subset of S, picking element by element.
IsSum(g, c, S) ==
    g = [s \in SUBSET S |-> IF s = {} THEN 0
                            ELSE c[Picked(s)] + g[s \ {Picked(s)}]]

\* The sum of the costs c over S.
Total(c, S) == (CHOOSE g : IsSum(g, c, S))[S]

\* Among sets of subsets of a finite set there is a smallest one.
LEMMA SmallestSet ==
    ASSUME NEW S, IsFiniteSet(S), NEW sets \in SUBSET (SUBSET S), sets # {}
    PROVE  \E least \in sets : \A s \in sets : s \subseteq least => s = least
  <1>1. IsWellFoundedOn(StrictSubsetOrdering(S), SUBSET S)
    BY FS_StrictSubsetOrderingWellFounded, FS_FiniteSubsetsOfFinite
  <1>2. \E least \in sets : \A s \in sets :
           ~(<<s, least>> \in StrictSubsetOrdering(S))
    BY <1>1, WFMin
  <1> QED
    BY <1>2 DEF StrictSubsetOrdering

\* An element is picked from every set but the empty one.
LEMMA PickedType ==
    ASSUME NEW s, s # {}
    PROVE  Picked(s) \in s
  BY DEF Picked

\* Two sums agree on every set on which their costs agree.
LEMMA SumsAgree ==
    ASSUME NEW U, IsFiniteSet(U), NEW S, NEW T, U \subseteq S, U \subseteq T,
           NEW c, NEW d, \A x \in U : c[x] = d[x],
           NEW g, IsSum(g, c, S), NEW h, IsSum(h, d, T)
    PROVE  g[U] = h[U]
  <1> SUFFICES ASSUME g[U] # h[U] PROVE FALSE
    OBVIOUS
  <1> DEFINE bad == {u \in SUBSET U : g[u] # h[u]}
  <1>1. PICK u \in bad : \A s \in bad : s \subseteq u => s = u
    <2>1. bad # {} /\ bad \in SUBSET (SUBSET U)
      OBVIOUS
    <2> HIDE DEF bad
    <2> QED
      BY <2>1, SmallestSet
  <1>2. /\ g[u] = IF u = {} THEN 0 ELSE c[Picked(u)] + g[u \ {Picked(u)}]
        /\ h[u] = IF u = {} THEN 0 ELSE d[Picked(u)] + h[u \ {Picked(u)}]
    BY DEF IsSum
  <1>3. u # {}
    BY <1>2
  <1>4. Picked(u) \in u
    BY <1>3, PickedType
  <1>5. g[u \ {Picked(u)}] = h[u \ {Picked(u)}]
    BY <1>1, <1>4
  <1> QED
    BY <1>2, <1>3, <1>4, <1>5

\* Over a finite set the sum exists.
LEMMA SumExists ==
    ASSUME NEW S, IsFiniteSet(S), NEW c
    PROVE  \E g : IsSum(g, c, S)
  <1> SUFFICES ASSUME ~\E g : IsSum(g, c, S) PROVE FALSE
    OBVIOUS
  <1> DEFINE bad == {s \in SUBSET S : ~\E g : IsSum(g, c, s)}
  <1>1. PICK least \in bad : \A s \in bad : s \subseteq least => s = least
    <2>1. bad # {} /\ bad \in SUBSET (SUBSET S)
      OBVIOUS
    <2> HIDE DEF bad
    <2> QED
      BY <2>1, SmallestSet
  <1> DEFINE sum == [s \in SUBSET least |->
                        IF s = {} THEN 0
                        ELSE c[Picked(s)] + Total(c, s \ {Picked(s)})]
  <1>2. ASSUME NEW s \in SUBSET least, s # least
        PROVE  IsSum(CHOOSE g : IsSum(g, c, s), c, s)
    <2>1. \E g : IsSum(g, c, s)
      BY <1>1, <1>2
    <2> QED
      BY <2>1
  <1>3. ASSUME NEW s \in SUBSET least, s # least
        PROVE  sum[s] = Total(c, s)
    <2> DEFINE g == CHOOSE f : IsSum(f, c, s)
    <2>1. IsSum(g, c, s)
      BY <1>2, <1>3
    <2>2. g[s] = IF s = {} THEN 0 ELSE c[Picked(s)] + g[s \ {Picked(s)}]
      BY <2>1 DEF IsSum
    <2>3. CASE s = {}
      BY <2>2, <2>3 DEF Total
    <2>4. CASE s # {}
      <3> DEFINE u == s \ {Picked(s)}
                 h == CHOOSE f : IsSum(f, c, u)
      <3>1. u \in SUBSET least /\ u # least
        BY <2>4, PickedType
      <3>2. IsSum(h, c, u)
        BY <3>1, <1>2
      <3>3. IsFiniteSet(u)
        BY <3>1, FS_Subset
      <3> HIDE DEF g, h, u
      <3>4. g[u] = h[u]
        <4>1. u \subseteq s
          BY DEF u
        <4> QED
          BY <2>1, <3>2, <3>3, <4>1, SumsAgree
      <3>5. Total(c, u) = h[u] /\ Total(c, s) = g[s]
        BY DEF Total, g, h
      <3> QED
        BY <2>2, <2>4, <3>4, <3>5 DEF u
    <2> QED
      BY <2>3, <2>4
  <1>4. IsSum(sum, c, least)
    <2>1. ASSUME NEW s \in SUBSET least, s # {}
          PROVE  sum[s \ {Picked(s)}] = Total(c, s \ {Picked(s)})
      <3>1. s \ {Picked(s)} \in SUBSET least /\ s \ {Picked(s)} # least
        BY <2>1, PickedType
      <3> HIDE DEF sum
      <3> QED
        BY <3>1, <1>3
    <2> QED
      BY <2>1 DEF IsSum
  <1> QED
    BY <1>1, <1>4

\* A total is the value of any sum.
LEMMA TotalIsSum ==
    ASSUME NEW S, IsFiniteSet(S), NEW T, S \subseteq T, NEW c,
           NEW g, IsSum(g, c, T)
    PROVE  g[S] = Total(c, S)
  <1> DEFINE h == CHOOSE f : IsSum(f, c, S)
  <1>1. IsSum(h, c, S)
    BY SumExists
  <1> HIDE DEF h
  <1>2. g[S] = h[S]
    BY <1>1, SumsAgree
  <1> QED
    BY <1>2 DEF Total, h

\* The total over a set is that of its picked element and the rest.
LEMMA TotalPicked ==
    ASSUME NEW S, IsFiniteSet(S), NEW c
    PROVE  Total(c, S) = IF S = {} THEN 0
                         ELSE c[Picked(S)] + Total(c, S \ {Picked(S)})
  <1> DEFINE g == CHOOSE f : IsSum(f, c, S)
  <1>1. IsSum(g, c, S)
    BY SumExists
  <1> HIDE DEF g
  <1>2. g[S] = IF S = {} THEN 0 ELSE c[Picked(S)] + g[S \ {Picked(S)}]
    BY <1>1 DEF IsSum
  <1>3. g[S] = Total(c, S)
    BY DEF Total, g
  <1>4. g[S \ {Picked(S)}] = Total(c, S \ {Picked(S)})
    <2>1. IsFiniteSet(S \ {Picked(S)})
      BY FS_Subset
    <2> QED
      BY <1>1, <2>1, TotalIsSum
  <1> QED
    BY <1>2, <1>3, <1>4

\* A total depends on the costs of its elements only.
LEMMA TotalSame ==
    ASSUME NEW S, IsFiniteSet(S), NEW c, NEW d, \A x \in S : c[x] = d[x]
    PROVE  Total(c, S) = Total(d, S)
  <1>1. PICK g : IsSum(g, c, S)
    BY SumExists
  <1>2. PICK h : IsSum(h, d, S)
    BY SumExists
  <1>3. g[S] = h[S]
    BY <1>1, <1>2, SumsAgree
  <1> QED
    BY <1>1, <1>2, <1>3, TotalIsSum

\* Natural costs have a natural total.
LEMMA TotalType ==
    ASSUME NEW S, IsFiniteSet(S), NEW c, \A x \in S : c[x] \in Nat
    PROVE  Total(c, S) \in Nat
  <1> SUFFICES ASSUME Total(c, S) \notin Nat PROVE FALSE
    OBVIOUS
  <1> DEFINE bad == {s \in SUBSET S : Total(c, s) \notin Nat}
  <1>1. PICK least \in bad : \A s \in bad : s \subseteq least => s = least
    <2>1. bad # {} /\ bad \in SUBSET (SUBSET S)
      OBVIOUS
    <2> HIDE DEF bad
    <2> QED
      BY <2>1, SmallestSet
  <1>2. IsFiniteSet(least)
    BY FS_Subset
  <1>3. least # {} /\ Picked(least) \in least
    <2>1. Total(c, least) \notin Nat
      OBVIOUS
    <2>2. least = {} => Total(c, least) = 0
      BY <1>2, TotalPicked
    <2>3. least # {}
      BY <2>1, <2>2
    <2> QED
      BY <2>3, PickedType
  <1>4. Total(c, least \ {Picked(least)}) \in Nat
    BY <1>1, <1>3
  <1>5. Total(c, least) = c[Picked(least)] + Total(c, least \ {Picked(least)})
    BY <1>2, <1>3, TotalPicked
  <1>6. c[Picked(least)] \in Nat
    BY <1>3
  <1> QED
    BY <1>4, <1>5, <1>6

\* The order in which the elements are picked does not matter.
LEMMA TotalRemove ==
    ASSUME NEW S, IsFiniteSet(S), NEW c, \A x \in S : c[x] \in Nat, NEW x \in S
    PROVE  Total(c, S) = c[x] + Total(c, S \ {x})
  <1> SUFFICES ASSUME Total(c, S) # c[x] + Total(c, S \ {x}) PROVE FALSE
    OBVIOUS
  <1> DEFINE bad == {s \in SUBSET S :
                        \E y \in s : Total(c, s) # c[y] + Total(c, s \ {y})}
  <1>1. PICK least \in bad : \A s \in bad : s \subseteq least => s = least
    <2>1. bad # {} /\ bad \in SUBSET (SUBSET S)
      OBVIOUS
    <2> HIDE DEF bad
    <2> QED
      BY <2>1, SmallestSet
  <1>2. PICK y \in least : Total(c, least) # c[y] + Total(c, least \ {y})
    OBVIOUS
  <1> DEFINE p == Picked(least)
  <1>3. p \in least
    BY PickedType
  <1>4. \A s \in SUBSET S : IsFiniteSet(s) /\ Total(c, s) \in Nat
    BY FS_Subset, TotalType
  <1>5. Total(c, least) = c[p] + Total(c, least \ {p})
    BY <1>4, TotalPicked
  <1> HIDE DEF p
  <1>6. y # p
    BY <1>2, <1>5
  <1>7. ASSUME NEW s \in SUBSET least, s # least, NEW z \in s
        PROVE  Total(c, s) = c[z] + Total(c, s \ {z})
    BY <1>1, <1>7
  <1> DEFINE rest == (least \ {p}) \ {y}
  <1>8. Total(c, least \ {p}) = c[y] + Total(c, rest)
    BY <1>3, <1>6, <1>7
  <1>9. Total(c, least \ {y}) = c[p] + Total(c, rest)
    <2>1. rest = (least \ {y}) \ {p}
      OBVIOUS
    <2> HIDE DEF rest
    <2> QED
      BY <1>3, <1>6, <1>7, <2>1
  <1>10. c[p] \in Nat /\ c[y] \in Nat /\ Total(c, rest) \in Nat
    BY <1>3, <1>4
  <1> HIDE DEF rest
  <1>11. Total(c, least) = c[y] + Total(c, least \ {y})
    BY <1>5, <1>8, <1>9, <1>10
  <1> QED
    BY <1>2, <1>11

\* More elements of natural cost have no smaller total.
LEMMA TotalMonotone ==
    ASSUME NEW B, IsFiniteSet(B), NEW A \in SUBSET B,
           NEW c, \A x \in B : c[x] \in Nat
    PROVE  Total(c, A) <= Total(c, B)
  <1> SUFFICES ASSUME ~(Total(c, A) <= Total(c, B)) PROVE FALSE
    OBVIOUS
  <1> DEFINE bad == {s \in SUBSET B :
                        A \subseteq s /\ ~(Total(c, A) <= Total(c, s))}
  <1>1. PICK least \in bad : \A s \in bad : s \subseteq least => s = least
    <2>1. bad # {} /\ bad \in SUBSET (SUBSET B)
      OBVIOUS
    <2> HIDE DEF bad
    <2> QED
      BY <2>1, SmallestSet
  <1>2. \A s \in SUBSET B : IsFiniteSet(s) /\ Total(c, s) \in Nat
    BY FS_Subset, TotalType
  <1>3. PICK x \in least : x \notin A
    <2>1. Total(c, A) <= Total(c, A)
      BY <1>2
    <2>2. least # A /\ A \subseteq least
      BY <2>1
    <2> QED
      BY <2>2
  <1> DEFINE rest == least \ {x}
  <1>4. Total(c, A) <= Total(c, rest)
    BY <1>1, <1>3
  <1>5. Total(c, least) = c[x] + Total(c, rest)
    BY <1>2, TotalRemove
  <1>6. ~(Total(c, A) <= Total(c, least))
    OBVIOUS
  <1>7. c[x] \in Nat /\ \A s \in {A, rest, least} : Total(c, s) \in Nat
    BY <1>2
  <1> HIDE DEF rest
  <1> QED
    BY <1>4, <1>5, <1>6, <1>7

\* Elements that cost at most m each add at most m each.
LEMMA TotalBounded ==
    ASSUME NEW B, IsFiniteSet(B), NEW A \in SUBSET B, NEW m \in Nat,
           NEW c, \A x \in B : c[x] \in 0 .. m
    PROVE  Total(c, B) <= Total(c, A) + Cardinality(B \ A) * m
  <1> DEFINE Bounded(s) ==
                 Total(c, s) <= Total(c, A) + Cardinality(s \ A) * m
             bad == {s \in SUBSET B : A \subseteq s /\ ~Bounded(s)}
  <1> SUFFICES ASSUME ~Bounded(B) PROVE FALSE
    OBVIOUS
  <1>1. PICK least \in bad : \A s \in bad : s \subseteq least => s = least
    <2>1. bad # {} /\ bad \in SUBSET (SUBSET B)
      OBVIOUS
    <2> HIDE DEF bad
    <2> QED
      BY <2>1, SmallestSet
  <1>2. \A s \in SUBSET B : /\ IsFiniteSet(s)
                            /\ Total(c, s) \in Nat
                            /\ Cardinality(s) \in Nat
    BY FS_Subset, TotalType, FS_CardinalityType
  <1>3. Bounded(A)
    <2>1. A \ A = {}
      OBVIOUS
    <2>2. Cardinality(A \ A) = 0
      BY <2>1, FS_EmptySet
    <2> QED
      BY <1>2, <2>2
  <1>4. PICK x \in least : x \notin A
    <2>1. least # A /\ A \subseteq least
      BY <1>3
    <2> QED
      BY <2>1
  <1> DEFINE rest == least \ {x}
  <1>5. Bounded(rest)
    BY <1>1, <1>4
  <1>6. Total(c, least) = c[x] + Total(c, rest)
    BY <1>2, TotalRemove
  <1>7. Cardinality(least \ A) = Cardinality(rest \ A) + 1
    <2>1. least \ A = (rest \ A) \cup {x} /\ x \notin rest \ A
      BY <1>4
    <2>2. IsFiniteSet(rest \ A)
      BY <1>2
    <2> QED
      BY <2>1, <2>2, FS_AddElement
  <1>8. /\ Cardinality(rest \ A) \in Nat
        /\ Total(c, rest) \in Nat
        /\ Total(c, A) \in Nat
        /\ c[x] \in 0 .. m
    BY <1>2
  <1>9. \A k \in Nat : (k + 1) * m = k * m + m
    OBVIOUS
  <1>10. Cardinality(least \ A) * m = Cardinality(rest \ A) * m + m
    BY <1>7, <1>8, <1>9
  <1>11. Cardinality(rest \ A) * m \in Nat
    BY <1>8
  <1>12. ~Bounded(least)
    OBVIOUS
  <1> QED
    BY <1>5, <1>6, <1>8, <1>10, <1>11, <1>12

----------------------------------------------------------------------------
\* The spend as a sum

\* What each request costs its cost center, zero if that is not known.
Costs == [q \in Requests |-> KnownCost(q)]

\* The fold that CurrentSpend sums with is the sum of the costs.
SpendIsTotal == \A S \in SUBSET Requests : Spent(S) = Total(Costs, S)

\* The two recursions have the same equation.
LEMMA SpentIsTotal ==
    SpendIsTotal
  <1> SUFFICES ASSUME NEW S \in SUBSET Requests
               PROVE  Spent(S) = Total(Costs, S)
    BY DEF SpendIsTotal
  <1> DEFINE IsFold(g) == g = [s \in SUBSET S |->
                               IF s = {} THEN 0
                               ELSE KnownCost(Picked(s)) + g[s \ {Picked(s)}]]
  <1>1. Spent(S) = (CHOOSE g : IsFold(g))[S]
    BY DEF Spent, MapThenSumSet, MapThenFoldSet, Picked
  <1>2. IsFiniteSet(S)
    BY RequestsAssumption, FS_Subset
  <1>3. PICK sum : IsSum(sum, Costs, S)
    BY <1>2, SumExists
  <1>4. \A g : IsFold(g) <=> IsSum(g, Costs, S)
    <2>1. \A s \in SUBSET S : s # {} => Costs[Picked(s)] = KnownCost(Picked(s))
      BY PickedType DEF Costs
    <2>2. ASSUME NEW g
          PROVE  [s \in SUBSET S |->
                     IF s = {} THEN 0
                     ELSE KnownCost(Picked(s)) + g[s \ {Picked(s)}]]
                 = [s \in SUBSET S |->
                     IF s = {} THEN 0
                     ELSE Costs[Picked(s)] + g[s \ {Picked(s)}]]
      BY <2>1
    <2> QED
      BY <2>2 DEF IsSum
  <1>5. IsSum(CHOOSE g : IsFold(g), Costs, S)
    BY <1>3, <1>4
  <1> HIDE DEF IsFold
  <1> QED
    BY <1>1, <1>2, <1>5, TotalIsSum

\* The same in the next state.
LEMMA NextSpent == SpendIsTotal'
  BY SpentIsTotal, PTL

\* A snapshot depends on the usage rows it is taken of only.
LEMMA SnapshotKept ==
    ASSUME NEW S \in SUBSET Requests,
           \A q \in S : usage_records'[q] = usage_records[q]
    PROVE  Spent(S)' = Spent(S) /\ SnapshotOf(S)' = SnapshotOf(S)
  <1>1. Spent(S) = Total(Costs, S) /\ Spent(S)' = Total(Costs', S)
    BY SpentIsTotal, NextSpent DEF SpendIsTotal
  <1>2. IsFiniteSet(S)
    BY RequestsAssumption, FS_Subset
  <1>3. \A q \in S : Costs'[q] = Costs[q]
    BY DEF Costs, KnownCost
  <1>4. Unknown(S)' = Unknown(S)
    BY DEF Unknown
  <1>5. Total(Costs', S) = Total(Costs, S)
    BY <1>2, <1>3, TotalSame
  <1> QED
    BY <1>1, <1>4, <1>5 DEF SnapshotOf

----------------------------------------------------------------------------
\* Verdicts do not relax

\* A decision that read the spend is the verdict on what it counted.
RowVerdict(r) ==
    (Row(r) # NULL /\ Row(r).policy # NULL) =>
        Row(r).decision = Verdict(Row(r).policy, SnapshotOf(Row(r).counted))

\* It counts all that a decision answered before its request counted.
RowNested(r) ==
    \A q \in answeredBefore[r] :
        (/\ Row(r) # NULL
         /\ Row(r).policy # NULL
         /\ Row(q) # NULL
         /\ Row(q).policy # NULL
         /\ req[r].costCenter = req[q].costCenter
         /\ Row(r).period = Row(q).period)
        => Row(q).counted \subseteq Row(r).counted

\* Both, for every request.
VerdictInv == /\ \A r \in Requests : RowVerdict(r)
              /\ \A r \in Requests : RowNested(r)

\* Only storing a decision changes the table of decisions.
LEMMA DecisionsStored ==
    ASSUME [Next]_vars
    PROVE  \/ UNCHANGED budget_decisions
           \/ \E r \in Requests : RecordDecision(r)
  BY DEF Next, vars, database, Environment, Handle, Governing, Budgeting,
     Invoking, Recording, Arrive, Disconnect, SetPolicy, Shutdown, Stop, Kill,
     Restart, NextMonth, Reject, CreateRequest, FindActivePolicy,
     CurrentSpend, DecisionRefused, RetryProvider, ProviderFails,
     NoTextOutput, ProviderAnswers, BeginRecord, CommitRecord, DatabaseFails,
     Reply

\* An answered request keeps its decision.
LEMMA AnsweredRow ==
    ASSUME Inv, [Next]_vars, NEW q \in Requests, pc[q] = "done"
    PROVE  Row(q)' = Row(q) /\ req'[q] = req[q]
  <1>1. pc'[q] = "done" /\ req'[q] = req[q]
    BY StepKeeps DEF Final
  <1>2. budget_decisions'[q] = budget_decisions[q]
    BY DecisionsStored DEF RecordDecision, Inv, TypeOK, TablesOK
  <1> QED
    BY <1>1, <1>2 DEF Row

\* A kept decision stays the verdict on what it counted.
LEMMA VerdictKept ==
    ASSUME Inv, ChargeInv, \A q \in Requests : Final(q),
           NEW r \in Requests, RowVerdict(r), Row(r)' = Row(r)
    PROVE  RowVerdict(r)'
  <1>1. PICK row : row = Row(r)
    OBVIOUS
  <1>2. SUFFICES ASSUME row # NULL, row.policy # NULL
                 PROVE  row.decision
                            = Verdict(row.policy, SnapshotOf(row.counted)')
    BY <1>1 DEF RowVerdict, Verdict
  <1>3. /\ row.counted \in SUBSET Requests
        /\ \A q \in row.counted : usage_records[q] # NULL
    BY <1>1, <1>2 DEF ChargeInv, RowCounts, Charges
  <1>4. \A q \in row.counted : usage_records'[q] = usage_records[q]
    BY <1>3 DEF Final
  <1>5. SnapshotOf(row.counted)' = SnapshotOf(row.counted)
    BY <1>3, <1>4, SnapshotKept
  <1> QED
    BY <1>1, <1>2, <1>5 DEF RowVerdict

\* A new decision is the verdict on the charges of the moment, and those are
\* at least what earlier decisions counted.
LEMMA NewVerdict ==
    ASSUME Inv, ChargeInv, [Next]_vars, NEW r \in Requests, CurrentSpend(r)
    PROVE  RowVerdict(r)' /\ RowNested(r)'
  <1> DEFINE rows == Charges(r, local[r].period, Requests)
  <1>1. PICK row : row = [decision |-> Verdict(local[r].policy,
                                               SnapshotOf(rows)),
                          period   |-> local[r].period,
                          policy   |-> local[r].policy,
                          counted  |-> rows]
    OBVIOUS
  <1>2. /\ row.decision = Verdict(row.policy, SnapshotOf(row.counted))
        /\ row.counted = Charges(r, row.period, Requests)
    BY <1>1
  <1>3. /\ Row(r)' = row
        /\ pc[r] = "spend"
        /\ UNCHANGED <<req, usage_records, answeredBefore>>
    BY <1>1, NewRow
  <1>4. SnapshotOf(row.counted)' = SnapshotOf(row.counted)
    BY <1>2, <1>3, SnapshotKept DEF Charges
  <1>5. RowVerdict(r)'
    BY <1>2, <1>3, <1>4 DEF RowVerdict, Verdict
  <1>6. ASSUME NEW q \in answeredBefore[r],
               Row(q) # NULL, Row(q).policy # NULL,
               req[r].costCenter = req[q].costCenter,
               row.period = Row(q).period
        PROVE  Row(q).counted \subseteq row.counted
    <2>1. q \in Requests
      BY DEF Inv, TypeOK, HistoryOK
    <2> QED
      BY <1>2, <1>6, <2>1 DEF ChargeInv, RowCounts, Charges
  <1>7. \A q \in answeredBefore[r] : q \in Requests /\ pc[q] = "done"
    BY DEF ChargeInv, AnsweredAreDone, Inv, TypeOK, HistoryOK
  <1>8. \A q \in answeredBefore[r] : Row(q)' = Row(q)
    BY <1>7, AnsweredRow
  <1>9. RowNested(r)'
    BY <1>3, <1>6, <1>8 DEF RowNested
  <1> QED
    BY <1>5, <1>9

\* Every step preserves what the verdicts rely on.
LEMMA VerdictStep ==
    ASSUME Inv, ChargeInv, VerdictInv, [Next]_vars
    PROVE  VerdictInv'
  <1> SUFFICES ASSUME NEW r \in Requests
               PROVE  RowVerdict(r)' /\ RowNested(r)'
    BY DEF VerdictInv
  <1>1. CASE RowKept(r)
    <2>1. RowVerdict(r)'
      BY <1>1, StepKeeps, VerdictKept DEF RowKept, VerdictInv
    <2>2. \A q \in answeredBefore[r] : q \in Requests /\ pc[q] = "done"
      BY DEF ChargeInv, AnsweredAreDone, Inv, TypeOK, HistoryOK
    <2>3. \A q \in answeredBefore[r] : Row(q)' = Row(q) /\ req'[q] = req[q]
      BY <2>2, AnsweredRow
    <2>4. RowNested(r)
      BY DEF VerdictInv
    <2>5. RowNested(r)'
      BY <1>1, <2>3, <2>4 DEF RowKept, RowNested
    <2> QED
      BY <2>1, <2>5
  <1>2. CASE Row(r)' = NULL
    BY <1>2 DEF RowVerdict, RowNested
  <1>3. CASE Row(r)'.policy = NULL
    BY <1>3 DEF RowVerdict, RowNested
  <1>4. CASE CurrentSpend(r)
    BY <1>4, NewVerdict
  <1> QED
    BY <1>1, <1>2, <1>3, <1>4, StepKeeps DEF RowStep

\* In every behaviour a decision is the verdict on what it counted, and
\* counts all that earlier answered decisions counted.
THEOREM VerdictInvariance == Spec => []VerdictInv
  <1>1. Init => VerdictInv
    BY DEF Init, VerdictInv, RowVerdict, RowNested, Row
  <1>2. Inv /\ ChargeInv /\ VerdictInv /\ [Next]_vars => VerdictInv'
    BY VerdictStep
  <1> QED
    BY <1>1, <1>2, Invariance, ChargeInvariance, PTL DEF Spec

\* With less spend and no unknown cost an allow remains an allow.
LEMMA VerdictMonotone ==
    ASSUME NEW policy \in BudgetPolicies, NEW less, NEW more,
           less.spent \in Nat, more.spent \in Nat, less.spent <= more.spent,
           less.unknown = 0, Verdict(policy, more) = "allow"
    PROVE  Verdict(policy, less) = "allow"
  <1> DEFINE bound == policy.threshold * policy.limit
  <1>1. policy.limit \in Nat /\ bound \in Nat
    BY DEF BudgetPolicies
  <1>2. /\ policy.limit # 0
        /\ ~(more.spent >= policy.limit)
        /\ ~(more.spent * 100 >= bound)
    BY DEF Verdict, ReachesThreshold
  <1> HIDE DEF bound
  <1>3. ~(less.spent >= policy.limit) /\ ~(less.spent * 100 >= bound)
    BY <1>1, <1>2
  <1> QED
    BY <1>2, <1>3 DEF Verdict, ReachesThreshold, bound

\* Charges have natural costs.
LEMMA CostsType ==
    ASSUME Inv, NEW q \in Requests, usage_records[q] # NULL
    PROVE  Costs[q] \in Nat
  BY DEF Inv, TypeOK, TablesOK, UsageRows, Costs, KnownCost

\* What a smaller set of charges spent is no more.
LEMMA SpentMonotone ==
    ASSUME Inv, NEW B \in SUBSET Requests, NEW A \in SUBSET B,
           \A q \in B : usage_records[q] # NULL
    PROVE  /\ Spent(A) \in Nat
           /\ Spent(B) \in Nat
           /\ Spent(A) <= Spent(B)
  <1>1. IsFiniteSet(A) /\ IsFiniteSet(B)
    BY RequestsAssumption, FS_Subset
  <1>2. \A q \in B : Costs[q] \in Nat
    BY CostsType
  <1>3. Spent(A) = Total(Costs, A) /\ Spent(B) = Total(Costs, B)
    BY SpentIsTotal DEF SpendIsTotal
  <1>4. Total(Costs, A) \in Nat /\ Total(Costs, B) \in Nat
    BY <1>1, <1>2, TotalType
  <1>5. Total(Costs, A) <= Total(Costs, B)
    BY <1>1, <1>2, TotalMonotone
  <1> QED
    BY <1>3, <1>4, <1>5

\* Under one policy the guardrail does not reopen within a month: after an
\* answered review or deny no later arrival is allowed (budget.Evaluate over
\* the rows that CurrentSpend sums).
THEOREM GuardrailStaysShut == Spec => []VerdictsNeverRelax
  <1>1. Inv /\ ChargeInv /\ VerdictInv => VerdictsNeverRelax
    <2> SUFFICES ASSUME Inv, ChargeInv, VerdictInv,
                        NEW r \in Requests, NEW q \in answeredBefore[r],
                        budget_decisions[r] # NULL,
                        budget_decisions[q] # NULL,
                        req[r].costCenter = req[q].costCenter,
                        budget_decisions[r].period
                            = budget_decisions[q].period,
                        budget_decisions[r].policy
                            = budget_decisions[q].policy,
                        budget_decisions[r].decision = "allow"
                 PROVE  budget_decisions[q].decision = "allow"
      BY DEF VerdictsNeverRelax
    <2>1. q \in Requests
      BY DEF Inv, TypeOK, HistoryOK
    <2> DEFINE policy == Row(r).policy
               more   == Row(r).counted
               less   == Row(q).counted
    <2>2. Row(r) = budget_decisions[r] /\ Row(q) = budget_decisions[q]
      BY <2>1, StoredRow
    <2>3. /\ policy # NULL
          /\ \A s \in more : usage_records[s].cost # NULL
      BY <2>2 DEF ChargeInv, RowAllows
    <2>4. policy \in BudgetPolicies
      BY <2>2, <2>3 DEF Inv, TypeOK, TablesOK, DecisionRows
    <2>5. less \subseteq more
      BY <2>1, <2>2, <2>3 DEF VerdictInv, RowNested
    <2>6. /\ Verdict(policy, SnapshotOf(more)) = "allow"
          /\ Row(q).decision = Verdict(policy, SnapshotOf(less))
      BY <2>1, <2>2, <2>3 DEF VerdictInv, RowVerdict
    <2>7. /\ more \subseteq Requests
          /\ \A s \in more : usage_records[s] # NULL
      BY <2>2, <2>3 DEF ChargeInv, RowCounts, Charges
    <2> HIDE DEF policy, more, less
    <2>8. /\ Spent(less) \in Nat
          /\ Spent(more) \in Nat
          /\ Spent(less) <= Spent(more)
      BY <2>5, <2>7, SpentMonotone
    <2>9. Cardinality(Unknown(less)) = 0
      <3>1. Unknown(less) = {}
        BY <2>3, <2>5 DEF Unknown
      <3> QED
        BY <3>1, FS_EmptySet
    <2>10. Verdict(policy, SnapshotOf(less)) = "allow"
      BY <2>4, <2>6, <2>8, <2>9, VerdictMonotone DEF SnapshotOf
    <2> QED
      BY <2>2, <2>6, <2>10
  <1> QED
    BY <1>1, Invariance, ChargeInvariance, VerdictInvariance, PTL

----------------------------------------------------------------------------
\* How far the spend overshoots

\* The dates of a request do not go backwards, and none lies in the future:
\* its decision, its transaction, its charge.
InTime(r) ==
    /\ pc[r] = "spend" => local[r].period <= month
    /\ (Row(r) # NULL /\ Row(r).decision = "allow") => Row(r).period <= month
    /\ pc[r] = "commit" => /\ Row(r).period <= local[r].txMonth
                           /\ local[r].txMonth <= month
    /\ usage_records[r] # NULL => usage_records[r].month <= month

\* No charge, stored or about to be, is above the dearest.
WithinMaxCost(r) ==
    /\ (usage_records[r] # NULL /\ usage_records[r].cost # NULL)
           => usage_records[r].cost <= MaxCost
    /\ (pc[r] \in {"record", "commit"} /\ local[r].cost # NULL)
           => StoredCost(local[r].cost) <= MaxCost

\* The policy that the handler of r has read is the one in force.
InForce(r, policy) ==
    /\ req[r].costCenter \in CostCenters
    /\ policy = budget_policies[req[r].costCenter]
    /\ policy.enabled

\* While policies stand still, every decision was taken under those in force.
PolicyStands(r) ==
    changes = 0 =>
        /\ pc[r] = "spend" => InForce(r, local[r].policy)
        /\ (Row(r) # NULL /\ Row(r).policy # NULL) => InForce(r, Row(r).policy)

\* Requests that have left a charge with a cost center in a month.
Charged(cc, period) == {q \in Requests : /\ usage_records[q] # NULL
                                         /\ req[q].costCenter = cc
                                         /\ usage_records[q].month = period}

\* Requests that may still leave one, by the decisions taken so far or by a
\* decision on the spend of an earlier month.
MayCharge(cc, period) ==
    {r \in Requests :
        /\ req[r].costCenter = cc
        /\ \/ /\ pc[r] = "spend"
              /\ local[r].period < period
           \/ /\ pc[r] \in {"decide", "call", "record", "commit"}
              /\ Row(r) # NULL
              /\ Row(r).decision = "allow"
              /\ Row(r).period <= period}

\* Those beyond a part of the charges.
Beyond(base, cc, period) ==
    (Charged(cc, period) \ base) \cup MayCharge(cc, period)

\* Some part of the charges, perhaps none, is below the threshold, and beyond
\* it there are no more than can be in flight.
Base(base, cc, period) ==
    /\ base \subseteq Charged(cc, period)
    /\ base # {} => Spent(base) * 100 < budget_policies[cc].threshold
                                            * budget_policies[cc].limit
    /\ Cardinality(Beyond(base, cc, period)) <= MaxInFlight

\* In that sense the charges of a cost center in a month leave headroom.
HasHeadroom(cc, period) == \E base \in SUBSET Requests : Base(base, cc, period)

\* The server runs no more handlers at once than it is sized for.
BoundedInFlight == Cardinality(InFlight) <= MaxInFlight

\* No request carries a date of the future.
TimeInv == \A r \in Requests : InTime(r)

\* The inductive invariant: policies that stand still leave headroom, since
\* the decisions were taken under them.
OvershootInv ==
    /\ BoundedInFlight
    /\ TimeInv
    /\ \A r \in Requests : WithinMaxCost(r)
    /\ \A r \in Requests : PolicyStands(r)
    /\ changes = 0 =>
           \A cc \in CostCenters, period \in Months : HasHeadroom(cc, period)

----------------------------------------------------------------------------
\* Where a handler comes from

\* The steps that lead to a place in the handler of q, or to a charge.
CameFrom(q) ==
    /\ pc'[q] = "spend" => \/ pc[q] = "spend" /\ local'[q] = local[q]
                           \/ FindActivePolicy(q)
    /\ pc'[q] = "decide" => \/ pc[q] = "decide"
                            \/ FindActivePolicy(q)
                            \/ CurrentSpend(q)
    /\ pc'[q] = "call" => pc[q] = "call" \/ RecordDecision(q)
    /\ pc'[q] = "record" => \/ pc[q] = "record" /\ local'[q] = local[q]
                            \/ ProviderAnswers(q)
    /\ pc'[q] = "commit" => \/ pc[q] = "commit" /\ local'[q] = local[q]
                            \/ BeginRecord(q)
    /\ usage_records'[q] = usage_records[q] \/ CommitRecord(q)
    /\ pc[q] # "idle" => req'[q] = req[q]

\* A handler step leaves the other handlers and their charges alone.
LEMMA OthersStay ==
    ASSUME Inv, NEW r \in Requests, Handle(r), NEW q \in Requests \ {r}
    PROVE  /\ pc'[q] = pc[q]
           /\ local'[q] = local[q]
           /\ req'[q] = req[q]
           /\ usage_records'[q] = usage_records[q]
  <1>1. /\ \/ \E code : Conclude(r, code)
           \/ \E step, locals : Continue(r, step, locals)
           \/ Reply(r)
        /\ UNCHANGED usage_records \/ CommitRecord(r)
    <2>1. CASE Governing(r)
      BY <2>1 DEF Governing, Reject, CreateRequest, Executed, AfterGovernance,
         database
    <2>2. CASE Budgeting(r)
      BY <2>2 DEF Budgeting, FindActivePolicy, CurrentSpend, RecordDecision,
         DecisionRefused, Executed, AfterBudget, database
    <2>3. CASE Invoking(r)
      BY <2>3 DEF Invoking, RetryProvider, ProviderFails, NoTextOutput,
         ProviderAnswers, database
    <2>4. CASE Recording(r)
      BY <2>4 DEF Recording, BeginRecord, CommitRecord, Executed, database
    <2>5. CASE DatabaseFails(r) \/ Reply(r)
      BY <2>5 DEF DatabaseFails, Reply, database
    <2> QED
      BY <2>1, <2>2, <2>3, <2>4, <2>5 DEF Handle
  <1>2. /\ pc'[q] = pc[q]
        /\ local'[q] = local[q]
        /\ req'[q] = req[q]
    BY <1>1 DEF Conclude, Continue, Reply, Inv, TypeOK, HandlersOK
  <1>3. usage_records'[q] = usage_records[q]
    BY <1>1 DEF CommitRecord, Inv, TypeOK, TablesOK
  <1> QED
    BY <1>2, <1>3

\* The step of a handler itself.
LEMMA OwnStep ==
    ASSUME Inv, NEW r \in Requests, Handle(r)
    PROVE  CameFrom(r) /\ pc[r] \in InFlightSteps
  <1> USE DEF CameFrom, Conclude, Continue, InFlightSteps, DatabaseSteps
  <1>1. /\ pc \in [Requests -> Steps]
        /\ local \in [Requests -> Locals]
    BY DEF Inv, TypeOK, HandlersOK
  <1>2. CASE Governing(r)
    BY <1>1, <1>2 DEF Governing, Reject, CreateRequest, Executed,
       AfterGovernance, database
  <1>3. CASE FindActivePolicy(r) \/ CurrentSpend(r)
    BY <1>1, <1>3 DEF FindActivePolicy, CurrentSpend, database
  <1>4. CASE RecordDecision(r) \/ DecisionRefused(r)
    BY <1>1, <1>4 DEF RecordDecision, DecisionRefused, Executed, AfterBudget,
       database
  <1>5. CASE Invoking(r)
    BY <1>1, <1>5 DEF Invoking, RetryProvider, ProviderFails, NoTextOutput,
       ProviderAnswers, database
  <1>6. CASE Recording(r)
    BY <1>1, <1>6 DEF Recording, BeginRecord, CommitRecord, Executed, database
  <1>7. CASE DatabaseFails(r)
    BY <1>1, <1>7 DEF DatabaseFails, database
  <1>8. CASE Reply(r)
    BY <1>1, <1>8 DEF Reply, database
  <1> QED
    BY <1>2, <1>3, <1>4, <1>5, <1>6, <1>7, <1>8 DEF Handle, Budgeting

\* A step of the environment moves handlers only to where nothing is owed.
LEMMA EnvironmentFrom ==
    ASSUME Inv, Environment \/ UNCHANGED vars, NEW q \in Requests
    PROVE  CameFrom(q)
  <1> USE DEF CameFrom, Inv, TypeOK, HandlersOK, InFlight, InFlightSteps,
              DatabaseSteps, database, handlers
  <1>1. ASSUME NEW r \in Requests, Arrive(r)
        PROVE  CameFrom(q)
    BY <1>1 DEF Arrive
  <1>2. CASE Kill
    BY <1>2 DEF Kill
  <1>3. CASE \/ \E r \in Requests : Disconnect(r)
             \/ \E cc \in CostCenters : SetPolicy(cc)
             \/ Shutdown \/ Stop \/ Restart \/ NextMonth
             \/ UNCHANGED vars
    BY <1>3 DEF Disconnect, SetPolicy, Shutdown, Stop, Restart, NextMonth,
       vars
  <1> QED
    BY <1>1, <1>2, <1>3 DEF Environment

\* Every step, for every request.
LEMMA StepFrom ==
    ASSUME Inv, [Next]_vars, NEW q \in Requests
    PROVE  CameFrom(q)
  <1>1. ASSUME NEW r \in Requests, Handle(r)
        PROVE  CameFrom(q)
    <2>1. CASE q = r
      BY <1>1, <2>1, OwnStep
    <2>2. CASE q # r
      BY <1>1, <2>2, OthersStay DEF CameFrom
    <2> QED
      BY <2>1, <2>2
  <1> QED
    BY <1>1, EnvironmentFrom DEF Next

\* Months only pass, and while no policy is changed the policies stay.
LEMMA MonthsPass ==
    ASSUME Inv, [Next]_vars
    PROVE  /\ month \in Int
           /\ month' \in Int
           /\ month <= month'
           /\ changes' = 0 => /\ changes = 0
                              /\ budget_policies' = budget_policies
  <1>1. \/ UNCHANGED <<month, changes, budget_policies>>
        \/ NextMonth
        \/ \E cc \in CostCenters : SetPolicy(cc)
    <2>1. ASSUME NEW r \in Requests, Handle(r)
          PROVE  UNCHANGED <<month, changes, budget_policies>>
      BY <2>1 DEF Handle, Governing, Budgeting, Invoking, Recording, Reject,
         CreateRequest, FindActivePolicy, CurrentSpend, RecordDecision,
         DecisionRefused, RetryProvider, ProviderFails, NoTextOutput,
         ProviderAnswers, BeginRecord, CommitRecord, DatabaseFails, Reply,
         world, database
    <2>2. CASE \/ \E r \in Requests : Arrive(r) \/ Disconnect(r)
               \/ Shutdown \/ Stop \/ Kill \/ Restart
               \/ UNCHANGED vars
      BY <2>2 DEF Arrive, Disconnect, Shutdown, Stop, Kill, Restart, vars,
         world, database
    <2> QED
      BY <2>1, <2>2 DEF Next, Environment
  <1>2. month \in Int /\ changes \in Nat
    BY BoundsAssumption DEF Inv, TypeOK, WorldOK, Months
  <1>3. \A cc \in CostCenters : SetPolicy(cc) => /\ month' = month
                                                /\ changes' # 0
    BY <1>2 DEF SetPolicy
  <1>4. NextMonth => /\ month' = month + 1
                     /\ changes' = changes
                     /\ budget_policies' = budget_policies
    BY DEF NextMonth, database
  <1>5. month' \in Int /\ month <= month'
    BY <1>1, <1>2, <1>3, <1>4
  <1>6. changes' = 0 => changes = 0 /\ budget_policies' = budget_policies
    BY <1>1, <1>3, <1>4
  <1> QED
    BY <1>2, <1>5, <1>6

----------------------------------------------------------------------------
\* The parts of the invariant

\* A handler is in flight only from its arrival on.
LEMMA InFlightStep ==
    ASSUME Inv, BoundedInFlight, [Next]_vars
    PROVE  BoundedInFlight'
  <1>1. /\ IsFiniteSet(InFlight)
        /\ Cardinality(InFlight) \in Nat
        /\ MaxInFlight \in Nat
    BY RequestsAssumption, FS_Subset, FS_CardinalityType, BoundsAssumption
    DEF InFlight
  <1>2. ASSUME NEW r \in Requests, Arrive(r)
        PROVE  BoundedInFlight'
    <2>1. /\ Cardinality(InFlight) < MaxInFlight
          /\ InFlight' = InFlight \cup {r}
      BY <1>2 DEF Arrive, InFlight, InFlightSteps, DatabaseSteps, Inv, TypeOK,
         HandlersOK
    <2>2. Cardinality(InFlight \cup {r}) <= Cardinality(InFlight) + 1
      BY <1>1, FS_AddElement
    <2>3. Cardinality(InFlight \cup {r}) \in Nat
      BY <1>1, FS_AddElement, FS_CardinalityType
    <2> QED
      BY <1>1, <2>1, <2>2, <2>3 DEF BoundedInFlight
  <1>3. CASE InFlight' \subseteq InFlight
    <2>1. Cardinality(InFlight') <= Cardinality(InFlight)
      BY <1>1, <1>3, FS_Subset
    <2>2. Cardinality(InFlight') \in Nat
      BY <1>1, <1>3, FS_Subset, FS_CardinalityType
    <2> QED
      BY <1>1, <2>1, <2>2 DEF BoundedInFlight
  <1>4. ASSUME NEW r \in Requests, Handle(r)
        PROVE  InFlight' \subseteq InFlight
    BY <1>4, OwnStep, OthersStay DEF InFlight
  <1>5. CASE \/ \E r \in Requests : Disconnect(r)
             \/ \E cc \in CostCenters : SetPolicy(cc)
             \/ Shutdown \/ Stop \/ Kill \/ Restart \/ NextMonth
             \/ UNCHANGED vars
    <2>1. InFlight' \subseteq InFlight
      BY <1>5 DEF Disconnect, SetPolicy, Shutdown, Stop, Kill, Restart,
         NextMonth, vars, handlers, InFlight, InFlightSteps, DatabaseSteps
    <2> QED
      BY <1>3, <2>1
  <1> QED
    BY <1>2, <1>3, <1>4, <1>5 DEF Next, Environment

\* A decision row, pending or stored, is a proper row.
LEMMA RowType ==
    ASSUME Inv, NEW r \in Requests, Row(r) # NULL
    PROVE  Row(r) \in DecisionRows /\ Row(r).period \in Int
  <1>1. Row(r) \in DecisionRows
    BY DEF Row, Inv, TypeOK, TablesOK, StepEvidence
  <1>2. Months \subseteq Int
    BY DEF Months
  <1> QED
    BY <1>1, <1>2 DEF DecisionRows

\* A handler that goes on to read the spend has read the month and the
\* enabled policy of its cost center.
LEMMA PolicyRead ==
    ASSUME Inv, NEW r \in Requests, FindActivePolicy(r), pc'[r] = "spend"
    PROVE  /\ local'[r].period = month
           /\ InForce(r, local'[r].policy)
           /\ UNCHANGED <<req, month, budget_policies>>
  <1> DEFINE policy == budget_policies[req[r].costCenter]
             here   == [NoLocals EXCEPT !.period = month]
             locals == [here EXCEPT !.policy = policy]
  <1>1. /\ req[r].costCenter \in CostCenters
        /\ policy.enabled
        /\ Continue(r, "spend", locals)
        /\ UNCHANGED <<req, month, budget_policies>>
    <2>1. ~ \E other : Continue(r, "decide", other)
      BY DEF Continue, Inv, TypeOK, HandlersOK
    <2> QED
      BY <2>1 DEF FindActivePolicy, Continue, world, database
  <1>2. locals.period = month /\ locals.policy = policy
    BY DEF NoLocals
  <1> HIDE DEF locals, policy
  <1>3. local'[r] = locals
    BY <1>1 DEF Continue, Inv, TypeOK, HandlersOK
  <1> QED
    BY <1>1, <1>2, <1>3 DEF InForce, policy

\* The dates of a request keep their order as months pass.
LEMMA TimeStep ==
    ASSUME Inv, Inv', TimeInv, [Next]_vars
    PROVE  TimeInv'
  <1> SUFFICES ASSUME NEW q \in Requests
               PROVE  InTime(q)'
    BY DEF TimeInv
  <1>1. /\ CameFrom(q)
        /\ RowStep(q)
        /\ month \in Int
        /\ month' \in Int
        /\ month <= month'
    BY StepFrom, StepKeeps, MonthsPass
  <1>2. InTime(q)
    BY DEF TimeInv
  <1>3. local[q].period \in Int /\ local[q].txMonth \in Int
    BY DEF Inv, TypeOK, HandlersOK, Locals
  <1>4. pc'[q] = "spend" => local'[q].period <= month'
    <2>1. FindActivePolicy(q) /\ pc'[q] = "spend" => local'[q].period = month
      BY PolicyRead
    <2>2. pc[q] = "spend" /\ local'[q] = local[q] => local'[q].period <= month'
      BY <1>1, <1>2, <1>3 DEF InTime
    <2> QED
      BY <1>1, <2>1, <2>2 DEF CameFrom
  <1>5. Row(q)' # NULL /\ Row(q)'.decision = "allow"
        => Row(q)'.period <= month'
    <2>1. CASE RowKept(q) /\ Row(q) # NULL
      BY <1>1, <1>2, <2>1, RowType DEF RowKept, InTime
    <2>2. CASE CurrentSpend(q)
      <3>1. Row(q)'.period = local[q].period /\ pc[q] = "spend"
        BY <2>2, NewRow
      <3> QED
        BY <1>1, <1>2, <1>3, <3>1 DEF InTime
    <2> QED
      BY <1>1, <2>1, <2>2 DEF RowStep, RowKept
  <1>6. pc'[q] = "commit" => /\ Row(q)'.period <= local'[q].txMonth
                             /\ local'[q].txMonth <= month'
    <2> SUFFICES ASSUME pc'[q] = "commit"
                 PROVE  /\ Row(q)'.period <= local'[q].txMonth
                        /\ local'[q].txMonth <= month'
      OBVIOUS
    <2>1. \/ pc[q] = "commit" /\ local'[q] = local[q]
          \/ BeginRecord(q)
      BY <1>1 DEF CameFrom
    <2>2. pc[q] \in {"record", "commit"}
      BY <2>1 DEF BeginRecord
    <2>3. Row(q)' # NULL /\ Row(q)'.decision = "allow"
      BY DEF Inv, StepEvidence, Row
    <2>4. Row(q)' = Row(q)
      BY <1>1, <2>2, <2>3 DEF RowStep, RowKept, CurrentSpend
    <2>5. Row(q) # NULL /\ Row(q).period \in Int /\ Row(q).period <= month
      BY <1>2, <2>3, <2>4, RowType DEF InTime
    <2>6. CASE pc[q] = "commit" /\ local'[q] = local[q]
      BY <1>1, <1>2, <1>3, <2>4, <2>6 DEF InTime
    <2>7. CASE BeginRecord(q)
      <3>1. local'[q].txMonth = month
        BY <2>7 DEF BeginRecord, Continue, Inv, TypeOK, HandlersOK, Locals
      <3> QED
        BY <1>1, <2>4, <2>5, <3>1
    <2> QED
      BY <2>1, <2>6, <2>7
  <1>7. usage_records'[q] # NULL => usage_records'[q].month <= month'
    <2>1. CASE CommitRecord(q)
      <3>1. pc[q] = "commit" /\ usage_records'[q].month = local[q].txMonth
        BY <2>1 DEF CommitRecord, Inv, TypeOK, TablesOK
      <3> QED
        BY <1>1, <1>2, <1>3, <3>1 DEF InTime
    <2>2. CASE usage_records'[q] = usage_records[q]
      <3>1. usage_records[q] # NULL => usage_records[q].month \in Int
        BY DEF Inv, TypeOK, TablesOK, UsageRows, Months
      <3> QED
        BY <1>1, <1>2, <2>2, <3>1 DEF InTime
    <2> QED
      BY <1>1, <2>1, <2>2 DEF CameFrom
  <1> QED
    BY <1>4, <1>5, <1>6, <1>7 DEF InTime

\* A finite set of natural numbers has a greatest one.
LEMMA GreatestNat ==
    ASSUME NEW S, S \subseteq Nat, IsFiniteSet(S), S # {}
    PROVE  /\ Max(S) \in S
           /\ \A x \in S : Max(S) >= x
  <1> DEFINE Above(x) == {y \in S : y > x}
             above == {Above(x) : x \in S}
  <1>1. PICK least \in above : \A s \in above : s \subseteq least => s = least
    <2>1. above # {} /\ above \in SUBSET (SUBSET S)
      OBVIOUS
    <2> HIDE DEF above
    <2> QED
      BY ONLY <2>1, SmallestSet, IsFiniteSet(S)
  <1> HIDE DEF Above
  <1>2. PICK x \in S : least = Above(x)
    OBVIOUS
  <1>3. ASSUME NEW y \in S, y > x
        PROVE  FALSE
    <2>1. Above(y) \in above
      OBVIOUS
    <2>2. Above(y) \subseteq Above(x)
      <3>1. \A z \in S : z > y => z > x
        <4>1. x \in Nat /\ y \in Nat /\ \A z \in S : z \in Nat
          OBVIOUS
        <4> QED
          BY <1>3, <4>1
      <3> QED
        BY <3>1 DEF Above
    <2>3. y \notin Above(y) /\ y \in Above(x)
      BY <1>3 DEF Above
    <2> HIDE DEF above
    <2> QED
      BY <1>1, <1>2, <2>1, <2>2, <2>3
  <1>4. \A y \in S : x >= y
    BY <1>3
  <1> QED
    BY <1>4 DEF Max

\* The dearest charge is a natural number, and no price of a billable report
\* is above it: the catalogue and the reports are finitely many.
LEMMA MaxCostBounds ==
    /\ MaxCost \in Nat
    /\ \A target \in RouteTargets, usage \in UsageReports :
          ~EstimationFails(usage) =>
             \A cost \in Estimate(target.provider, target.model, usage) :
                cost \in Nat /\ StoredCost(cost) <= MaxCost
  <1> DEFINE billable == {u \in UsageReports : ~EstimationFails(u)}
             costs == UNION {Estimate(target.provider, target.model, usage) :
                             target \in RouteTargets, usage \in billable}
             prices == {StoredCost(cost) : cost \in costs}
             charges == {0} \cup prices
             pairs == UsageReports \X Catalog
             charge == [pair \in pairs |-> StoredCost(CostAt(pair[2], pair[1]))]
  <1>1. ASSUME NEW cost \in costs
        PROVE  \E usage \in billable, rate \in Catalog :
                  cost = CostAt(rate, usage)
    BY DEF Estimate, Lookup
  <1>2. \A cost \in costs : cost \in Nat /\ StoredCost(cost) \in Nat
    BY <1>1, CostType, StoredCostType
  <1>3. prices \subseteq {charge[p] : p \in pairs}
    <2>1. ASSUME NEW cost \in costs
          PROVE  \E p \in pairs : StoredCost(cost) = charge[p]
      <3>1. PICK usage \in billable, rate \in Catalog :
               cost = CostAt(rate, usage)
        BY <1>1
      <3>2. <<usage, rate>> \in pairs
        OBVIOUS
      <3> QED
        BY <3>1, <3>2
    <2> QED
      BY <2>1
  <1>4. IsFiniteSet({charge[p] : p \in pairs})
    <2>1. IsFiniteSet(pairs)
      BY FinitenessAssumption, FS_Product
    <2>2. charge \in Surjection(pairs, {charge[p] : p \in pairs})
      BY DEF Surjection
    <2> HIDE DEF charge, pairs
    <2> QED
      BY <2>1, <2>2, FS_Surjection
  <1>5. IsFiniteSet(charges)
    <2>1. IsFiniteSet(prices)
      BY <1>3, <1>4, FS_Subset
    <2>2. IsFiniteSet({0})
      BY FS_Singleton
    <2> HIDE DEF prices
    <2> QED
      BY <2>1, <2>2, FS_Union
  <1>6. charges \in SUBSET Nat /\ charges # {}
    BY <1>2
  <1>7. MaxCost = Max(charges)
    BY DEF MaxCost
  <1>8. \A target \in RouteTargets, usage \in billable :
           \A cost \in Estimate(target.provider, target.model, usage) :
              cost \in costs
    OBVIOUS
  <1>9. \A cost \in costs : StoredCost(cost) \in charges
    OBVIOUS
  <1> HIDE DEF charges, costs
  <1>10. /\ MaxCost \in charges
         /\ \A x \in charges : MaxCost >= x
    BY <1>5, <1>6, <1>7, GreatestNat
  <1>11. \A x \in charges : x \in Nat /\ x <= MaxCost
    BY <1>6, <1>10
  <1> QED
    BY <1>2, <1>6, <1>8, <1>9, <1>10, <1>11

\* No step leaves a charge above the dearest.
LEMMA MaxCostStep ==
    ASSUME Inv, [Next]_vars, NEW q \in Requests, WithinMaxCost(q)
    PROVE  WithinMaxCost(q)'
  <1>1. CameFrom(q)
    BY StepFrom
  <1>2. (usage_records'[q] # NULL /\ usage_records'[q].cost # NULL)
            => usage_records'[q].cost <= MaxCost
    <2>1. CASE CommitRecord(q)
      <3>1. /\ pc[q] = "commit"
            /\ usage_records'[q].cost = IF local[q].cost = NULL THEN NULL
                                       ELSE StoredCost(local[q].cost)
        BY <2>1 DEF CommitRecord, Inv, TypeOK, TablesOK
      <3> QED
        BY <3>1 DEF WithinMaxCost
    <2> QED
      BY <1>1, <2>1 DEF CameFrom, WithinMaxCost
  <1>3. pc'[q] \in {"record", "commit"} /\ local'[q].cost # NULL
            => StoredCost(local'[q].cost) <= MaxCost
    <2>1. CASE BeginRecord(q)
      <3>1. pc[q] = "record" /\ local'[q].cost = local[q].cost
        BY <2>1 DEF BeginRecord, Continue, Inv, TypeOK, HandlersOK, Locals
      <3> QED
        BY <3>1 DEF WithinMaxCost
    <2>2. CASE ProviderAnswers(q) /\ pc'[q] = "record"
      <3>1. PICK usage \in UsageReports :
               IF EstimationFails(usage) THEN Conclude(q, 500)
               ELSE LET costs == Estimate(route.provider, route.model, usage)
                        cost  == IF costs = {} THEN NULL
                                 ELSE CHOOSE c \in costs : TRUE
                    IN  Continue(q, "record", [NoLocals EXCEPT !.cost = cost])
        BY <2>2 DEF ProviderAnswers
      <3> DEFINE costs == Estimate(route.provider, route.model, usage)
                 cost  == IF costs = {} THEN NULL
                          ELSE CHOOSE c \in costs : TRUE
                 locals == [NoLocals EXCEPT !.cost = cost]
      <3>2. /\ ~EstimationFails(usage)
            /\ Continue(q, "record", locals)
        BY <2>2, <3>1 DEF Conclude, Inv, TypeOK, HandlersOK
      <3>3. locals.cost = cost
        BY DEF NoLocals
      <3>4. cost = NULL \/ cost \in costs
        OBVIOUS
      <3>5. route \in RouteTargets
        BY DEF Inv, TypeOK, WorldOK
      <3> HIDE DEF locals, cost
      <3>6. local'[q].cost = cost
        BY <3>2, <3>3 DEF Continue, Inv, TypeOK, HandlersOK
      <3> QED
        BY <3>2, <3>4, <3>5, <3>6, MaxCostBounds
    <2> QED
      BY <1>1, <2>1, <2>2 DEF CameFrom, WithinMaxCost
  <1> QED
    BY <1>2, <1>3 DEF WithinMaxCost

\* A decision is taken under the policy in force when it was read.
LEMMA PolicyStep ==
    ASSUME Inv, [Next]_vars, NEW q \in Requests, PolicyStands(q)
    PROVE  PolicyStands(q)'
  <1> SUFFICES ASSUME changes' = 0
               PROVE  /\ pc'[q] = "spend" => InForce(q, local[q].policy)'
                      /\ (Row(q)' # NULL /\ Row(q)'.policy # NULL)
                             => InForce(q, Row(q).policy)'
    BY DEF PolicyStands
  <1>1. /\ CameFrom(q)
        /\ RowStep(q)
        /\ changes = 0
        /\ budget_policies' = budget_policies
    BY StepFrom, StepKeeps, MonthsPass
  <1>2. pc'[q] = "spend" => InForce(q, local[q].policy)'
    <2>1. CASE pc[q] = "spend" /\ local'[q] = local[q]
      BY <1>1, <2>1 DEF CameFrom, PolicyStands, InForce
    <2>2. CASE FindActivePolicy(q) /\ pc'[q] = "spend"
      BY <2>2, PolicyRead DEF InForce
    <2> QED
      BY <1>1, <2>1, <2>2 DEF CameFrom
  <1>3. (Row(q)' # NULL /\ Row(q)'.policy # NULL) => InForce(q, Row(q).policy)'
    <2>1. CASE RowKept(q)
      BY <1>1, <2>1 DEF RowKept, PolicyStands, InForce
    <2>2. CASE CurrentSpend(q)
      <3>1. /\ pc[q] = "spend"
            /\ Row(q)'.policy = local[q].policy
            /\ req' = req
        BY <2>2, NewRow
      <3> QED
        BY <1>1, <3>1 DEF PolicyStands, InForce
    <2> QED
      BY <1>1, <2>1, <2>2 DEF RowStep
  <1> QED
    BY <1>2, <1>3

----------------------------------------------------------------------------
\* Headroom

\* Requests that may still charge are in flight.
LEMMA MayChargeInFlight ==
    \A cc \in CostCenters, period \in Months :
        MayCharge(cc, period) \subseteq InFlight
  BY DEF MayCharge, InFlight, InFlightSteps, DatabaseSteps

\* With no charge counted out, only requests in flight are left.
MayChargeBounded ==
    \A cc \in CostCenters, period \in Months :
        Cardinality(MayCharge(cc, period)) <= MaxInFlight

\* That holds as long as the requests in flight are bounded.
LEMMA NothingCharged ==
    BoundedInFlight => MayChargeBounded
  <1> SUFFICES ASSUME BoundedInFlight, NEW cc \in CostCenters,
                      NEW period \in Months
               PROVE  Cardinality(MayCharge(cc, period)) <= MaxInFlight
    BY DEF MayChargeBounded
  <1>1. IsFiniteSet(InFlight)
    BY RequestsAssumption, FS_Subset DEF InFlight
  <1>2. MayCharge(cc, period) \subseteq InFlight
    BY MayChargeInFlight
  <1>3. /\ IsFiniteSet(MayCharge(cc, period))
        /\ Cardinality(MayCharge(cc, period)) <= Cardinality(InFlight)
    BY <1>1, <1>2, FS_Subset
  <1>4. /\ Cardinality(MayCharge(cc, period)) \in Nat
        /\ Cardinality(InFlight) \in Nat
        /\ MaxInFlight \in Nat
    BY <1>1, <1>3, FS_CardinalityType, BoundsAssumption
  <1> QED
    BY <1>3, <1>4 DEF BoundedInFlight

\* The same in the next state.
LEMMA NothingChargedNext ==
    BoundedInFlight' => MayChargeBounded'
  BY NothingCharged, PTL

\* A month that has not begun has no charge.
LEMMA FutureHeadroom ==
    ASSUME Inv', TimeInv', BoundedInFlight', NEW cc \in CostCenters,
           NEW period \in Months, ~(period <= month')
    PROVE  HasHeadroom(cc, period)'
  <1>1. Charged(cc, period)' = {}
    BY DEF Charged, TimeInv, InTime
  <1>2. Beyond({}, cc, period)' = MayCharge(cc, period)'
    BY <1>1 DEF Beyond
  <1>3. Base({}, cc, period)'
    BY <1>2, NothingChargedNext DEF Base, MayChargeBounded
  <1> QED
    BY <1>3 DEF HasHeadroom

\* An allow finds all charges of its month below the threshold: they are the
\* new base, and beyond it there are only requests in flight.
LEMMA NewHeadroom ==
    ASSUME Inv, BoundedInFlight', NEW cc \in CostCenters,
           NEW period \in Months, UNCHANGED budget_policies,
           NEW r \in Requests, CurrentSpend(r), req[r].costCenter = cc,
           local[r].period = period, InForce(r, local[r].policy),
           Row(r)'.decision = "allow"
    PROVE  HasHeadroom(cc, period)'
  <1>1. PICK base : base = Charged(cc, period)
    OBVIOUS
  <1> DEFINE policy == local[r].policy
             bound  == policy.threshold * policy.limit
  <1>2. Charges(r, period, Requests) = base
    BY <1>1 DEF Charges, Charged
  <1>3. /\ Verdict(policy, SnapshotOf(base)) = "allow"
        /\ policy \in BudgetPolicies
        /\ UNCHANGED <<req, usage_records>>
    BY <1>2, NewRow
  <1>4. /\ base \in SUBSET Requests
        /\ \A q \in base : usage_records[q] # NULL
    BY <1>1 DEF Charged
  <1>5. Spent(base) \in Nat
    BY <1>4, SpentMonotone
  <1>6. bound \in Nat
    BY <1>3 DEF BudgetPolicies
  <1>7. ~(Spent(base) * 100 >= bound)
    BY <1>3 DEF Verdict, ReachesThreshold, SnapshotOf
  <1>8. Spent(base) * 100 < bound
    <2> HIDE DEF bound
    <2> QED
      BY <1>5, <1>6, <1>7
  <1>9. Spent(base)' = Spent(base)
    BY <1>3, <1>4, SnapshotKept
  <1>10. Charged(cc, period)' = base
    BY <1>1, <1>3 DEF Charged
  <1>11. Beyond(base, cc, period)' = MayCharge(cc, period)'
    BY <1>10 DEF Beyond
  <1>12. budget_policies'[cc] = policy
    BY DEF InForce
  <1>13. Base(base, cc, period)'
    BY <1>8, <1>9, <1>10, <1>11, <1>12, NothingChargedNext
    DEF Base, MayChargeBounded
  <1> QED
    BY <1>4, <1>13 DEF HasHeadroom

\* Without a new allow of that month nobody becomes able to charge.
LEMMA NoNewcomer ==
    ASSUME Inv, [Next]_vars, NEW cc \in CostCenters, NEW period \in Months,
           period <= month', NEW q \in MayCharge(cc, period)',
           ~(/\ CurrentSpend(q)
             /\ req[q].costCenter = cc
             /\ local[q].period = period
             /\ Row(q)'.decision = "allow")
    PROVE  q \in MayCharge(cc, period)
  <1>1. /\ q \in Requests
        /\ req'[q].costCenter = cc
    BY DEF MayCharge
  <1>2. CameFrom(q) /\ RowStep(q)
    BY <1>1, StepFrom, StepKeeps
  <1>3. CASE pc'[q] = "spend" /\ local'[q].period < period
    <2>1. CASE pc[q] = "spend" /\ local'[q] = local[q]
      BY <1>1, <1>2, <1>3, <2>1 DEF CameFrom, MayCharge
    <2>2. CASE FindActivePolicy(q)
      <3>1. local'[q].period = month /\ month' = month
        BY <1>1, <1>3, <2>2, PolicyRead
      <3>2. month \in Int /\ period \in Int
        BY MonthsPass DEF Months
      <3> QED
        BY <1>3, <3>1, <3>2
    <2> QED
      BY <1>2, <1>3, <2>1, <2>2 DEF CameFrom
  <1>4. CASE /\ pc'[q] \in {"decide", "call", "record", "commit"}
             /\ Row(q)' # NULL
             /\ Row(q)'.decision = "allow"
             /\ Row(q)'.period <= period
    <2>1. CASE CurrentSpend(q)
      <3>1. /\ Row(q)'.period = local[q].period
            /\ pc[q] = "spend"
            /\ req' = req
        BY <1>1, <2>1, NewRow
      <3>2. local[q].period \in Int /\ period \in Int
        BY <1>1 DEF Inv, TypeOK, HandlersOK, Locals, Months
      <3>3. local[q].period < period
        BY <1>1, <1>4, <2>1, <3>1, <3>2
      <3> QED
        BY <1>1, <3>1, <3>3 DEF MayCharge
    <2>2. CASE RowKept(q) /\ ~CurrentSpend(q)
      <3>1. /\ Row(q) # NULL
            /\ Row(q).decision = "allow"
            /\ Row(q).period <= period
            /\ req'[q] = req[q]
        BY <1>4, <2>2 DEF RowKept
      <3>2. pc[q] \notin {"policy", "spend"}
        BY <1>1, <3>1 DEF Row, Inv, StepEvidence
      <3>3. pc[q] \in {"decide", "call", "record", "commit"}
        BY <1>2, <1>4, <2>2, <3>2 DEF CameFrom, FindActivePolicy,
           RecordDecision, ProviderAnswers, BeginRecord
      <3> QED
        BY <1>1, <3>1, <3>3 DEF MayCharge
    <2> QED
      BY <1>2, <1>4, <2>1, <2>2 DEF RowStep
  <1> QED
    BY <1>3, <1>4 DEF MayCharge

\* A new charge comes from a request that was able to leave it.
LEMMA ChargeExpected ==
    ASSUME Inv, TimeInv, [Next]_vars, NEW cc, NEW period \in Months,
           NEW q \in Charged(cc, period)'
    PROVE  q \in Charged(cc, period) \/ q \in MayCharge(cc, period)
  <1>1. /\ q \in Requests
        /\ usage_records'[q] # NULL
        /\ usage_records'[q].month = period
        /\ req'[q].costCenter = cc
    BY DEF Charged
  <1>2. CameFrom(q) /\ Final(q)
    BY <1>1, StepFrom, StepKeeps
  <1>3. CASE usage_records'[q] = usage_records[q]
    BY <1>1, <1>2, <1>3 DEF Final, Charged
  <1>4. CASE CommitRecord(q)
    <2>1. pc[q] = "commit" /\ usage_records'[q].month = local[q].txMonth
      BY <1>1, <1>4 DEF CommitRecord, Inv, TypeOK, TablesOK
    <2>2. /\ Row(q) # NULL
          /\ Row(q).decision = "allow"
      BY <1>1, <2>1 DEF Row, Inv, StepEvidence
    <2>3. Row(q).period <= period
      BY <1>1, <2>1 DEF TimeInv, InTime
    <2>4. req'[q] = req[q]
      BY <1>2, <2>1 DEF CameFrom
    <2> QED
      BY <1>1, <2>1, <2>2, <2>3, <2>4 DEF MayCharge
  <1> QED
    BY <1>2, <1>3, <1>4 DEF CameFrom

\* A base stays a base while nobody new can charge.
LEMMA BaseKept ==
    ASSUME Inv, TimeInv, [Next]_vars, UNCHANGED budget_policies,
           NEW cc \in CostCenters, NEW period \in Months,
           NEW base \in SUBSET Requests, Base(base, cc, period),
           MayCharge(cc, period)' \subseteq MayCharge(cc, period)
    PROVE  Base(base, cc, period)'
  <1>1. \A q \in Charged(cc, period) : /\ usage_records'[q] = usage_records[q]
                                       /\ req'[q] = req[q]
    BY StepKeeps DEF Charged, Final
  <1>2. Charged(cc, period) \subseteq Charged(cc, period)'
    BY <1>1 DEF Charged
  <1>3. base \subseteq Charged(cc, period)
    BY DEF Base
  <1>4. Spent(base)' = Spent(base)
    BY <1>1, <1>3, SnapshotKept
  <1>5. Beyond(base, cc, period)' \subseteq Beyond(base, cc, period)
    BY ChargeExpected DEF Beyond
  <1>6. IsFiniteSet(Beyond(base, cc, period))
    <2>1. Beyond(base, cc, period) \subseteq Requests
      BY DEF Beyond, Charged, MayCharge
    <2> QED
      BY <2>1, RequestsAssumption, FS_Subset
  <1>7. /\ Cardinality(Beyond(base, cc, period)')
              <= Cardinality(Beyond(base, cc, period))
        /\ Cardinality(Beyond(base, cc, period)') \in Nat
        /\ Cardinality(Beyond(base, cc, period)) \in Nat
    BY <1>5, <1>6, FS_Subset, FS_CardinalityType
  <1>8. Cardinality(Beyond(base, cc, period)') <= MaxInFlight
    BY <1>7, BoundsAssumption DEF Base
  <1> QED
    BY <1>2, <1>3, <1>4, <1>8 DEF Base

\* Every step leaves headroom, or SetPolicy ended the period of standstill.
LEMMA HeadroomStep ==
    ASSUME Inv, Inv', OvershootInv, BoundedInFlight', TimeInv', [Next]_vars,
           changes' = 0, NEW cc \in CostCenters, NEW period \in Months
    PROVE  HasHeadroom(cc, period)'
  <1>1. changes = 0 /\ budget_policies' = budget_policies
    BY MonthsPass
  <1>2. CASE ~(period <= month')
    BY <1>2, FutureHeadroom
  <1>3. CASE \E r \in Requests : /\ CurrentSpend(r)
                                 /\ req[r].costCenter = cc
                                 /\ local[r].period = period
                                 /\ Row(r)'.decision = "allow"
    <2>1. PICK r \in Requests : /\ CurrentSpend(r)
                                /\ req[r].costCenter = cc
                                /\ local[r].period = period
                                /\ Row(r)'.decision = "allow"
      BY <1>3
    <2>2. InForce(r, local[r].policy)
      BY <1>1, <2>1 DEF CurrentSpend, OvershootInv, PolicyStands
    <2> QED
      BY <1>1, <2>1, <2>2, NewHeadroom
  <1>4. CASE /\ period <= month'
             /\ ~ \E r \in Requests : /\ CurrentSpend(r)
                                      /\ req[r].costCenter = cc
                                      /\ local[r].period = period
                                      /\ Row(r)'.decision = "allow"
    <2>1. MayCharge(cc, period)' \subseteq MayCharge(cc, period)
      <3>1. \A q \in MayCharge(cc, period)' : q \in Requests
        BY DEF MayCharge
      <3> QED
        BY <1>4, <3>1, NoNewcomer
    <2>2. PICK base \in SUBSET Requests : Base(base, cc, period)
      BY <1>1 DEF OvershootInv, HasHeadroom
    <2>3. Base(base, cc, period)'
      BY <1>1, <2>1, <2>2, BaseKept DEF OvershootInv
    <2> QED
      BY <2>3 DEF HasHeadroom
  <1> QED
    BY <1>2, <1>3, <1>4

----------------------------------------------------------------------------
\* The theorem

\* The whole invariant is kept by every step.
LEMMA OvershootStep ==
    ASSUME Inv, Inv', OvershootInv, [Next]_vars
    PROVE  OvershootInv'
  <1>1. BoundedInFlight'
    BY InFlightStep DEF OvershootInv
  <1>2. TimeInv'
    BY TimeStep DEF OvershootInv
  <1>3. \A r \in Requests : WithinMaxCost(r)'
    BY MaxCostStep DEF OvershootInv
  <1>4. \A r \in Requests : PolicyStands(r)'
    BY PolicyStep DEF OvershootInv
  <1>5. ASSUME changes' = 0, NEW cc \in CostCenters, NEW period \in Months
        PROVE  HasHeadroom(cc, period)'
    BY <1>1, <1>2, <1>5, HeadroomStep
  <1> QED
    BY <1>1, <1>2, <1>3, <1>4, <1>5 DEF OvershootInv

\* It holds when the process first starts: no request has arrived.
LEMMA OvershootInit ==
    Init => OvershootInv
  <1> SUFFICES ASSUME Init PROVE OvershootInv
    OBVIOUS
  <1> USE DEF Init
  <1>1. \A r \in Requests : /\ pc[r] = "idle"
                            /\ Row(r) = NULL
                            /\ usage_records[r] = NULL
    BY DEF Row
  <1>2. BoundedInFlight
    <2>1. InFlight = {}
      BY DEF InFlight, InFlightSteps, DatabaseSteps
    <2> QED
      BY <2>1, FS_EmptySet, BoundsAssumption DEF BoundedInFlight
  <1>3. TimeInv
    BY <1>1 DEF TimeInv, InTime
  <1>4. \A r \in Requests : WithinMaxCost(r)
    BY <1>1 DEF WithinMaxCost
  <1>5. \A r \in Requests : PolicyStands(r)
    BY <1>1 DEF PolicyStands
  <1>6. ASSUME NEW cc \in CostCenters, NEW period \in Months
        PROVE  HasHeadroom(cc, period)
    <2>1. Beyond({}, cc, period) = {}
      BY <1>1 DEF Beyond, Charged, MayCharge
    <2>2. Base({}, cc, period)
      BY <2>1, FS_EmptySet, BoundsAssumption DEF Base
    <2> QED
      BY <2>2 DEF HasHeadroom
  <1> QED
    BY <1>2, <1>3, <1>4, <1>5, <1>6 DEF OvershootInv

\* How far the spend can rise is an invariant of the specification (Arrive,
\* FindActivePolicy, CurrentSpend, CommitRecord).
THEOREM OvershootInvariance == Spec => []OvershootInv
  <1>1. Inv /\ Inv' /\ OvershootInv /\ [Next]_vars => OvershootInv'
    BY OvershootStep
  <1> QED
    BY <1>1, OvershootInit, Invariance, PTL DEF Spec

\* A charge needed an allow under the enabled policy in force, whose threshold
\* is above zero.
LEMMA ChargeUnderPolicy ==
    ASSUME Inv, ChargeInv, VerdictInv, OvershootInv, changes = 0,
           NEW cc \in CostCenters, NEW period \in Months,
           NEW q \in Charged(cc, period)
    PROVE  /\ budget_policies[cc] \in BudgetPolicies
           /\ budget_policies[cc].enabled
           /\ 0 < budget_policies[cc].threshold * budget_policies[cc].limit
  <1> DEFINE policy == Row(q).policy
             bound  == policy.threshold * policy.limit
  <1>1. q \in Requests /\ usage_records[q] # NULL /\ req[q].costCenter = cc
    BY DEF Charged
  <1>2. Row(q) # NULL /\ Row(q).decision = "allow"
    BY <1>1, StoredRow DEF Inv, AuditChain
  <1>3. policy # NULL
    BY <1>1, <1>2 DEF ChargeInv, RowAllows
  <1>4. policy = budget_policies[cc] /\ policy.enabled
    BY <1>1, <1>2, <1>3 DEF OvershootInv, PolicyStands, InForce
  <1>5. policy \in BudgetPolicies
    BY <1>1, <1>2, <1>3, RowType DEF DecisionRows
  <1>6. Verdict(policy, SnapshotOf(Row(q).counted)) = "allow"
    BY <1>1, <1>2, <1>3 DEF VerdictInv, RowVerdict
  <1>7. Spent(Row(q).counted) \in Nat
    <2>1. /\ Row(q).counted \subseteq Requests
          /\ \A s \in Row(q).counted : usage_records[s] # NULL
      BY <1>1, <1>2, <1>3 DEF ChargeInv, RowCounts, Charges
    <2> QED
      BY <2>1, SpentMonotone
  <1>8. ~(Spent(Row(q).counted) * 100 >= bound)
    BY <1>6 DEF Verdict, ReachesThreshold, SnapshotOf
  <1>9. bound \in Nat
    BY <1>5 DEF BudgetPolicies
  <1> HIDE DEF bound
  <1>10. 0 < bound
    BY <1>7, <1>8, <1>9
  <1> QED
    BY <1>4, <1>5, <1>10 DEF bound

\* What some charges spent is at most what a part of them spent and the
\* dearest charge for each of the rest.
LEMMA SpentBeyond ==
    ASSUME Inv, OvershootInv, NEW cc \in CostCenters, NEW period \in Months,
           NEW base \in SUBSET Requests, Base(base, cc, period)
    PROVE  /\ Spent(base) \in Nat
           /\ Spent(Charged(cc, period)) \in Nat
           /\ MaxInFlight * MaxCost \in Nat
           /\ Spent(Charged(cc, period))
                  <= Spent(base) + MaxInFlight * MaxCost
  <1> DEFINE all  == Charged(cc, period)
             rest == Cardinality(all \ base)
  <1>1. /\ all \in SUBSET Requests
        /\ base \in SUBSET all
        /\ \A q \in all : usage_records[q] # NULL
    BY DEF Charged, Base
  <1>2. IsFiniteSet(all)
    BY <1>1, RequestsAssumption, FS_Subset
  <1>3. MaxCost \in Nat /\ MaxInFlight \in Nat
    BY MaxCostBounds, BoundsAssumption
  <1>4. \A q \in all : Costs[q] \in 0 .. MaxCost
    <2> SUFFICES ASSUME NEW q \in all PROVE Costs[q] \in 0 .. MaxCost
      OBVIOUS
    <2>1. Costs[q] \in Nat
      BY <1>1, CostsType
    <2>2. Costs[q] <= MaxCost
      BY <1>1, <1>3 DEF Costs, KnownCost, OvershootInv, WithinMaxCost
    <2> QED
      BY <1>3, <2>1, <2>2
  <1>5. /\ Spent(all) = Total(Costs, all)
        /\ Spent(base) = Total(Costs, base)
    BY <1>1, SpentIsTotal DEF SpendIsTotal
  <1>6. Spent(base) \in Nat /\ Spent(all) \in Nat
    BY <1>1, SpentMonotone
  <1>7. rest \in Nat /\ rest <= MaxInFlight
    <2>1. /\ all \ base \subseteq Beyond(base, cc, period)
          /\ Beyond(base, cc, period) \subseteq Requests
      BY DEF Beyond, Charged, MayCharge
    <2>2. IsFiniteSet(Beyond(base, cc, period))
      BY <2>1, RequestsAssumption, FS_Subset
    <2>3. /\ rest <= Cardinality(Beyond(base, cc, period))
          /\ rest \in Nat
          /\ Cardinality(Beyond(base, cc, period)) \in Nat
      BY <2>1, <2>2, FS_Subset, FS_CardinalityType
    <2>4. Cardinality(Beyond(base, cc, period)) <= MaxInFlight
      BY DEF Base
    <2> HIDE DEF rest
    <2> QED
      BY <1>3, <2>3, <2>4
  <1>8. Spent(all) <= Spent(base) + rest * MaxCost
    <2> HIDE DEF all
    <2> QED
      BY <1>1, <1>2, <1>3, <1>4, <1>5, TotalBounded
  <1>9. /\ rest * MaxCost \in Nat
        /\ MaxInFlight * MaxCost \in Nat
        /\ rest * MaxCost <= MaxInFlight * MaxCost
    <2>1. \A i, j, k \in Nat : i <= j => i * k <= j * k
      OBVIOUS
    <2>2. \A i, k \in Nat : i * k \in Nat
      OBVIOUS
    <2> HIDE DEF rest
    <2> QED
      BY <1>3, <1>7, <2>1, <2>2
  <1> HIDE DEF all, rest
  <1>10. Spent(all) <= Spent(base) + MaxInFlight * MaxCost
    BY <1>6, <1>8, <1>9
  <1> QED
    BY <1>6, <1>9, <1>10 DEF all

\* While policies stand still, the spend of a month exceeds the threshold by
\* no more than the dearest charge for each request in flight at once, and a
\* cost center without an enabled policy is never charged (budget.Evaluate;
\* README.md, "Important MVP limitation").
THEOREM OvershootIsBounded == Spec => []OvershootBounded
  <1>1. Inv /\ ChargeInv /\ VerdictInv /\ OvershootInv => OvershootBounded
    <2> SUFFICES ASSUME Inv, ChargeInv, VerdictInv, OvershootInv, changes = 0,
                        NEW cc \in CostCenters, NEW period \in Months,
                        Spent(SpendRows(cc, period)) # 0
                 PROVE  /\ budget_policies[cc] # NULL
                        /\ budget_policies[cc].enabled
                        /\ (Spent(SpendRows(cc, period))
                                - MaxInFlight * MaxCost) * 100
                             < budget_policies[cc].threshold
                                   * budget_policies[cc].limit
      BY DEF OvershootBounded
    <2> DEFINE all   == Charged(cc, period)
               bound == budget_policies[cc].threshold
                            * budget_policies[cc].limit
    <2>1. SpendRows(cc, period) = all
      <3>1. \A q \in Requests : usage_records[q] # NULL
                                   => policy_decisions[q] # NULL
        BY NullAssumption DEF Inv, AuditChain, Decisions
      <3>2. /\ governance_requests \subseteq Requests
            /\ \A q \in Requests : usage_records[q] # NULL
                                       => q \in governance_requests
        BY <3>1 DEF Inv, AuditChain, TypeOK, TablesOK
      <3> QED
        BY <3>2 DEF SpendRows, Charged
    <2>2. Spent({}) = 0
      <3>1. IsFiniteSet({})
        BY FS_EmptySet
      <3> QED
        BY <3>1, SpentIsTotal, TotalPicked DEF SpendIsTotal
    <2>3. PICK q \in all : TRUE
      BY <2>1, <2>2
    <2>4. /\ budget_policies[cc] \in BudgetPolicies
          /\ budget_policies[cc].enabled
          /\ 0 < bound
      BY <2>3, ChargeUnderPolicy
    <2>5. PICK base \in SUBSET Requests : Base(base, cc, period)
      BY DEF OvershootInv, HasHeadroom
    <2>6. Spent(base) * 100 < bound
      BY <2>2, <2>4, <2>5 DEF Base
    <2>7. /\ Spent(base) \in Nat
          /\ Spent(all) \in Nat
          /\ MaxInFlight * MaxCost \in Nat
          /\ Spent(all) <= Spent(base) + MaxInFlight * MaxCost
      BY <2>5, SpentBeyond
    <2>8. bound \in Nat
      BY <2>4 DEF BudgetPolicies
    <2>9. (Spent(all) - MaxInFlight * MaxCost) * 100 < bound
      <3> DEFINE margin == MaxInFlight * MaxCost
      <3>1. /\ margin \in Nat
            /\ Spent(all) <= Spent(base) + margin
        BY <2>7
      <3> HIDE DEF all, bound, margin
      <3>2. (Spent(all) - margin) * 100 < bound
        BY <2>6, <2>7, <2>8, <3>1
      <3> QED
        BY <3>2 DEF margin
    <2> QED
      BY <2>1, <2>4, <2>9, NullAssumption
  <1> QED
    BY <1>1, Invariance, ChargeInvariance, VerdictInvariance,
       OvershootInvariance, PTL

----------------------------------------------------------------------------
\* What a refused column and a spelling can do to money

\* A verdict that utilization_percent cannot hold is a denial: the INSERT that
\* PostgreSQL refuses loses evidence of a denial, never that of an allow or of
\* a review (budget.Evaluate, NUMERIC(9, 4)).
THEOREM OverflowsAreDenials ==
    ASSUME NEW policy \in BudgetPolicies,
           NEW snapshot \in [spent : Nat, unknown : Nat],
           UtilizationOverflows(policy, snapshot)
    PROVE  Verdict(policy, snapshot) = "deny"
  <1>1. policy.limit \in Nat /\ snapshot.spent \in Nat
    BY DEF BudgetPolicies
  <1>2. /\ snapshot.unknown = 0
        /\ policy.limit > 0
        /\ snapshot.spent * 100 >= 100000 * policy.limit
    BY DEF UtilizationOverflows
  <1>3. snapshot.spent >= policy.limit
    BY <1>1, <1>2
  <1> QED
    BY <1>2, <1>3 DEF Verdict

\* A usage report has at most one cost, the same under every spelling of the
\* model: no choice of a name lets two requests be charged differently
\* (NewStaticCatalog, StaticCatalog.Lookup).
THEOREM OnePrice ==
    ASSUME NEW provider \in Providers, NEW usage,
           NEW one \in ModelNames, NEW other \in ModelNames,
           Normalised[one] = Normalised[other],
           NEW c \in Estimate(provider, one, usage),
           NEW d \in Estimate(provider, other, usage)
    PROVE  c = d /\ Estimate(provider, one, usage) = {c}
  <1>1. Lookup(provider, one) = Lookup(provider, other)
    BY DEF Lookup
  <1>2. \A a, b \in Lookup(provider, one) : a = b
    BY CatalogAssumption DEF Lookup
  <1> QED
    BY <1>1, <1>2 DEF Estimate
=============================================================================
