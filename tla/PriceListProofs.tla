---------------------------- MODULE PriceListProofs ----------------------------
(***************************************************************************)
(* Theorems about PriceList for lists of any length over any names.        *)
(***************************************************************************)
EXTENDS PriceList, TLAPS

----------------------------------------------------------------------------
\* The inductive invariant

\* The catalogue is exactly the rates that the loop has passed.
Loaded ==
    /\ \A i \in 1 .. next - 1 :
           /\ ~Invalid(given[i])
           /\ KeyOf(given[i]) \in DOMAIN rates
           /\ rates[KeyOf(given[i])] = Trimmed(given[i])
    /\ \A k \in DOMAIN rates : \E i \in 1 .. next - 1 : k = KeyOf(given[i])
    /\ result = "accepted" => next = Len(given) + 1

Inv == TypeOK /\ Loaded /\ RefusedForReason

----------------------------------------------------------------------------
\* Lists and names

\* A list has rates at its positions.
LEMMA ListType ==
    ASSUME NEW list \in Lists
    PROVE  /\ Len(list) \in Nat
           /\ DOMAIN list = 1 .. Len(list)
           /\ \A i \in 1 .. Len(list) : list[i] \in Rates
  BY ListsAssumption

\* A trimmed rate is a rate with the same key and the same prices.
LEMMA TrimmedRate ==
    ASSUME NEW rate \in Rates
    PROVE  /\ Trimmed(rate) \in Rates
           /\ KeyOf(Trimmed(rate)) = KeyOf(rate)
           /\ Trimmed(rate).input = rate.input
           /\ Trimmed(rate).cached = rate.cached
           /\ Trimmed(rate).output = rate.output
  <1>1. /\ Trim[rate.provider] \in Spellings
        /\ Trim[rate.model] \in Spellings
        /\ Trim[Trim[rate.provider]] = Trim[rate.provider]
        /\ Trim[Trim[rate.model]] = Trim[rate.model]
    BY SpellingsAssumption DEF Rates
  <1>2. /\ Trimmed(rate).provider = Trim[rate.provider]
        /\ Trimmed(rate).model = Trim[rate.model]
        /\ Trimmed(rate).input = rate.input
        /\ Trimmed(rate).cached = rate.cached
        /\ Trimmed(rate).output = rate.output
        /\ Trimmed(rate) \in Rates
    BY <1>1 DEF Trimmed, Rates
  <1> QED
    BY <1>1, <1>2 DEF KeyOf, Key

----------------------------------------------------------------------------
\* The loop starts with no rate behind it.
LEMMA InitInv == Init => Inv
  <1> SUFFICES ASSUME Init PROVE Inv
    OBVIOUS
  <1>1. Len(given) \in Nat
    BY ListType DEF Init
  <1>2. DOMAIN rates = {}
    BY DEF Init
  <1> QED
    BY <1>1, <1>2 DEF Init, Inv, TypeOK, Loaded, RefusedForReason

\* A rate joins those that are loaded.
LEMMA EnterInv == ASSUME Inv, Enter PROVE Inv'
  <1> DEFINE rate == given[next]
  <1>1. /\ next \in 1 .. Len(given)
        /\ Len(given) \in Nat
        /\ rate \in Rates
        /\ given' = given /\ next' = next + 1 /\ result' = result
        /\ result = "loading"
    BY ListType DEF Inv, TypeOK, Enter
  <1>2. /\ ~Invalid(rate)
        /\ KeyOf(rate) \notin DOMAIN rates
        /\ rates' = With(rate)
    BY DEF Enter
  <1>3. /\ DOMAIN rates' = DOMAIN rates \cup {KeyOf(rate)}
        /\ rates'[KeyOf(rate)] = Trimmed(rate)
        /\ \A k \in DOMAIN rates : rates'[k] = rates[k]
    BY <1>2 DEF With
  <1>4. TypeOK'
    BY <1>1, <1>3, TrimmedRate DEF Inv, TypeOK
  <1>5. ASSUME NEW i \in 1 .. next' - 1
        PROVE  /\ ~Invalid(given[i])
               /\ KeyOf(given[i]) \in DOMAIN rates'
               /\ rates'[KeyOf(given[i])] = Trimmed(given[i])
    <2>1. CASE i = next
      BY <1>2, <1>3, <2>1
    <2>2. CASE i # next
      <3>1. i \in 1 .. next - 1
        BY <1>1, <2>2
      <3> QED
        BY <1>3, <3>1 DEF Inv, Loaded
    <2> QED
      BY <2>1, <2>2
  <1>6. ASSUME NEW k \in DOMAIN rates'
        PROVE  \E i \in 1 .. next' - 1 : k = KeyOf(given[i])
    <2>1. CASE k = KeyOf(rate)
      BY <1>1, <2>1
    <2>2. CASE k \in DOMAIN rates
      <3>1. PICK i \in 1 .. next - 1 : k = KeyOf(given[i])
        BY <2>2 DEF Inv, Loaded
      <3>2. i \in 1 .. next' - 1
        BY <1>1
      <3> QED
        BY <3>1, <3>2
    <2> QED
      BY <1>3, <2>1, <2>2
  <1>7. Loaded'
    BY <1>1, <1>5, <1>6 DEF Loaded, Invalid, KeyOf, Key, Trimmed
  <1> QED
    BY <1>1, <1>4, <1>7 DEF Inv, RefusedForReason

\* A refusal has its reason at the position of the loop.
LEMMA RefuseInv == ASSUME Inv, Refuse PROVE Inv'
  <1>1. /\ next \in 1 .. Len(given)
        /\ DOMAIN given = 1 .. Len(given)
        /\ UNCHANGED <<given, next, rates>>
        /\ result' = "refused"
    BY ListType DEF Inv, TypeOK, Refuse
  <1>2. TypeOK' /\ Loaded'
    BY <1>1 DEF Inv, TypeOK, Loaded
  <1>3. RefusedForReason'
    <2>1. CASE Invalid(given[next])
      BY <1>1, <2>1 DEF RefusedForReason
    <2>2. CASE KeyOf(given[next]) \in DOMAIN rates
      <3>1. PICK j \in 1 .. next - 1 : KeyOf(given[next]) = KeyOf(given[j])
        BY <2>2 DEF Inv, Loaded
      <3> QED
        BY <1>1, <3>1 DEF RefusedForReason
    <2> QED
      BY <2>1, <2>2 DEF Refuse
  <1> QED
    BY <1>2, <1>3 DEF Inv

\* The loop ends behind the last rate.
LEMMA AcceptInv == ASSUME Inv, Accept PROVE Inv'
  <1>1. /\ Len(given) \in Nat
        /\ next \in 1 .. Len(given) + 1
        /\ next > Len(given)
        /\ UNCHANGED <<given, next, rates>>
        /\ result' = "accepted"
    BY ListType DEF Inv, TypeOK, Accept
  <1>2. next = Len(given) + 1
    BY <1>1
  <1> QED
    BY <1>1, <1>2 DEF Inv, TypeOK, Loaded, RefusedForReason

----------------------------------------------------------------------------
\* The inductive invariant holds for every list.
THEOREM PriceListInvariance == Spec => []Inv
  <1>1. Inv /\ [Next]_vars => Inv'
    <2>1. CASE UNCHANGED vars
      BY <2>1 DEF vars, Inv, TypeOK, Loaded, RefusedForReason
    <2> QED
      BY <2>1, EnterInv, RefuseInv, AcceptInv DEF Next
  <1> QED
    BY <1>1, InitInv, PTL DEF Spec

\* The position in the list and the catalogue keep their types.
THEOREM PriceListTypeCorrect == Spec => []TypeOK
  <1>1. Inv => TypeOK
    BY DEF Inv
  <1> QED
    BY <1>1, PriceListInvariance, PTL

\* No negative price and no two rates of one key: the assumption of FinOps.
THEOREM CatalogueFit == Spec => []FinOpsAssumptions
  <1>1. Inv => FinOpsAssumptions
    <2> SUFFICES ASSUME Inv PROVE FinOpsAssumptions
      OBVIOUS
    <2>1. ASSUME NEW k \in DOMAIN rates
          PROVE  /\ KeyOf(rates[k]) = k
                 /\ rates[k].input >= 0
                 /\ rates[k].cached >= 0
                 /\ rates[k].output >= 0
      <3>1. PICK i \in 1 .. next - 1 : k = KeyOf(given[i])
        BY DEF Inv, Loaded
      <3>2. rates[k] = Trimmed(given[i]) /\ ~Invalid(given[i])
        BY <3>1 DEF Inv, Loaded
      <3>3. given[i] \in Rates
        BY <3>1, ListType DEF Inv, TypeOK
      <3>4. /\ given[i].input \in Int
            /\ given[i].cached \in Int
            /\ given[i].output \in Int
        BY <3>3, ListsAssumption DEF Rates
      <3> QED
        BY <3>1, <3>2, <3>3, <3>4, TrimmedRate DEF Invalid
    <2> QED
      BY <2>1 DEF FinOpsAssumptions
  <1> QED
    BY <1>1, PriceListInvariance, PTL

\* Every rate of an accepted list is found under every spelling of its names.
THEOREM RatesFound == Spec => []EveryRateIsFound
  <1>1. Inv => EveryRateIsFound
    <2> SUFFICES ASSUME Inv, result = "accepted", NEW i \in DOMAIN given,
                        NEW provider \in Spellings, NEW model \in Spellings,
                        Key(provider, model) = KeyOf(given[i])
                 PROVE  Lookup(provider, model) = {Trimmed(given[i])}
      BY DEF EveryRateIsFound
    <2>1. i \in 1 .. next - 1
      BY ListType DEF Inv, TypeOK, Loaded
    <2>2. /\ KeyOf(given[i]) \in DOMAIN rates
          /\ rates[KeyOf(given[i])] = Trimmed(given[i])
      BY <2>1 DEF Inv, Loaded
    <2> QED
      BY <2>2 DEF Lookup
  <1> QED
    BY <1>1, PriceListInvariance, PTL

\* A list is refused only for a bad rate or for two rates of one key.
THEOREM RefusalHasReason == Spec => []RefusedForReason
  <1>1. Inv => RefusedForReason
    BY DEF Inv
  <1> QED
    BY <1>1, PriceListInvariance, PTL
=============================================================================
