------------------------------- MODULE PriceList -------------------------------
(***************************************************************************)
(* How the price catalogue comes to be: NewStaticCatalog goes through the  *)
(* rates it is given, trims their names, refuses what it must not price    *)
(* with, and enters the others under a key that ignores case.  FinOps      *)
(* assumes of its catalogue what this module shows.                        *)
(* Source: services/governance-api/internal/finops/pricing.go.             *)
(***************************************************************************)
EXTENDS Integers, Sequences

CONSTANTS
    Spellings,  \* provider and model names as they may be written
    Trim,       \* strings.TrimSpace of each
    Lower,      \* strings.ToLower of each
    BLANK,      \* the empty string
    Prices,     \* prices that rates may carry
    Lists       \* lists of rates that may be given

Rates == [provider : Spellings, model : Spellings,
          input : Prices, cached : Prices, output : Prices]

\* Trimming a trimmed name changes nothing.
ASSUME SpellingsAssumption ==
    /\ BLANK \in Spellings
    /\ Trim \in [Spellings -> Spellings]
    /\ Lower \in [Spellings -> Spellings]
    /\ \A s \in Spellings : Trim[Trim[s]] = Trim[s]

ASSUME ListsAssumption == Prices \subseteq Int /\ Lists \subseteq Seq(Rates)

VARIABLES
    given,   \* the list
    next,    \* the position of the loop
    rates,   \* the rates by key
    result   \* "loading", "accepted", or "refused"

vars == <<given, next, rates, result>>

\* pricingKey: the names with a separator that occurs in neither.
Key(provider, model) == <<Lower[Trim[provider]], Lower[Trim[model]]>>

KeyOf(rate) == Key(rate.provider, rate.model)

Trimmed(rate) == [rate EXCEPT !.provider = Trim[@], !.model = Trim[@]]

\* Fault: only blank names are refused.
OnlyBlank(rate) == BLANK \in {Trim[rate.provider], Trim[rate.model]}

\* Names and prices that NewStaticCatalog refuses.
Invalid(rate) ==
    \/ BLANK \in {Trim[rate.provider], Trim[rate.model]}
    \/ rate.input < 0
    \/ rate.cached < 0
    \/ rate.output < 0

\* The rates with one more, in place of one that has its key.
With(rate) == [k \in DOMAIN rates \cup {KeyOf(rate)} |->
                  IF k = KeyOf(rate) THEN Trimmed(rate) ELSE rates[k]]

Init ==
    /\ given \in Lists
    /\ next = 1
    /\ rates = <<>>
    /\ result = "loading"

\* Fault: a second rate replaces the first.
Overwrites ==
    /\ result = "loading" /\ next <= Len(given)
    /\ LET rate == given[next] IN
           /\ ~Invalid(rate)
           /\ rates' = With(rate)
    /\ next' = next + 1
    /\ UNCHANGED <<given, result>>

\* Fault: the loop skips the rate after each.
EnterEverySecond ==
    /\ result = "loading" /\ next <= Len(given)
    /\ LET rate == given[next] IN
           /\ ~Invalid(rate)
           /\ KeyOf(rate) \notin DOMAIN rates
           /\ rates' = With(rate)
    /\ next' = next + 2
    /\ UNCHANGED <<given, result>>

\* A rate with a new key is entered, with trimmed names.
Enter ==
    /\ result = "loading" /\ next <= Len(given)
    /\ LET rate == given[next] IN
           /\ ~Invalid(rate)
           /\ KeyOf(rate) \notin DOMAIN rates
           /\ rates' = With(rate)
    /\ next' = next + 1
    /\ UNCHANGED <<given, result>>

\* Fault: a provider cannot have a model that another provider has.
RefuseSameModel ==
    /\ result = "loading" /\ next <= Len(given)
    /\ \/ Invalid(given[next])
       \/ \E k \in DOMAIN rates : k[2] = KeyOf(given[next])[2]
    /\ result' = "refused"
    /\ UNCHANGED <<given, next, rates>>

\* One bad rate and there is no catalogue: main exits.
Refuse ==
    /\ result = "loading" /\ next <= Len(given)
    /\ \/ Invalid(given[next])
       \/ KeyOf(given[next]) \in DOMAIN rates
    /\ result' = "refused"
    /\ UNCHANGED <<given, next, rates>>

Accept ==
    /\ result = "loading" /\ next > Len(given)
    /\ result' = "accepted"
    /\ UNCHANGED <<given, next, rates>>

Next == Enter \/ Refuse \/ Accept

Spec == Init /\ [][Next]_vars

\* StaticCatalog.Lookup: no rate or one.
Lookup(provider, model) ==
    {rates[k] : k \in DOMAIN rates \cap {Key(provider, model)}}

----------------------------------------------------------------------------
\* Properties

\* The loop stays in the list and the catalogue holds rates.
TypeOK ==
    /\ given \in Lists
    /\ next \in 1 .. Len(given) + 1
    /\ \A k \in DOMAIN rates : rates[k] \in Rates
    /\ result \in {"loading", "accepted", "refused"}

\* What FinOps, and the charges proved about Gateway, assume of a catalogue:
\* no negative price, and no two rates for one provider and model, in whatever
\* case and with whatever blanks they are written.
FinOpsAssumptions ==
    \A j \in DOMAIN rates :
        /\ rates[j].input >= 0 /\ rates[j].cached >= 0 /\ rates[j].output >= 0
        /\ \A k \in DOMAIN rates : KeyOf(rates[j]) = KeyOf(rates[k]) => j = k

\* A catalogue that is accepted prices every rate of the list as it was given:
\* none is shadowed by another, none is lost, and every other spelling of its
\* names finds it too.
EveryRateIsFound ==
    result = "accepted" =>
        \A i \in DOMAIN given : \A provider, model \in Spellings :
            Key(provider, model) = KeyOf(given[i]) =>
                Lookup(provider, model) = {Trimmed(given[i])}

\* A list is refused only for a reason: a bad rate, or two rates of one key.
RefusedForReason ==
    result = "refused" =>
        \E i \in DOMAIN given :
            \/ Invalid(given[i])
            \/ \E j \in 1 .. i - 1 : KeyOf(given[i]) = KeyOf(given[j])
=============================================================================
