------------------------------- MODULE FinOps -------------------------------
(***************************************************************************)
(* Pricing catalogue and cost calculator.  Source: internal/finops and the *)
(* catalogue that cmd/governance-api/main.go builds.                       *)
(*                                                                         *)
(* Money is an integer number of nano-USD: a price of p USD per million    *)
(* tokens is 1000 * p nano-USD per token, so the gpt-5-mini rates 0.25,    *)
(* 0.025 and 2.00 are exactly 250, 25 and 2000.                            *)
(***************************************************************************)
EXTENDS Integers

CONSTANTS
    ModelNames,   \* spellings of model and deployment names
    Normalised,   \* what trimming and lower-casing makes of a spelling
    Catalog       \* set of rates: [provider, model, input, cached, output]

Providers == {"mock", "azure-openai"}

Usages == [input : Int, cached : Int, output : Int]

\* NewStaticCatalog refuses negative prices and two rates with one key.
ASSUME CatalogAssumption ==
    /\ Normalised \in [ModelNames -> ModelNames]
    /\ \A rate \in Catalog :
          /\ rate.provider \in Providers
          /\ rate.model \in ModelNames
          /\ rate.input \in Nat
          /\ rate.cached \in Nat
          /\ rate.output \in Nat
    /\ \A a, b \in Catalog :
          /\ a.provider = b.provider
          /\ Normalised[a.model] = Normalised[b.model]
          => a = b

\* Rates under the pricing key of a provider and a model: none or one.
Lookup(provider, model) ==
    {rate \in Catalog : /\ rate.provider = provider
                        /\ Normalised[rate.model] = Normalised[model]}

\* Fault: cached tokens are not compared with the input tokens.
CachedUnchecked(usage) ==
    usage.input < 0 \/ usage.cached < 0 \/ usage.output < 0

\* The calculator refuses a usage report that cannot be billed.
EstimationFails(usage) ==
    \/ usage.input < 0
    \/ usage.cached < 0
    \/ usage.output < 0
    \/ usage.cached > usage.input

CostAt(rate, usage) ==
    (usage.input - usage.cached) * rate.input
        + usage.cached * rate.cached
        + usage.output * rate.output

\* The costs of a billable usage report: no element when the model has no
\* known price, one otherwise.
Estimate(provider, model, usage) ==
    {CostAt(rate, usage) : rate \in Lookup(provider, model)}

\* estimated_cost_usd is NUMERIC(18, 8): PostgreSQL rounds to 10 nano-USD,
\* half away from zero.
StoredCost(cost) == 10 * ((cost + 5) \div 10)
=============================================================================
