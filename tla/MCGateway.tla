------------------------------ MODULE MCGateway ------------------------------
(***************************************************************************)
(* Values for the constants of Gateway: the catalogue and the routes that  *)
(* cmd/governance-api/main.go builds, and small sets of inputs, policies   *)
(* and usage reports.  Each .cfg chooses among them.                       *)
(***************************************************************************)
EXTENDS Gateway, TLC

CONSTANTS r1, r2, r3

OneRequest    == {r1}
TwoRequests   == {r1, r2}
ThreeRequests == {r1, r2, r3}

Symmetry == Permutations(Requests)

MCModelNames == {"mock-fast-general", "gpt-5-mini", "GPT-5-Mini", "custom"}

MCNormalised == [name \in MCModelNames |->
                    IF name = "GPT-5-Mini" THEN "gpt-5-mini" ELSE name]

MCCatalog ==
    {[provider |-> "mock", model |-> "mock-fast-general",
      input |-> 0, cached |-> 0, output |-> 0],
     [provider |-> "azure-openai", model |-> "gpt-5-mini",
      input |-> 250, cached |-> 25, output |-> 2000]}

PricedAndUnpriced == {"GPT-5-Mini", "custom"}
Priced            == {"gpt-5-mini"}

Input(api, costCenter, classification, model) ==
    [api |-> api, wellFormed |-> TRUE, costCenter |-> costCenter,
     classification |-> classification, model |-> model]

\* One input per control path of the three endpoints.
EveryPath ==
    {Input("governance", "cc1", "restricted", "fast-general"),
     Input("native", "cc1", "confidential", "fast-general"),
     Input("native", "cc1", "public", "fast-general"),
     Input("native", "", "public", "fast-general"),
     Input("native", "cc1", "public", "other-model"),
     Input("openai", "cc1", "", "fast-general"),
     [Input("openai", "cc1", "internal", "fast-general")
         EXCEPT !.wellFormed = FALSE]}

\* Inputs for the liveness run: one stops at each check, one passes.
MainPaths ==
    {Input("governance", "cc1", "public", "fast-general"),
     Input("native", "cc1", "public", "fast-general"),
     Input("native", "", "public", "fast-general"),
     Input("openai", "cc1", "confidential", "fast-general")}

\* An unknown logical model.
UnknownModel == {Input("native", "cc1", "public", "other-model")}

\* Requests that governance allows.
Allowed == {Input("native", "cc1", "public", "fast-general")}

AllowedTwoCostCenters ==
    Allowed \cup {Input("native", "cc2", "public", "fast-general")}

\* 8 tokens of input, 4 of them cached, and 2 of output cost 5100 nano-USD;
\* LargeUsage costs 12000, and one report of FaultyUsages cannot be billed.
Usage(input, cached, output) ==
    [input |-> input, cached |-> cached, output |-> output]

OneUsage        == {Usage(8, 4, 2)}
LargeUsage      == {Usage(8, 0, 5)}
FaultyUsages    == {Usage(8, 4, 2), Usage(1, 40, 1)}

Policy(limit, threshold) ==
    [enabled |-> TRUE, limit |-> limit, threshold |-> threshold]

\* A limit that one charge exceeds, and one that it exceeds a thousandfold.
TightLimits == {Policy(5000, 80), Policy(5, 80)}
\* A limit that one charge takes past the threshold, and a zero limit.
ReviewOrDeny == {Policy(6000, 80), Policy(0, 80)}
\* The same, and a disabled policy.
OrDisabled == ReviewOrDeny \cup {[Policy(0, 80) EXCEPT !.enabled = FALSE]}
\* A limit that is lowered below a thousandth of what has been spent.
LoweredLimit == {Policy(20000, 80), Policy(10, 80)}
OnePolicy   == {Policy(6000, 80)}
TwoPolicies == {Policy(6000, 80), Policy(10200, 80)}
=============================================================================
