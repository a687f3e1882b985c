----------------------------- MODULE Governance -----------------------------
(***************************************************************************)
(* The governance component: what it accepts and the baseline policy that  *)
(* classifies a request.  Source: internal/governance.                     *)
(*                                                                         *)
(* An input is a record                                                    *)
(*   api            the HTTP endpoint it arrives at                        *)
(*   wellFormed     the body decodes, and caller subject and prompt are    *)
(*                  present (the handlers' and the service's other checks) *)
(*   costCenter     the cost center after trimming, "" when there is none  *)
(*   classification the data classification, "" when there is none         *)
(*   model          the requested model, "" when there is none             *)
(***************************************************************************)

Apis == {"governance", "native", "openai"}

Decisions == {"allow", "review", "deny"}

Classifications == {"public", "internal", "confidential", "restricted"}

\* The facade's default for a missing classification header; the other two
\* endpoints hand the classification to the service as it came.
ClassificationOf(input) ==
    IF input.api = "openai" /\ input.classification = ""
    THEN "internal"
    ELSE input.classification

ValidCreateRequest(input) ==
    /\ input.wellFormed
    /\ input.model # ""
    /\ ClassificationOf(input) \in Classifications

EvaluatePolicy(classification) ==
    IF classification = "restricted" THEN "deny"
    ELSE IF classification = "confidential" THEN "review" ELSE "allow"
=============================================================================
