----------------------------- MODULE MCMigrations -----------------------------
(***************************************************************************)
(* An instance of Migrations for TLC: the three files of the repository,   *)
(* an older checkout, a branch with another version 2, a checkout with a   *)
(* misnamed file, and one without files.                                   *)
(***************************************************************************)
EXTENDS Migrations

CONSTANTS p1, p2

TwoRunners == {p1, p2}

MCNames == {"initial_schema", "usage_pricing_audit", "budget_guardrails",
            "branch", "mis-named"}

Main == <<"initial_schema", "usage_pricing_audit", "budget_guardrails">>

Older == SubSeq(Main, 1, 2)

Branch == <<"initial_schema", "branch", "budget_guardrails">>

Misnamed == <<"initial_schema", "mis-named">>

AllCheckouts == {Main, Older, Branch, Misnamed, <<>>}
=============================================================================
