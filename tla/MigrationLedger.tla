--------------------------- MODULE MigrationLedger ---------------------------
(***************************************************************************)
(* What a migration history promises, whoever runs the migrations and      *)
(* however often: versions are applied in order, each once and for good,   *)
(* and the history is always the beginning of one of the checkouts, never  *)
(* a mixture of two.                                                       *)
(***************************************************************************)
EXTENDS Naturals, Sequences

CONSTANTS
    Versions,    \* 1 .. the highest migration number
    Checkouts,   \* sequences of migration names, by version
    NULL         \* not applied

VARIABLE ledger  \* the name that each version was applied under, or NULL

\* The history is the first n names of checkout f.
Begins(f, n) == \A v \in Versions :
                    ledger[v] = IF v <= n THEN f[v] ELSE NULL

Init == \E f \in Checkouts : \E n \in 0 .. Len(f) : Begins(f, n)

\* The next version of some checkout joins the history it begins with.
Apply(v) ==
    \E f \in Checkouts :
        /\ v <= Len(f)
        /\ Begins(f, v - 1)
        /\ ledger' = [ledger EXCEPT ![v] = f[v]]

Next == \E v \in Versions : Apply(v)

Spec == Init /\ [][Next]_ledger
=============================================================================
