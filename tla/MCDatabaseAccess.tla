--------------------------- MODULE MCDatabaseAccess ---------------------------
(***************************************************************************)
(* An instance of DatabaseAccess for TLC.                                  *)
(***************************************************************************)
EXTENDS DatabaseAccess

CONSTANTS p1, p2

TwoRuns == {p1, p2}

TwoAttempts == [k \in Kinds |-> 2]
=============================================================================
