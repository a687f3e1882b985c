-------------------------------- MODULE MCPool --------------------------------
(***************************************************************************)
(* An instance of Pool for TLC.                                            *)
(***************************************************************************)
EXTENDS Pool

CONSTANTS h1, h2, c1

TwoHandlers == {h1, h2}
OneConn     == {c1}
=============================================================================
