------------------------------ MODULE MCDeadlines ------------------------------
(***************************************************************************)
(* Deadlines with the times of the code, in units of 15 seconds.           *)
(***************************************************************************)
EXTENDS Deadlines

Seconds(s) == s \div 15

Write   == Seconds(120)
Attempt == Seconds(60)
Pause   == Seconds(60)
=============================================================================
