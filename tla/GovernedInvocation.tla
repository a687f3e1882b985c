-------------------------- MODULE GovernedInvocation --------------------------
(***************************************************************************)
(* What the gateway promises of one model invocation, whatever happens to  *)
(* handlers, connections and the process: a request climbs a ladder of     *)
(* evidence one rung at a time and never steps down.                       *)
(*                                                                         *)
(*   none        nothing is on record                                      *)
(*   refused     the governance policy said review or deny      (final)    *)
(*   permitted   the governance policy said allow, on record               *)
(*   withheld    the budget said review or deny, on record      (final)    *)
(*   authorised  the budget said allow, on record                          *)
(*   executed    the provider ran the model                                *)
(*   charged     its usage and cost are on record                          *)
(*   delivered   the client was sent the model's answer         (final)    *)
(*                                                                         *)
(* README.md, "Governed request flow": review and deny fail fast, and an   *)
(* answer leaves the gateway only behind its audit trail.  A request may   *)
(* stop on any rung: nothing is promised about climbing.                   *)
(***************************************************************************)
CONSTANT Requests

VARIABLE rung

Rungs == {"none", "refused", "permitted", "withheld", "authorised",
          "executed", "charged", "delivered"}

Climb(r, from, to) ==
    /\ rung[r] = from
    /\ rung' = [rung EXCEPT ![r] = to]

Refuse(r)    == Climb(r, "none", "refused")
Permit(r)    == Climb(r, "none", "permitted")
Withhold(r)  == Climb(r, "permitted", "withheld")
Authorise(r) == Climb(r, "permitted", "authorised")
Execute(r)   == Climb(r, "authorised", "executed")
Charge(r)    == Climb(r, "executed", "charged")
Deliver(r)   == Climb(r, "charged", "delivered")

Init == rung = [r \in Requests |-> "none"]

Next == \E r \in Requests : \/ Refuse(r)
                            \/ Permit(r)
                            \/ Withhold(r)
                            \/ Authorise(r)
                            \/ Execute(r)
                            \/ Charge(r)
                            \/ Deliver(r)

Spec == Init /\ [][Next]_rung
=============================================================================
