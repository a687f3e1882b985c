---------------------------- MODULE DeadlineProofs ----------------------------
(***************************************************************************)
(* Theorems about Deadlines for every choice of timeouts.                  *)
(***************************************************************************)
EXTENDS Deadlines, TLAPS

----------------------------------------------------------------------------
\* The inductive invariant

\* The time that the retries so far may have taken.
Retried == retries * (AttemptTimeout + MaxPause)

\* What the clock shows in each phase.
Clock ==
    /\ since <= now /\ waited <= now
    /\ phase = "before" => now = waited /\ retries = 0
    /\ phase = "attempt" =>
           since <= AttemptTimeout /\ now <= waited + Retried + since
    /\ phase = "pause" =>
           since <= MaxPause /\ now + MaxPause <= waited + Retried + since
    /\ phase \in {"record", "respond", "delivered", "lost"} =>
           now <= waited + Retried + AttemptTimeout
    /\ phase = "pause" => retries > 0
    /\ phase = "lost" => now >= WriteTimeout

Inv == TypeOK /\ Clock

----------------------------------------------------------------------------
\* One retry more takes one attempt and one pause more.
LEMMA OneRetryMore ==
    ASSUME NEW n \in Nat, NEW c \in Nat
    PROVE  (n + 1) * c = n * c + c
  OBVIOUS

\* Every step preserves the invariant.
LEMMA NextInv == Inv /\ [Next]_vars => Inv'
  <1> SUFFICES ASSUME Inv, [Next]_vars PROVE Inv'
    OBVIOUS
  <1>0. /\ {WriteTimeout, AttemptTimeout, MaxRetries, MaxPause, Horizon}
               \subseteq Nat
        /\ {now, since, retries, waited} \subseteq Nat
        /\ Retried \in Nat
    BY TimesAssumption DEF Inv, TypeOK, Retried
  <1>1. CASE Tick
    <2>1. Retried' = Retried
      BY <1>1 DEF Tick, Retried
    <2>2. now' = now + 1 /\ since' = since + 1 /\ UNCHANGED <<phase, retries>>
      BY <1>1 DEF Tick
    <2>3. waited' \in 0 .. Horizon
      BY <1>0, <1>1 DEF Tick, Inv, TypeOK, Clock
    <2>4. TypeOK'
      BY <1>0, <1>1, <2>2, <2>3 DEF Tick, Inv, TypeOK, Clock
    <2>5. Clock'
      BY <1>0, <1>1, <2>1, <2>2 DEF Tick, Inv, TypeOK, Clock
    <2> QED
      BY <2>4, <2>5 DEF Inv
  <1>2. CASE Decide \/ Answer \/ Retry \/ Record \/ Respond
    <2>1. Retried' = Retried
      BY <1>2 DEF Decide, Answer, Retry, Record, Respond, Retried
    <2>2. charged' \in BOOLEAN
      BY <1>2 DEF Decide, Answer, Retry, Record, Respond, Inv, TypeOK
    <2>3. /\ UNCHANGED <<now, retries, waited>>
          /\ since' = 0
      BY <1>2 DEF Decide, Answer, Retry, Record, Respond, Enter
    <2>4. phase' \in Phases
      BY <1>2 DEF Decide, Answer, Retry, Record, Respond, Enter, Phases
    <2>5. TypeOK'
      BY <1>0, <2>2, <2>3, <2>4 DEF Inv, TypeOK
    <2>6. Clock'
      <3>1. CASE Decide
        BY <1>0, <2>1, <2>3, <3>1 DEF Decide, Enter, Inv, Clock
      <3>2. CASE Answer
        BY <1>0, <2>1, <2>3, <3>2 DEF Answer, Enter, Inv, Clock
      <3>3. CASE Retry
        BY <1>0, <2>1, <2>3, <3>3 DEF Retry, Enter, Inv, Clock
      <3>4. CASE Record
        BY <1>0, <2>1, <2>3, <3>4 DEF Record, Enter, Inv, Clock
      <3>5. CASE Respond
        BY <1>0, <2>1, <2>3, <3>5 DEF Respond, Enter, Inv, Clock
      <3> QED
        BY <1>2, <3>1, <3>2, <3>3, <3>4, <3>5
    <2> QED
      BY <2>5, <2>6 DEF Inv
  <1>3. CASE Fail
    <2>1. CASE retries' = retries + 1 /\ Enter("pause") /\ retries < MaxRetries
      <3>1. Retried' = Retried + (AttemptTimeout + MaxPause)
        BY <1>0, <2>1, OneRetryMore DEF Retried
      <3> QED
        BY <1>0, <1>3, <2>1, <3>1 DEF Fail, Enter, Inv, TypeOK, Phases, Clock
    <2>2. CASE UNCHANGED retries /\ Enter("respond")
      <3>1. Retried' = Retried
        BY <2>2 DEF Retried
      <3> QED
        BY <1>0, <1>3, <2>2, <3>1 DEF Fail, Enter, Inv, TypeOK, Phases, Clock
    <2> QED
      BY <1>3, <2>1, <2>2 DEF Fail
  <1>4. CASE UNCHANGED vars
    BY <1>4 DEF vars, Inv, TypeOK, Clock, Retried
  <1> QED
    BY <1>1, <1>2, <1>3, <1>4 DEF Next

----------------------------------------------------------------------------
\* The inductive invariant holds whatever the timeouts are.
THEOREM DeadlineInvariance == Spec => []Inv
  <1>1. Init => Inv
    <2> SUFFICES ASSUME Init PROVE Inv
      OBVIOUS
    <2>1. retries = 0 /\ Retried = 0 * (AttemptTimeout + MaxPause)
      BY DEF Init, Retried
    <2>2. Retried = 0
      BY <2>1, TimesAssumption
    <2>3. TypeOK
      <3>1. /\ now \in 0 .. Horizon /\ since \in 0 .. Horizon
            /\ waited \in 0 .. Horizon /\ retries \in 0 .. MaxRetries
        BY TimesAssumption DEF Init
      <3>2. phase \in Phases /\ charged \in BOOLEAN
        BY DEF Init, Phases
      <3> QED
        BY <3>1, <3>2 DEF TypeOK
    <2>4. Clock
      BY <2>2, TimesAssumption DEF Init, Clock
    <2> QED
      BY <2>3, <2>4 DEF Inv
  <1> QED
    BY <1>1, NextInv, PTL DEF Spec

\* The variables keep their types.
THEOREM DeadlineTypeCorrect == Spec => []TypeOK
  <1>1. Inv => TypeOK
    BY DEF Inv
  <1> QED
    BY <1>1, DeadlineInvariance, PTL

\* An invocation outlasts its database statements by no more than the attempts
\* and pauses of the provider's SDK.
THEOREM HandlerIsBounded == Spec => []HandlerBounded
  <1>1. Inv => HandlerBounded
    <2> SUFFICES ASSUME Inv PROVE HandlerBounded
      OBVIOUS
    <2>1. /\ {AttemptTimeout, MaxPause} \subseteq Nat
          /\ {now, since, retries, waited} \subseteq Nat
          /\ Retried \in Nat
      BY TimesAssumption DEF Inv, TypeOK, Retried
    <2>2. now <= waited + AttemptTimeout + Retried
      BY <2>1 DEF Inv, TypeOK, Phases, Clock
    <2> QED
      BY <2>2 DEF HandlerBounded, Retried
  <1> QED
    BY <1>1, DeadlineInvariance, PTL

\* Whatever the timeouts are, a response is lost only if the provider was
\* retried or the database took what the first attempt had left.
THEOREM LossIsExplained == Spec => []LostOnlyIfSlow
  <1>1. Inv => LostOnlyIfSlow
    <2> SUFFICES ASSUME Inv, phase = "lost", retries = 0
                 PROVE  waited + AttemptTimeout >= WriteTimeout
      BY DEF Inv, TypeOK, LostOnlyIfSlow
    <2>1. Retried = 0
      BY TimesAssumption DEF Retried
    <2> QED
      BY <2>1, TimesAssumption DEF Inv, TypeOK, Clock
  <1> QED
    BY <1>1, DeadlineInvariance, PTL
=============================================================================
