------------------------------- MODULE Deadlines -------------------------------
(***************************************************************************)
(* The clocks of one invocation.  The HTTP server closes a connection on   *)
(* which nothing was written WriteTimeout after the request was read; the  *)
(* provider's SDK gives each attempt AttemptTimeout and retries after a    *)
(* pause; database statements have no deadline.  The handler knows nothing *)
(* of the first clock: it stores the charge and writes a response that may *)
(* not arrive.                                                             *)
(*                                                                         *)
(*   before -> attempt (-> pause -> attempt ...) -> record -> respond      *)
(*          -> delivered or lost                                           *)
(*                                                                         *)
(* Time is in units of the instance; the client stays connected, and the   *)
(* process runs.  Source: services/governance-api, cmd and                 *)
(* internal/provider/azure_openai.go.                                      *)
(***************************************************************************)
EXTENDS Naturals

CONSTANTS
    WriteTimeout,    \* http.Server.WriteTimeout: 120 s in the code
    AttemptTimeout,  \* option.WithRequestTimeout: 60 s
    MaxRetries,      \* option.WithMaxRetries: 2
    MaxPause,        \* pause before a retry: less than 60 s by the SDK
    Horizon          \* bound: time that is modelled

ASSUME TimesAssumption ==
    {WriteTimeout, AttemptTimeout, MaxRetries, MaxPause, Horizon} \subseteq Nat

VARIABLES
    phase,    \* where the handler is
    now,      \* time since the request was read
    since,    \* time since the attempt or the pause began
    retries,  \* attempts that failed and were tried again
    charged,  \* the usage record is committed
    waited    \* history: time spent in database statements

vars == <<phase, now, since, retries, charged, waited>>

Phases == {"before", "attempt", "pause", "record", "respond", "delivered",
           "lost"}

Init ==
    /\ phase = "before"
    /\ now = 0 /\ since = 0 /\ retries = 0 /\ waited = 0
    /\ charged = FALSE

\* Time passes until the phase must end; a statement may take any time.
Tick ==
    /\ now < Horizon
    /\ \/ phase \in {"before", "record"} /\ waited' = waited + 1
       \/ /\ \/ phase = "attempt" /\ since < AttemptTimeout
             \/ phase = "pause" /\ since < MaxPause
          /\ UNCHANGED waited
    /\ now' = now + 1
    /\ since' = since + 1
    /\ UNCHANGED <<phase, retries, charged>>

Enter(next) == phase' = next /\ since' = 0

\* Both decisions are stored, or a refusal ends the request.
Decide ==
    /\ phase = "before"
    /\ Enter("attempt") \/ Enter("respond")
    /\ UNCHANGED <<now, retries, charged, waited>>

\* The provider answers in time.
Answer ==
    /\ phase = "attempt"
    /\ Enter("record")
    /\ UNCHANGED <<now, retries, charged, waited>>

\* Fault: retries are not counted.
Uncounted ==
    /\ phase = "attempt"
    /\ Enter("pause")
    /\ UNCHANGED <<now, retries, charged, waited>>

\* Fault: one retry too many.
RetriesAgain ==
    /\ phase = "attempt"
    /\ \/ retries <= MaxRetries /\ Enter("pause") /\ retries' = retries + 1
       \/ Enter("respond") /\ UNCHANGED retries
    /\ UNCHANGED <<now, charged, waited>>

\* An attempt fails or its time is up: it is tried again, or the request
\* fails with 502, at once if the error is final.
Fail ==
    /\ phase = "attempt"
    /\ \/ retries < MaxRetries /\ Enter("pause") /\ retries' = retries + 1
       \/ Enter("respond") /\ UNCHANGED retries
    /\ UNCHANGED <<now, charged, waited>>

Retry ==
    /\ phase = "pause"
    /\ Enter("attempt")
    /\ UNCHANGED <<now, retries, charged, waited>>

\* The route and the usage are committed, or the statement fails (500).
Record ==
    /\ phase = "record"
    /\ charged' \in BOOLEAN
    /\ Enter("respond")
    /\ UNCHANGED <<now, retries, waited>>

\* Fault: the write timeout of the first deployment, an eighth of today's.
EarlyDeadline ==
    /\ phase = "respond"
    /\ \/ now * 8 <= WriteTimeout /\ Enter("delivered")
       \/ now * 8 >= WriteTimeout /\ Enter("lost")
    /\ UNCHANGED <<now, retries, charged, waited>>

\* The response is written, before the deadline of the connection or after.
Respond ==
    /\ phase = "respond"
    /\ \/ now <= WriteTimeout /\ Enter("delivered")
       \/ now >= WriteTimeout /\ Enter("lost")
    /\ UNCHANGED <<now, retries, charged, waited>>

Next == Tick \/ Decide \/ Answer \/ Fail \/ Retry \/ Record \/ Respond

Spec == Init /\ [][Next]_vars

----------------------------------------------------------------------------
\* Properties

\* The variables keep their types; retries stay within the SDK's two.
TypeOK ==
    /\ phase \in Phases
    /\ now \in 0 .. Horizon
    /\ since \in 0 .. Horizon
    /\ retries \in 0 .. MaxRetries
    /\ charged \in BOOLEAN
    /\ waited \in 0 .. Horizon

\* Apart from the database, an invocation takes at most an attempt and, for
\* each retry, a pause and another one: 60 s without a retry, more than the
\* 120 s of the write timeout with two.
HandlerBounded ==
    now <= waited + AttemptTimeout + retries * (AttemptTimeout + MaxPause)

\* A response, and with it a charge, is lost to the client only if the
\* provider was retried or the database took the rest of the write timeout: a
\* first attempt of any length the SDK permits is answered (the 120 s of
\* main.go against the 60 s of NewAzureOpenAI; the 15 s that the service began
\* with did not allow it).
LostOnlyIfSlow ==
    phase = "lost" => retries > 0 \/ waited + AttemptTimeout >= WriteTimeout
=============================================================================
