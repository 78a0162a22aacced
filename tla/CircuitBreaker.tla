--------------------------- MODULE CircuitBreaker ---------------------------
(***************************************************************************)
(* The circuit breaker and the retries around the calls of the model:      *)
(* agents/middlewares/llm_error_handling_middleware.py.  One instance      *)
(* serves the threads that share an agent, as those of one DeerFlowClient  *)
(* do; _circuit_lock makes each of its methods a step.                     *)
(*                                                                         *)
(* Of an error it matters whether _classify_error finds it retriable.  The *)
(* clock is reduced to whether _circuit_open_until has passed.  The ghost  *)
(* variables probes and dropped are read by properties only.               *)
(***************************************************************************)
EXTENDS Naturals

CONSTANTS
  Callers,      \* threads that call the model
  Threshold,    \* circuit_failure_threshold
  MaxAttempts,  \* retry_max_attempts
  MaxFailures   \* bound on _circuit_failure_count

ASSUME BreakerAssumption ==
  /\ Threshold \in Nat \ {0} /\ MaxAttempts \in Nat \ {0}
  /\ MaxFailures \in Nat /\ MaxFailures >= Threshold

VARIABLES
  circuit,   \* _circuit_state
  failures,  \* _circuit_failure_count
  probing,   \* _circuit_probe_in_flight
  waited,    \* time.time() >= _circuit_open_until
  attempt,   \* the attempt a caller is at, 0 when it makes no call
  probes,    \* ghost: the callers let through as probes since the circuit opened
  dropped    \* ghost: such a probe ended with nothing recorded

breakerVars == <<circuit, failures, probing, waited, attempt, probes, dropped>>

BreakerInit ==
  /\ circuit = "closed" /\ failures = 0 /\ probing = FALSE /\ waited = TRUE
  /\ attempt = [c \in Callers |-> 0]
  /\ probes = {} /\ dropped = FALSE

Calling(c) == attempt[c] > 0

Return(c) == attempt' = [attempt EXCEPT ![c] = 0]

\* The time of _circuit_open_until comes.
Elapse ==
  /\ ~waited /\ waited' = TRUE
  /\ UNCHANGED <<circuit, failures, probing, attempt, probes, dropped>>

\* _check_circuit lets a call through: always while the circuit is closed,
Pass(c) ==
  /\ ~Calling(c) /\ circuit = "closed"
  /\ attempt' = [attempt EXCEPT ![c] = 1]
  /\ UNCHANGED <<circuit, failures, probing, waited, probes, dropped>>

\* and one probe after the time it was open for.
MayProbe == (circuit = "open" /\ waited) \/ (circuit = "half_open" /\ ~probing)

Probe(c) ==
  /\ ~Calling(c) /\ MayProbe
  /\ circuit' = "half_open" /\ probing' = TRUE
  /\ attempt' = [attempt EXCEPT ![c] = 1]
  /\ probes' = probes \cup {c}
  /\ UNCHANGED <<failures, waited, dropped>>

\* Every other call is answered with the breaker's message.
Refused == circuit # "closed" /\ ~MayProbe

\* A probe is over: what is known of the probes of this opening is forgotten.
Settle == probes' = {} /\ dropped' = FALSE

\* The model answers: _record_success, whoever called.
Succeed(c) ==
  /\ Calling(c) /\ Return(c)
  /\ circuit' = "closed" /\ failures' = 0 /\ probing' = FALSE /\ waited' = TRUE
  /\ Settle

\* A retriable error before the last attempt: the caller sleeps and tries again.
Retry(c) ==
  /\ Calling(c) /\ attempt[c] < MaxAttempts
  /\ attempt' = [attempt EXCEPT ![c] = @ + 1]
  /\ UNCHANGED <<circuit, failures, probing, waited, probes, dropped>>

\* _record_failure while half open, by a probe or by a call that was let
\* through before the circuit opened: it opens again.
Reopen ==
  /\ circuit = "half_open"
  /\ circuit' = "open" /\ probing' = FALSE /\ waited' = FALSE
  /\ Settle
  /\ UNCHANGED failures

\* _record_failure otherwise: at the threshold the circuit opens, or stays
\* open for longer.
CountFailure ==
  /\ circuit # "half_open" /\ failures < MaxFailures
  /\ failures' = failures + 1
  /\ \/ /\ failures' < Threshold
        /\ UNCHANGED <<circuit, probing, waited, probes, dropped>>
     \/ /\ failures' >= Threshold
        /\ circuit' = "open" /\ waited' = FALSE
        /\ probing' = (circuit = "open" /\ probing)
        /\ UNCHANGED <<probes, dropped>>

\* A retriable error at the last attempt.
GiveUp(c) ==
  /\ attempt[c] = MaxAttempts /\ Return(c)
  /\ Reopen \/ CountFailure

(* Mutated form: the flag stays as it is. *)
BubbleUpAsIs(c) ==
  /\ Calling(c) /\ Return(c)
  /\ UNCHANGED <<circuit, failures, probing, waited, probes, dropped>>

\* GraphBubbleUp passes through and lets the next call probe.
BubbleUp(c) ==
  /\ Calling(c) /\ Return(c)
  /\ probing' = (probing /\ circuit # "half_open")
  /\ UNCHANGED <<circuit, failures, waited, probes, dropped>>

\* Any other error, and a cancellation, record nothing.
End(c) ==
  /\ Calling(c) /\ Return(c)
  /\ dropped' = (dropped \/ c \in probes)
  /\ UNCHANGED <<circuit, failures, probing, waited, probes>>

Finish(c) == Succeed(c) \/ GiveUp(c) \/ BubbleUp(c) \/ End(c)

BreakerNext ==
  \/ Elapse
  \/ \E c \in Callers : Pass(c) \/ Probe(c) \/ Retry(c) \/ Finish(c)

\* Time passes, and every call comes to an end.
BreakerFairness ==
  /\ WF_breakerVars(Elapse)
  /\ \A c \in Callers : WF_breakerVars(Retry(c) \/ Finish(c))

BreakerSpec == BreakerInit /\ [][BreakerNext]_breakerVars /\ BreakerFairness

-----------------------------------------------------------------------------
(* Properties. *)

\* The variables have their types.
BreakerTypeOK ==
  /\ circuit \in {"closed", "open", "half_open"}
  /\ failures \in 0 .. MaxFailures
  /\ probing \in BOOLEAN /\ waited \in BOOLEAN
  /\ attempt \in [Callers -> 0 .. MaxAttempts]
  /\ probes \subseteq Callers /\ dropped \in BOOLEAN

\* The circuit is closed exactly while the failures counted are below the
\* threshold: no answer, failure or interrupt of a call that was let through
\* before the circuit opened, or as a probe, leaves one without the other.
ClosedBelowThreshold == (circuit = "closed") <=> (failures < Threshold)

\* Only a probe keeps the others out of a half-open circuit: while the flag is
\* set a probe of this opening is in flight, or one ended with an error that
\* records neither a success nor a failure.
ProbeIsCarried ==
  circuit = "half_open" /\ probing => dropped \/ \E c \in probes : Calling(c)

\* "When the failure threshold is reached, subsequent calls fast-fail until
\* recovery" (config.example.yaml:1121), which is attempted after
\* recovery_timeout_sec: calls are not refused for ever.
CallsAreMade == []<>~Refused
=============================================================================
