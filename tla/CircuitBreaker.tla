--------------------------- MODULE CircuitBreaker ---------------------------
(***************************************************************************)
(* infrastructure/resilience.py, class CircuitBreaker: one breaker shared  *)
(* by the threads that call through it.  The lock is held for the check    *)
(* before the operation and for the bookkeeping after it, not for the      *)
(* operation itself, so that calls overlap.                                *)
(*                                                                         *)
(* The count of consecutive failures matters only up to the threshold and  *)
(* the time since the breaker opened only up to the recovery timeout; both *)
(* stop counting there, which loses nothing.                               *)
(***************************************************************************)
EXTENDS Integers

CONSTANTS
    Threads,           \* threads that share the breaker
    FailureThreshold,  \* failure_threshold
    RecoveryTimeout    \* recovery_timeout_seconds, in ticks of the clock

ASSUME FailureThresholdAssumption == FailureThreshold \in Nat \ {0}
ASSUME RecoveryTimeoutAssumption  == RecoveryTimeout \in Nat

VARIABLES
    state,      \* _state
    failures,   \* _consecutive_failures
    age,        \* time.monotonic() - _opened_at
    admitted    \* the state in which each thread's running call was let in

breakerVars == <<state, failures, age, admitted>>

States == {"closed", "open", "half_open"}

BreakerTypeOK ==
    /\ state \in States
    /\ failures \in 0..FailureThreshold
    /\ age \in 0..RecoveryTimeout
    /\ admitted \in [Threads -> {"none", "closed", "half_open"}]

BreakerInit ==
    /\ state    = "closed"
    /\ failures = 0
    /\ age      = 0
    /\ admitted = [t \in Threads |-> "none"]

-----------------------------------------------------------------------------
X_NeverHalfOpen == state

X_NoCooldown == IF state = "open" THEN "half_open" ELSE state

\* _maybe_transition_to_half_open: the state once it has run.
StateNow ==
    IF state = "open" /\ age >= RecoveryTimeout THEN "half_open" ELSE state

\* call, before fn(): let through.
Admit(t) ==
    /\ admitted[t] = "none"
    /\ StateNow # "open"
    /\ state'    = StateNow
    /\ admitted' = [admitted EXCEPT ![t] = StateNow]
    /\ UNCHANGED <<failures, age>>

\* call, before fn(): CircuitBreakerOpenError.
Refuse(t) ==
    /\ admitted[t] = "none"
    /\ StateNow = "open"
    /\ UNCHANGED breakerVars

X_SucceedKeepsCount(t) ==
    /\ admitted[t] # "none"
    /\ state'    = "closed"
    /\ admitted' = [admitted EXCEPT ![t] = "none"]
    /\ UNCHANGED <<failures, age>>

\* call, fn() returned.
Succeed(t) ==
    /\ admitted[t] # "none"
    /\ failures' = 0
    /\ state'    = "closed"
    /\ admitted' = [admitted EXCEPT ![t] = "none"]
    /\ UNCHANGED age

X_FailTripsLate(t) ==
    /\ admitted[t] # "none"
    /\ failures' = IF failures < FailureThreshold THEN failures + 1 ELSE failures
    /\ IF failures >= FailureThreshold
       THEN state' = "open" /\ age' = 0
       ELSE UNCHANGED <<state, age>>
    /\ admitted' = [admitted EXCEPT ![t] = "none"]

X_FailKeepsClock(t) ==
    /\ admitted[t] # "none"
    /\ failures' = IF failures < FailureThreshold THEN failures + 1 ELSE failures
    /\ state'    = IF failures' >= FailureThreshold THEN "open" ELSE state
    /\ admitted' = [admitted EXCEPT ![t] = "none"]
    /\ UNCHANGED age

\* call, fn() raised.
Fail(t) ==
    /\ admitted[t] # "none"
    /\ failures' = IF failures < FailureThreshold THEN failures + 1 ELSE failures
    /\ IF failures' >= FailureThreshold
       THEN state' = "open" /\ age' = 0
       ELSE UNCHANGED <<state, age>>
    /\ admitted' = [admitted EXCEPT ![t] = "none"]

\* The state property: reading it may move the breaker to half-open.
ReadState ==
    /\ state' = StateNow
    /\ UNCHANGED <<failures, age, admitted>>

Tick ==
    /\ age < RecoveryTimeout
    /\ age' = age + 1
    /\ UNCHANGED <<state, failures, admitted>>

BreakerNext ==
    \/ \E t \in Threads : Admit(t) \/ Refuse(t) \/ Succeed(t) \/ Fail(t)
    \/ ReadState
    \/ Tick

BreakerSpec == BreakerInit /\ [][BreakerNext]_breakerVars

-----------------------------------------------------------------------------
\* The state and the count never disagree, however calls overlap: the breaker
\* is closed exactly while fewer failures in a row than the threshold are on
\* record, so that a failed probe re-opens it and a success forgets them all.
ClosedIffBelowThreshold == state = "closed" <=> failures < FailureThreshold

\* The breaker trips on a failure and on nothing else, and the cooldown starts
\* again with it: an open breaker is never older than its last failure.
TripsOnlyOnFailure ==
    [][ state # "open" /\ state' = "open"
          => age' = 0 /\ \E t \in Threads : admitted[t] # "none" /\ admitted'[t] = "none"
      ]_breakerVars

\* An open breaker stays open for the recovery timeout ("stays OPEN for
\* recovery_timeout_seconds"), unless a call that it had let in before it opened
\* returns late and closes it.
StaysOpenForTimeout ==
    [][ state = "open" /\ state' # "open" =>
          \/ age >= RecoveryTimeout
          \/ state' = "closed" /\ \E t \in Threads : admitted[t] # "none" /\ admitted'[t] = "none"
      ]_breakerVars
=============================================================================
