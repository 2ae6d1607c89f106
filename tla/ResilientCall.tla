---------------------------- MODULE ResilientCall ----------------------------
(***************************************************************************)
(* A call of an external dependency: with_retry around CircuitBreaker.call *)
(* (ResilientChatModel.invoke, get_credit_report).  retry_on is Exception, *)
(* so that a refusal by the open breaker is retried like a failure, and    *)
(* the sleep between two attempts blocks the thread that makes the call.   *)
(***************************************************************************)
EXTENDS CircuitBreaker

CONSTANTS MaxAttempts  \* stop_after_attempt(max_attempts)

ASSUME MaxAttemptsAssumption == MaxAttempts \in Nat \ {0}

VARIABLES
    phase,     \* where the call of each thread is
    attempts   \* attempts it has made

callVars == <<phase, attempts>>
vars     == <<state, failures, age, admitted, phase, attempts>>

Phases == {"idle", "attempting", "in_call", "failed", "sleeping"}

TypeOK ==
    /\ BreakerTypeOK
    /\ phase \in [Threads -> Phases]
    /\ attempts \in [Threads -> 0..MaxAttempts]
    /\ \A t \in Threads : phase[t] = "in_call" <=> admitted[t] # "none"

Init ==
    /\ BreakerInit
    /\ phase    = [t \in Threads |-> "idle"]
    /\ attempts = [t \in Threads |-> 0]

Goto(t, p) == phase' = [phase EXCEPT ![t] = p]

Invoke(t) ==
    /\ phase[t] = "idle"
    /\ Goto(t, "attempting")
    /\ attempts' = [attempts EXCEPT ![t] = 0]
    /\ UNCHANGED breakerVars

Attempt(t) ==
    /\ phase[t] = "attempting"
    /\ Admit(t)
    /\ Goto(t, "in_call")
    /\ attempts' = [attempts EXCEPT ![t] = @ + 1]

X_RefusalNotCounted(t) ==
    /\ phase[t] = "attempting"
    /\ Refuse(t)
    /\ Goto(t, "failed")
    /\ UNCHANGED attempts

AttemptRefused(t) ==
    /\ phase[t] = "attempting"
    /\ Refuse(t)
    /\ Goto(t, "failed")
    /\ attempts' = [attempts EXCEPT ![t] = @ + 1]

CallReturns(t) ==
    /\ phase[t] = "in_call"
    /\ Succeed(t)
    /\ Goto(t, "idle")
    /\ UNCHANGED attempts

CallRaises(t) ==
    /\ phase[t] = "in_call"
    /\ Fail(t)
    /\ Goto(t, "failed")
    /\ UNCHANGED attempts

X_BackoffOnceMore(t) ==
    /\ phase[t] = "failed"
    /\ attempts[t] <= MaxAttempts
    /\ Goto(t, "sleeping")
    /\ UNCHANGED <<attempts, breakerVars>>

\* wait_exponential_jitter, as long as attempts are left.
Backoff(t) ==
    /\ phase[t] = "failed"
    /\ attempts[t] < MaxAttempts
    /\ Goto(t, "sleeping")
    /\ UNCHANGED <<attempts, breakerVars>>

Wake(t) ==
    /\ phase[t] = "sleeping"
    /\ Goto(t, "attempting")
    /\ UNCHANGED <<attempts, breakerVars>>

\* reraise=True: the last exception leaves the call.
GiveUp(t) ==
    /\ phase[t] = "failed"
    /\ attempts[t] >= MaxAttempts
    /\ Goto(t, "idle")
    /\ UNCHANGED <<attempts, breakerVars>>

CallStep(t) ==
    \/ Attempt(t) \/ AttemptRefused(t) \/ CallReturns(t) \/ CallRaises(t)
    \/ Backoff(t) \/ Wake(t) \/ GiveUp(t)

ClockStep == Tick /\ UNCHANGED callVars

\* Anybody may read the breaker's state property.
Observe == ReadState /\ UNCHANGED callVars

Next == (\E t \in Threads : Invoke(t) \/ CallStep(t)) \/ ClockStep \/ Observe

Spec == Init /\ [][Next]_vars

\* A call that has begun goes on; time passes.
FairSpec == Spec /\ (\A t \in Threads : WF_vars(CallStep(t))) /\ WF_vars(ClockStep)

-----------------------------------------------------------------------------
\* A call that gives up after failures of its own leaves the breaker open for
\* every other caller: with as many attempts as the threshold, one request that
\* always fails (an unreadable document) is enough.  True where one thread
\* calls; it is the price of retrying under the breaker.
GivingUpOpensBreaker ==
    [][ \A t \in Threads :
          phase[t] = "failed" /\ phase'[t] = "idle" /\ MaxAttempts >= FailureThreshold
            => state # "closed" ]_vars

\* Every call ends, in a result or in an exception, whatever the dependency and
\* the other callers do.
CallsEnd == \A t \in Threads : phase[t] # "idle" ~> phase[t] = "idle"
=============================================================================
