------------------------- MODULE ResilientCall_proofs -------------------------
(***************************************************************************)
(* Proofs about CircuitBreaker, and about ResilientCall around it, for any *)
(* threads, threshold, timeout and number of attempts.                     *)
(***************************************************************************)
EXTENDS ResilientCall, TLAPS

\* Every variable of the breaker keeps its type: no overlap of calls takes the
\* count past the threshold or lets a thread in twice.
THEOREM BreakerTypeCorrect == BreakerSpec => []BreakerTypeOK
<1>1. BreakerInit => BreakerTypeOK
  BY FailureThresholdAssumption, RecoveryTimeoutAssumption
  DEF BreakerInit, BreakerTypeOK, States
<1>2. BreakerTypeOK /\ [BreakerNext]_breakerVars => BreakerTypeOK'
  <2> SUFFICES ASSUME BreakerTypeOK, [BreakerNext]_breakerVars
               PROVE  BreakerTypeOK'
    OBVIOUS
  <2> USE FailureThresholdAssumption, RecoveryTimeoutAssumption DEF BreakerTypeOK, States
  <2>1. ASSUME NEW t \in Threads, Admit(t)
        PROVE  BreakerTypeOK'
    BY <2>1 DEF Admit, StateNow
  <2>2. ASSUME NEW t \in Threads, Refuse(t)
        PROVE  BreakerTypeOK'
    BY <2>2 DEF Refuse, breakerVars
  <2>3. ASSUME NEW t \in Threads, Succeed(t)
        PROVE  BreakerTypeOK'
    BY <2>3 DEF Succeed
  <2>4. ASSUME NEW t \in Threads, Fail(t)
        PROVE  BreakerTypeOK'
    BY <2>4 DEF Fail
  <2>5. CASE ReadState
    BY <2>5 DEF ReadState, StateNow
  <2>6. CASE Tick
    BY <2>6 DEF Tick
  <2>7. CASE UNCHANGED breakerVars
    BY <2>7 DEF breakerVars
  <2> QED
    BY <2>1, <2>2, <2>3, <2>4, <2>5, <2>6, <2>7 DEF BreakerNext
<1> QED
  BY <1>1, <1>2, PTL DEF BreakerSpec

\* The breaker is closed exactly while its count of failures in a row is below
\* the threshold (CircuitBreaker.call's two critical sections), for any threads.
THEOREM ClosedIffBelowThresholdCorrect == BreakerSpec => []ClosedIffBelowThreshold
<1>1. BreakerInit => ClosedIffBelowThreshold
  BY FailureThresholdAssumption DEF BreakerInit, ClosedIffBelowThreshold
<1>2. BreakerTypeOK /\ ClosedIffBelowThreshold /\ [BreakerNext]_breakerVars
        => ClosedIffBelowThreshold'
  <2> SUFFICES ASSUME BreakerTypeOK, ClosedIffBelowThreshold, [BreakerNext]_breakerVars
               PROVE  ClosedIffBelowThreshold'
    OBVIOUS
  <2> USE FailureThresholdAssumption DEF BreakerTypeOK, States, ClosedIffBelowThreshold
  <2>1. ASSUME NEW t \in Threads, Admit(t)
        PROVE  ClosedIffBelowThreshold'
    BY <2>1 DEF Admit, StateNow
  <2>2. ASSUME NEW t \in Threads, Refuse(t)
        PROVE  ClosedIffBelowThreshold'
    BY <2>2 DEF Refuse, breakerVars
  <2>3. ASSUME NEW t \in Threads, Succeed(t)
        PROVE  ClosedIffBelowThreshold'
    BY <2>3 DEF Succeed
  <2>4. ASSUME NEW t \in Threads, Fail(t)
        PROVE  ClosedIffBelowThreshold'
    BY <2>4 DEF Fail
  <2>5. CASE ReadState
    BY <2>5 DEF ReadState, StateNow
  <2>6. CASE Tick
    BY <2>6 DEF Tick
  <2>7. CASE UNCHANGED breakerVars
    BY <2>7 DEF breakerVars
  <2> QED
    BY <2>1, <2>2, <2>3, <2>4, <2>5, <2>6, <2>7 DEF BreakerNext
<1> QED
  BY <1>1, <1>2, BreakerTypeCorrect, PTL DEF BreakerSpec

\* However calls overlap, the breaker opens by a failure only, and its cooldown
\* starts with it (_opened_at is set wherever _state becomes OPEN).
THEOREM TripsOnlyOnFailureCorrect == BreakerSpec => TripsOnlyOnFailure
<1>1. ASSUME BreakerTypeOK, [BreakerNext]_breakerVars, state # "open", state' = "open"
      PROVE  age' = 0 /\ \E t \in Threads : admitted[t] # "none" /\ admitted'[t] = "none"
  <2> USE <1>1 DEF BreakerTypeOK, States
  <2>1. PICK t \in Threads : Fail(t)
    BY DEF BreakerNext, breakerVars, Admit, Refuse, Succeed, ReadState, Tick, StateNow
  <2> QED
    BY <2>1 DEF Fail
<1>2. BreakerTypeOK /\ [BreakerNext]_breakerVars
        => [ state # "open" /\ state' = "open"
               => age' = 0 /\ \E t \in Threads : admitted[t] # "none" /\ admitted'[t] = "none"
           ]_breakerVars
  BY <1>1
<1> QED
  BY <1>2, BreakerTypeCorrect, PTL DEF BreakerSpec, TripsOnlyOnFailure

\* However calls overlap, an open breaker leaves that state only when its recovery
\* timeout is over or with the late result of a call admitted before it opened.
THEOREM StaysOpenForTimeoutCorrect == BreakerSpec => StaysOpenForTimeout
<1>1. ASSUME BreakerTypeOK, [BreakerNext]_breakerVars, state = "open", state' # "open"
      PROVE  \/ age >= RecoveryTimeout
             \/ state' = "closed" /\ \E t \in Threads : admitted[t] # "none" /\ admitted'[t] = "none"
  <2> USE <1>1 DEF BreakerTypeOK, States
  <2>1. CASE \E t \in Threads : Succeed(t)
    BY <2>1 DEF Succeed
  <2>2. CASE ~\E t \in Threads : Succeed(t)
    BY <2>2 DEF BreakerNext, Admit, Refuse, Fail, ReadState, Tick, StateNow, breakerVars
  <2> QED
    BY <2>1, <2>2
<1>2. BreakerTypeOK /\ [BreakerNext]_breakerVars
        => [ state = "open" /\ state' # "open" =>
               \/ age >= RecoveryTimeout
               \/ /\ state' = "closed"
                  /\ \E t \in Threads : admitted[t] # "none" /\ admitted'[t] = "none" ]_breakerVars
  BY <1>1
<1> QED
  BY <1>2, BreakerTypeCorrect, PTL DEF BreakerSpec, StaysOpenForTimeout

\* Where one thread calls, as in the event loop of the API, an open breaker
\* stays open for its recovery timeout without exception: nobody is still inside
\* a call that could close it.
THEOREM OneThreadStaysOpen ==
    ASSUME \A t, u \in Threads : t = u
    PROVE  BreakerSpec
             => [][ state = "open" /\ state' # "open" => age >= RecoveryTimeout ]_breakerVars
<1> DEFINE NobodyInside == state = "open" => \A t \in Threads : admitted[t] = "none"
<1>1. BreakerInit => NobodyInside
  BY DEF BreakerInit
<1>2. BreakerTypeOK /\ NobodyInside /\ [BreakerNext]_breakerVars => NobodyInside'
  <2> SUFFICES ASSUME BreakerTypeOK, NobodyInside, [BreakerNext]_breakerVars
               PROVE  NobodyInside'
    OBVIOUS
  <2> USE DEF BreakerTypeOK, States
  <2>1. ASSUME NEW t \in Threads, Admit(t) PROVE NobodyInside'
    BY <2>1 DEF Admit, StateNow
  <2>2. ASSUME NEW t \in Threads, Succeed(t) PROVE NobodyInside'
    BY <2>2 DEF Succeed
  <2>3. ASSUME NEW t \in Threads, Fail(t) PROVE NobodyInside'
    BY <2>3 DEF Fail
  <2>4. CASE ReadState
    BY <2>4 DEF ReadState, StateNow
  <2>5. CASE Tick \/ UNCHANGED breakerVars \/ \E t \in Threads : Refuse(t)
    BY <2>5 DEF Tick, Refuse, breakerVars
  <2> QED
    BY <2>1, <2>2, <2>3, <2>4, <2>5 DEF BreakerNext
<1>3. BreakerTypeOK /\ NobodyInside /\ [BreakerNext]_breakerVars
        => [ state = "open" /\ state' # "open" => age >= RecoveryTimeout ]_breakerVars
  <2> SUFFICES ASSUME BreakerTypeOK, NobodyInside, BreakerNext, state = "open", state' # "open"
               PROVE  age >= RecoveryTimeout
    OBVIOUS
  <2> QED
    BY DEF BreakerNext, Admit, Refuse, Succeed, Fail, ReadState, Tick, StateNow, breakerVars
<1> QED
  BY <1>1, <1>2, <1>3, BreakerTypeCorrect, PTL DEF BreakerSpec

-----------------------------------------------------------------------------
(* The retry loop.                                                          *)

\* Every step of the retry loop is a step of the breaker or none of its
\* business, so that what is proved of the breaker holds under the loop.
THEOREM ImplementsBreaker == Spec => BreakerSpec
<1>1. Init => BreakerInit
  BY DEF Init
<1>2. [Next]_vars => [BreakerNext]_breakerVars
  <2> SUFFICES ASSUME [Next]_vars PROVE [BreakerNext]_breakerVars
    OBVIOUS
  <2>1. ASSUME NEW t \in Threads, CallStep(t) PROVE [BreakerNext]_breakerVars
    <3>1. CASE Attempt(t)
      BY <3>1 DEF Attempt, BreakerNext
    <3>2. CASE AttemptRefused(t)
      BY <3>2 DEF AttemptRefused, BreakerNext
    <3>3. CASE CallReturns(t)
      BY <3>3 DEF CallReturns, BreakerNext
    <3>4. CASE CallRaises(t)
      BY <3>4 DEF CallRaises, BreakerNext
    <3>5. CASE Backoff(t) \/ Wake(t) \/ GiveUp(t)
      BY <3>5 DEF Backoff, Wake, GiveUp
    <3> QED
      BY <2>1, <3>1, <3>2, <3>3, <3>4, <3>5 DEF CallStep
  <2>2. ASSUME NEW t \in Threads, Invoke(t) PROVE [BreakerNext]_breakerVars
    BY <2>2 DEF Invoke
  <2>3. CASE ClockStep \/ Observe
    BY <2>3 DEF ClockStep, Observe, BreakerNext
  <2>4. CASE UNCHANGED vars
    BY <2>4 DEF vars, breakerVars
  <2> QED
    BY <2>1, <2>2, <2>3, <2>4 DEF Next
<1> QED
  BY <1>1, <1>2, PTL DEF Spec, BreakerSpec

-----------------------------------------------------------------------------
(* Type correctness.  Strengthening: who is about to try has a try left.    *)

TriesLeft == \A t \in Threads : phase[t] \in {"attempting", "sleeping"} => attempts[t] < MaxAttempts

LEMMA TypeInvariant == Spec => [](TypeOK /\ TriesLeft)
<1>1. Init => TypeOK /\ TriesLeft
  BY MaxAttemptsAssumption, FailureThresholdAssumption, RecoveryTimeoutAssumption
  DEF Init, TypeOK, TriesLeft, Phases, BreakerInit, BreakerTypeOK, States
<1>2. TypeOK /\ TriesLeft /\ BreakerTypeOK' /\ [Next]_vars => TypeOK' /\ TriesLeft'
  <2> SUFFICES ASSUME TypeOK, TriesLeft, BreakerTypeOK', [Next]_vars
               PROVE  TypeOK' /\ TriesLeft'
    OBVIOUS
  <2>0. admitted \in [Threads -> {"none", "closed", "half_open"}]
    BY DEF TypeOK, BreakerTypeOK
  <2> USE <2>0, MaxAttemptsAssumption DEF TypeOK, TriesLeft, Phases, Goto
  <2>1. ASSUME NEW t \in Threads, Invoke(t) PROVE TypeOK' /\ TriesLeft'
    BY <2>1 DEF Invoke, breakerVars
  <2>2. ASSUME NEW t \in Threads, Attempt(t) PROVE TypeOK' /\ TriesLeft'
    <3>1. admitted'[t] # "none" /\ \A u \in Threads \ {t} : admitted'[u] = admitted[u]
      BY <2>2 DEF Attempt, Admit, StateNow, BreakerTypeOK, States
    <3> QED
      BY <2>2, <3>1 DEF Attempt
  <2>3. ASSUME NEW t \in Threads, AttemptRefused(t) PROVE TypeOK' /\ TriesLeft'
    BY <2>3 DEF AttemptRefused, Refuse, breakerVars
  <2>4. ASSUME NEW t \in Threads, CallReturns(t) PROVE TypeOK' /\ TriesLeft'
    BY <2>4 DEF CallReturns, Succeed
  <2>5. ASSUME NEW t \in Threads, CallRaises(t) PROVE TypeOK' /\ TriesLeft'
    BY <2>5 DEF CallRaises, Fail
  <2>6. ASSUME NEW t \in Threads, Backoff(t) \/ Wake(t) \/ GiveUp(t)
        PROVE  TypeOK' /\ TriesLeft'
    BY <2>6 DEF Backoff, Wake, GiveUp, breakerVars
  <2>7. CASE ClockStep \/ Observe
    BY <2>7 DEF ClockStep, Observe, Tick, ReadState, callVars
  <2>8. CASE UNCHANGED vars
    BY <2>8 DEF vars
  <2> QED
    BY <2>1, <2>2, <2>3, <2>4, <2>5, <2>6, <2>7, <2>8 DEF Next, CallStep
<1> QED
  BY <1>1, <1>2, ImplementsBreaker, BreakerTypeCorrect, PTL DEF Spec

\* The retry loop never makes more attempts than it is given, and a thread is
\* inside the breaker exactly while its call runs (with_retry).
THEOREM TypeCorrect == Spec => []TypeOK
  BY TypeInvariant, PTL

-----------------------------------------------------------------------------
(* How long a call may go on.  This is the variant behind CallsEnd: what is *)
(* left to fairness is only that the thread takes its steps.                *)

StepsOfTry == [attempting |-> 1, sleeping |-> 2, failed |-> 3, in_call |-> 4]

\* A bound on the steps that the call of t has still to take.
CallStepsLeft(t) ==
    IF phase[t] = "idle" THEN 0 ELSE 4 * (MaxAttempts - attempts[t]) + StepsOfTry[phase[t]]

CallBounded ==
    \A t \in Threads :
        CallStepsLeft(t) \in Nat /\ (CallStepsLeft(t) = 0 <=> phase[t] = "idle")

CallsGoOn ==
    [][ \A t \in Threads :
          /\ Invoke(t) => CallStepsLeft(t)' = 4 * MaxAttempts + 1
          /\ CallStep(t) => CallStepsLeft(t)' < CallStepsLeft(t)
          /\ phase[t] # "idle" => CallStepsLeft(t)' <= CallStepsLeft(t) ]_vars

LEMMA CallsBounded == TypeOK => CallBounded
<1> SUFFICES ASSUME TypeOK, NEW t \in Threads
             PROVE  CallStepsLeft(t) \in Nat /\ (CallStepsLeft(t) = 0 <=> phase[t] = "idle")
  BY DEF CallBounded
<1>1. phase[t] \in Phases /\ attempts[t] \in 0..MaxAttempts /\ MaxAttempts \in Nat
  BY MaxAttemptsAssumption DEF TypeOK
<1>2. phase[t] # "idle" => StepsOfTry[phase[t]] \in 1..4
  BY <1>1 DEF StepsOfTry, Phases
<1> QED
  BY <1>1, <1>2 DEF CallStepsLeft

\* Every step of a call brings its end nearer, and no step of another thread, of
\* the clock or of an observer puts it off.
LEMMA CallStepShortens ==
    ASSUME TypeOK, TriesLeft, NEW t \in Threads, CallStep(t)
    PROVE  /\ CallStepsLeft(t)' < CallStepsLeft(t)
           /\ \A u \in Threads \ {t} : CallStepsLeft(u)' = CallStepsLeft(u)
<1> USE MaxAttemptsAssumption DEF TypeOK, TriesLeft, Phases, CallStepsLeft, StepsOfTry, Goto
<1>1. CASE Attempt(t)
  BY <1>1 DEF Attempt
<1>2. CASE AttemptRefused(t)
  BY <1>2 DEF AttemptRefused
<1>3. CASE CallReturns(t)
  BY <1>3 DEF CallReturns
<1>4. CASE CallRaises(t)
  BY <1>4 DEF CallRaises
<1>5. CASE Backoff(t)
  BY <1>5 DEF Backoff
<1>6. CASE Wake(t)
  BY <1>6 DEF Wake
<1>7. CASE GiveUp(t)
  BY <1>7 DEF GiveUp
<1> QED
  BY <1>1, <1>2, <1>3, <1>4, <1>5, <1>6, <1>7 DEF CallStep

\* For any threads, threshold, timeout and attempts, a call is over after at most
\* four steps of its thread for each attempt and one more, whatever the others do
\* (with_retry: refusals count as attempts, and reraise ends the last one).
THEOREM CallsRunOut == Spec => []CallBounded /\ CallsGoOn
<1>1. TypeOK => CallBounded
  BY CallsBounded
<1>2. TypeOK /\ TriesLeft /\ CallBounded /\ CallBounded' /\ [Next]_vars
        => [ \A t \in Threads :
               /\ Invoke(t) => CallStepsLeft(t)' = 4 * MaxAttempts + 1
               /\ CallStep(t) => CallStepsLeft(t)' < CallStepsLeft(t)
               /\ phase[t] # "idle" => CallStepsLeft(t)' <= CallStepsLeft(t) ]_vars
  <2> SUFFICES ASSUME TypeOK, TriesLeft, CallBounded, CallBounded', Next,
                      NEW t \in Threads
               PROVE  /\ Invoke(t) => CallStepsLeft(t)' = 4 * MaxAttempts + 1
                      /\ CallStep(t) => CallStepsLeft(t)' < CallStepsLeft(t)
                      /\ phase[t] # "idle" => CallStepsLeft(t)' <= CallStepsLeft(t)
    OBVIOUS
  <2>1. CallStepsLeft(t) \in Nat /\ CallStepsLeft(t)' \in Nat
    BY DEF CallBounded
  <2>2. Invoke(t) => CallStepsLeft(t)' = 4 * MaxAttempts + 1 /\ phase[t] = "idle"
    BY MaxAttemptsAssumption DEF Invoke, Goto, CallStepsLeft, StepsOfTry, TypeOK
  <2>3. CallStep(t) => CallStepsLeft(t)' < CallStepsLeft(t)
    BY CallStepShortens
  <2>4. ASSUME NEW u \in Threads, u # t, CallStep(u) \/ Invoke(u)
        PROVE  CallStepsLeft(t)' = CallStepsLeft(t)
    <3>1. CASE CallStep(u)
      BY <2>4, <3>1, CallStepShortens
    <3>2. CASE Invoke(u)
      BY <2>4, <3>2 DEF Invoke, Goto, CallStepsLeft, TypeOK
    <3> QED
      BY <2>4, <3>1, <3>2
  <2>5. ASSUME ClockStep \/ Observe PROVE CallStepsLeft(t)' = CallStepsLeft(t)
    <3>1. phase' = phase /\ attempts' = attempts
      BY <2>5 DEF ClockStep, Observe, callVars
    <3> QED
      BY <3>1 DEF CallStepsLeft
  <2>6. phase[t] # "idle" => CallStepsLeft(t)' <= CallStepsLeft(t)
    BY <2>1, <2>2, <2>3, <2>4, <2>5 DEF Next
  <2> QED
    BY <2>2, <2>3, <2>6
<1> QED
  BY <1>1, <1>2, TypeInvariant, PTL DEF Spec, CallsGoOn

-----------------------------------------------------------------------------
(* One thread.  Strengthening: while the breaker is closed, every attempt   *)
(* that is over was a failure on its count.                                 *)

AttemptsOver(t) == IF phase[t] = "in_call" THEN attempts[t] - 1 ELSE attempts[t]

FailuresCounted ==
    \A t \in Threads : phase[t] # "idle" /\ state = "closed"
       => \/ failures >= AttemptsOver(t)
          \/ failures >= FailureThreshold

\* Where one thread calls and has as many attempts as the threshold, a call that
\* gives up leaves the breaker open for every later caller.
THEOREM GivingUpOpensBreakerCorrect ==
    ASSUME \A t, u \in Threads : t = u
    PROVE  Spec => GivingUpOpensBreaker
<1>1. Init => FailuresCounted
  BY DEF Init, FailuresCounted
<1>2. TypeOK /\ FailuresCounted /\ [Next]_vars => FailuresCounted'
  <2> SUFFICES ASSUME TypeOK, FailuresCounted, [Next]_vars
               PROVE  FailuresCounted'
    OBVIOUS
  <2> USE FailureThresholdAssumption, MaxAttemptsAssumption
      DEF TypeOK, BreakerTypeOK, States, Phases, FailuresCounted, AttemptsOver, Goto
  <2>1. ASSUME NEW t \in Threads, Invoke(t) PROVE FailuresCounted'
    BY <2>1 DEF Invoke, breakerVars
  <2>2. ASSUME NEW t \in Threads, Attempt(t) PROVE FailuresCounted'
    BY <2>2 DEF Attempt, Admit, StateNow
  <2>3. ASSUME NEW t \in Threads, AttemptRefused(t) PROVE FailuresCounted'
    BY <2>3 DEF AttemptRefused, Refuse, StateNow, breakerVars
  <2>4. ASSUME NEW t \in Threads, CallReturns(t) PROVE FailuresCounted'
    BY <2>4 DEF CallReturns, Succeed
  <2>5. ASSUME NEW t \in Threads, CallRaises(t) PROVE FailuresCounted'
    BY <2>5 DEF CallRaises, Fail
  <2>6. ASSUME NEW t \in Threads, Backoff(t) \/ Wake(t) \/ GiveUp(t) PROVE FailuresCounted'
    BY <2>6 DEF Backoff, Wake, GiveUp, breakerVars
  <2>7. CASE ClockStep \/ Observe
    BY <2>7 DEF ClockStep, Observe, Tick, ReadState, StateNow, callVars
  <2>8. CASE UNCHANGED vars
    BY <2>8 DEF vars
  <2> QED
    BY <2>1, <2>2, <2>3, <2>4, <2>5, <2>6, <2>7, <2>8 DEF Next, CallStep
<1>3. TypeOK /\ ClosedIffBelowThreshold /\ FailuresCounted /\ [Next]_vars
        => [ \A t \in Threads :
               phase[t] = "failed" /\ phase'[t] = "idle" /\ MaxAttempts >= FailureThreshold
                 => state # "closed" ]_vars
  <2> SUFFICES ASSUME TypeOK, ClosedIffBelowThreshold, FailuresCounted, Next,
                      NEW t \in Threads, phase[t] = "failed", phase'[t] = "idle",
                      MaxAttempts >= FailureThreshold
               PROVE  state # "closed"
    OBVIOUS
  <2> USE DEF TypeOK, BreakerTypeOK, Phases
  <2>1. GiveUp(t)
    BY DEF Next, CallStep, Invoke, Attempt, AttemptRefused, CallReturns, CallRaises,
           Backoff, Wake, GiveUp, ClockStep, Observe, callVars, Goto
  <2>2. attempts[t] >= FailureThreshold
    BY <2>1, MaxAttemptsAssumption, FailureThresholdAssumption DEF GiveUp
  <2> QED
    BY <2>2, FailureThresholdAssumption
    DEF ClosedIffBelowThreshold, FailuresCounted, AttemptsOver
<1> QED
  BY <1>1, <1>2, <1>3, TypeCorrect, ImplementsBreaker, ClosedIffBelowThresholdCorrect, PTL
  DEF Spec, GivingUpOpensBreaker
=============================================================================
