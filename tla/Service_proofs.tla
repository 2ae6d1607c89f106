--------------------------- MODULE Service_proofs ---------------------------
(***************************************************************************)
(* Proofs about UnderwritingService: the deployment runs the graph as      *)
(* UnderwritingGraph has it, so that what is proved of the graph holds of  *)
(* it, a node that fails leaves the shared breaker open, only an           *)
(* unreadable document makes one fail, and every request runs out of steps.*)
(***************************************************************************)
EXTENDS UnderwritingService, Lifecycle_proofs

\* The composition of the graph and the resilient calls does nothing that the
\* graph alone may not do: a node fails or answers where its call does.
LEMMA StepImplementsGraph == [ServiceNext]_serviceVars => [Next]_vars
<1> SUFFICES ASSUME [ServiceNext]_serviceVars PROVE [Next]_vars
  OBVIOUS
<1>1. ASSUME NEW s \in Servers, RequestArrives(s) PROVE Next
  BY <1>1 DEF RequestArrives, Next
<1>2. ASSUME NEW s \in Servers, ServiceStep(s) PROVE [Next]_vars
  <2>1. CASE CallBegins(s) \/ CallGoesOn(s)
    BY <2>1 DEF CallBegins, CallGoesOn
  <2>2. CASE CallAnswers(s)
    BY <2>2 DEF CallAnswers, Next, HandlerStep
  <2>3. CASE CallGivesUp(s)
    BY <2>3 DEF CallGivesUp, Next, HandlerStep
  <2>4. CASE GraphStep(s)
    BY <2>4 DEF GraphStep, Next, HandlerStep
  <2> QED
    BY <1>2, <2>1, <2>2, <2>3, <2>4 DEF ServiceStep
<1>3. ASSUME NEW s \in Servers, ProcessCrash(s) PROVE Next
  BY <1>3 DEF ProcessCrash, Next
<1>4. CASE TimePasses \/ UNCHANGED serviceVars
  BY <1>4 DEF TimePasses, serviceVars
<1> QED
  BY <1>1, <1>2, <1>3, <1>4 DEF ServiceNext

THEOREM ServiceImplementsGraph == ServiceSpec => Spec
  BY StepImplementsGraph, PTL DEF ServiceSpec, ServiceInit, Spec

\* The deployment implements the life of a case: its breaker, its retries and
\* its restarts included, no verdict is taken back and no reviewer asked twice.
THEOREM ServiceImplementsLifecycle == ServiceSpec => ImplementsLifecycle
<1>1. OneProcess
  BY DeploymentAssumption DEF OneProcess
<1>2. Spec => ImplementsLifecycle
  BY <1>1, OneProcessCorrect
<1> QED
  BY <1>2, ServiceImplementsGraph, PTL

-----------------------------------------------------------------------------
(* The call that a node is in.                                              *)

TriesLeft ==
    \A s \in Servers : phase[s] \in {"attempting", "sleeping"} => attempts[s] < MaxAttempts

AttemptsOver(s) == IF phase[s] = "in_call" THEN attempts[s] - 1 ELSE attempts[s]

\* While the breaker is closed, every attempt that is over is on its count.
FailuresOnRecord ==
    \A s \in Servers : phase[s] # "idle" /\ state = "closed"
       => failures >= AttemptsOver(s) \/ failures >= FailureThreshold

CallInv ==
    Llm!TypeOK /\ Llm!ClosedIffBelowThreshold /\ TriesLeft /\ FailuresOnRecord

LEMMA CallInit == Llm!Init => CallInv
BY ResilienceAssumption
DEF Llm!Init, Llm!BreakerInit, CallInv, Llm!TypeOK, Llm!BreakerTypeOK, Llm!States, Llm!Phases,
    Llm!ClosedIffBelowThreshold, TriesLeft, FailuresOnRecord

\* A call and its breaker keep their invariant; there is one caller.
LEMMA CallStepKeeps ==
    ASSUME CallInv, NEW s \in Servers, Llm!Invoke(s) \/ Llm!CallStep(s)
    PROVE  CallInv'
<1> USE ResilienceAssumption, DeploymentAssumption
    DEF CallInv, Llm!TypeOK, Llm!BreakerTypeOK, Llm!States, Llm!Phases,
        Llm!ClosedIffBelowThreshold, TriesLeft, FailuresOnRecord, AttemptsOver, Llm!Goto
<1>1. CASE Llm!Invoke(s)
  BY <1>1 DEF Llm!Invoke, Llm!breakerVars
<1>2. CASE Llm!Attempt(s)
  BY <1>2 DEF Llm!Attempt, Llm!Admit, Llm!StateNow
<1>3. CASE Llm!AttemptRefused(s)
  BY <1>3 DEF Llm!AttemptRefused, Llm!Refuse, Llm!StateNow, Llm!breakerVars
<1>4. CASE Llm!CallReturns(s)
  BY <1>4 DEF Llm!CallReturns, Llm!Succeed
<1>5. CASE Llm!CallRaises(s)
  BY <1>5 DEF Llm!CallRaises, Llm!Fail
<1>6. CASE Llm!Backoff(s) \/ Llm!Wake(s) \/ Llm!GiveUp(s)
  BY <1>6 DEF Llm!Backoff, Llm!Wake, Llm!GiveUp, Llm!breakerVars
<1> QED
  BY <1>1, <1>2, <1>3, <1>4, <1>5, <1>6 DEF Llm!CallStep

\* A restart begins with nothing on record, and the clock changes nothing else.
LEMMA OtherStepKeeps ==
    ASSUME CallInv,
           \/ \E s \in Servers : ProcessCrash(s)
           \/ TimePasses
           \/ UNCHANGED llmVars
    PROVE  CallInv'
<1> USE ResilienceAssumption
    DEF CallInv, Llm!TypeOK, Llm!BreakerTypeOK, Llm!States, Llm!Phases,
        Llm!ClosedIffBelowThreshold, TriesLeft, FailuresOnRecord, AttemptsOver
<1>1. CASE \E s \in Servers : ProcessCrash(s)
  BY <1>1 DEF ProcessCrash
<1>2. CASE TimePasses
  BY <1>2 DEF TimePasses, Llm!ClockStep, Llm!Tick, Llm!callVars
<1>3. CASE UNCHANGED llmVars
  BY <1>3 DEF llmVars
<1> QED
  BY <1>1, <1>2, <1>3

\* A call that gives up leaves the breaker open, or on trial.
LEMMA GivingUpOpens ==
    ASSUME CallInv, NEW s \in Servers, Llm!GiveUp(s), MaxAttempts >= FailureThreshold
    PROVE  state # "closed"
<1>1. attempts[s] \in Nat /\ attempts[s] >= FailureThreshold /\ phase[s] = "failed"
  BY ResilienceAssumption DEF CallInv, Llm!TypeOK, Llm!GiveUp
<1> QED
  BY <1>1, ResilienceAssumption
  DEF CallInv, Llm!TypeOK, Llm!BreakerTypeOK, Llm!ClosedIffBelowThreshold, FailuresOnRecord,
      AttemptsOver

LEMMA CallInvStep == CallInv /\ [ServiceNext]_serviceVars => CallInv'
<1> SUFFICES ASSUME CallInv, [ServiceNext]_serviceVars PROVE CallInv'
  OBVIOUS
<1>1. ASSUME NEW s \in Servers, ServiceStep(s) PROVE CallInv'
  <2>1. CASE GraphStep(s)
    BY <2>1, OtherStepKeeps DEF GraphStep
  <2>2. CASE ~GraphStep(s)
    <3>1. Llm!Invoke(s) \/ Llm!CallStep(s)
      BY <1>1, <2>2
      DEF ServiceStep, CallBegins, CallGoesOn, CallAnswers, CallGivesUp, Llm!CallStep
    <3> QED
      BY <3>1, CallStepKeeps
  <2> QED
    BY <2>1, <2>2
<1>2. ASSUME NEW s \in Servers, RequestArrives(s) PROVE CallInv'
  BY <1>2, OtherStepKeeps DEF RequestArrives
<1>3. CASE \/ \E s \in Servers : ProcessCrash(s)
           \/ TimePasses
           \/ UNCHANGED serviceVars
  BY <1>3, OtherStepKeeps DEF serviceVars
<1> QED
  BY <1>1, <1>2, <1>3 DEF ServiceNext

-----------------------------------------------------------------------------
(* Where the process is while a call runs, and when a node has failed.      *)

InCallAtNode == \A s \in Servers : phase[s] # "idle" => AtLlmNode(s)

ServiceInv == TypeOK /\ CallInv /\ InCallAtNode /\ FailureOpensBreaker

LEMMA OneServer == ASSUME NEW s \in Servers, NEW t \in Servers PROVE s = t
  BY DeploymentAssumption

\* A step of the graph outside a call leaves a call that runs where it is.
LEMMA GraphStepPlaces ==
    ASSUME ServiceInv, NEW s \in Servers, GraphStep(s)
    PROVE  InCallAtNode' /\ FailureOpensBreaker'
<1> USE OneServer DEF ServiceInv, TypeOK, InCallAtNode, FailureOpensBreaker
<1>1. UNCHANGED <<phase, state>>
  BY DEF GraphStep, llmVars
<1>2. CASE Flush(s)
  BY <1>1, <1>2 DEF Flush, AtLlmNode, AtNode
<1>3. CASE ~Flush(s)
  <2>1. ~AtLlmNode(s)
    BY <1>3
    DEF GraphStep, AtLlmNode, LlmNodes, AtNode, Resume, IntakeNode, RiskNode, PolicyNode,
        EscalationPauses, EscalationResumes, OutputNode, Return, Raise
  <2>2. pc'[s] # "raising"
    BY <1>3
    DEF GraphStep, Resume, IntakeNode, RiskNode, PolicyNode, EscalationPauses,
        EscalationResumes, OutputNode, Commit, Return, Raise, Release
  <2> QED
    BY <1>1, <2>1, <2>2
<1> QED
  BY <1>2, <1>3

LEMMA ServiceStepPlaces ==
    ASSUME ServiceInv, NEW s \in Servers, ServiceStep(s)
    PROVE  InCallAtNode' /\ FailureOpensBreaker'
<1> USE OneServer DEF ServiceInv, TypeOK, InCallAtNode, FailureOpensBreaker
<1>0. phase \in [Servers -> Llm!Phases]
  BY DEF CallInv, Llm!TypeOK
<1>1. CASE CallBegins(s)
  <2>1. UNCHANGED <<pc, work, state>> /\ AtLlmNode(s)
    BY <1>1 DEF CallBegins, vars, Llm!Invoke, Llm!breakerVars
  <2> QED
    BY <2>1 DEF AtLlmNode, AtNode, LlmNodes
<1>2. CASE CallGoesOn(s)
  <2>1. phase[s] # "idle" /\ UNCHANGED <<pc, work>>
    BY <1>2 DEF CallGoesOn, vars, Llm!Attempt, Llm!AttemptRefused, Llm!Backoff, Llm!Wake,
                Llm!CallRaises
  <2> QED
    BY <2>1 DEF AtLlmNode, AtNode, LlmNodes
<1>3. CASE CallAnswers(s)
  <2>1. phase'[s] = "idle"
    BY <1>0, <1>3 DEF CallAnswers, Llm!CallReturns, Llm!Goto
  <2>2. pc'[s] # "raising"
    BY <1>3 DEF CallAnswers, ExtractionNode, ExplainabilityNode, Commit
  <2> QED
    BY <2>1, <2>2
<1>4. CASE CallGivesUp(s)
  <2>1. phase'[s] = "idle" /\ state' = state
    BY <1>0, <1>4 DEF CallGivesUp, Llm!GiveUp, Llm!Goto, Llm!breakerVars
  <2>2. MaxAttempts >= FailureThreshold => state # "closed"
    BY <1>4, GivingUpOpens DEF CallGivesUp
  <2> QED
    BY <2>1, <2>2
<1>5. CASE GraphStep(s)
  BY <1>5, GraphStepPlaces
<1> QED
  BY <1>1, <1>2, <1>3, <1>4, <1>5 DEF ServiceStep

LEMMA OtherStepPlaces ==
    ASSUME ServiceInv,
           \/ \E s \in Servers : RequestArrives(s) \/ ProcessCrash(s)
           \/ TimePasses
           \/ UNCHANGED serviceVars
    PROVE  InCallAtNode' /\ FailureOpensBreaker'
<1> USE OneServer DEF ServiceInv, TypeOK, InCallAtNode, FailureOpensBreaker
<1>1. ASSUME NEW s \in Servers, RequestArrives(s) PROVE InCallAtNode' /\ FailureOpensBreaker'
  <2>1. pc[s] = "idle" /\ pc'[s] # "raising" /\ UNCHANGED phase
    BY <1>1 DEF RequestArrives, StartApplication, CheckResolve, llmVars
  <2> QED
    BY <2>1 DEF AtLlmNode, AtNode
<1>2. ASSUME NEW s \in Servers, ProcessCrash(s) PROVE InCallAtNode' /\ FailureOpensBreaker'
  BY <1>2 DEF ProcessCrash, Crash, Release
<1>3. CASE TimePasses \/ UNCHANGED serviceVars
  <2>1. UNCHANGED <<phase, state, pc, work>>
    BY <1>3 DEF TimePasses, Llm!ClockStep, Llm!Tick, Llm!callVars, serviceVars, vars, llmVars
  <2> QED
    BY <2>1 DEF AtLlmNode, AtNode
<1> QED
  BY <1>1, <1>2, <1>3

LEMMA ServiceInvariant == ServiceSpec => []ServiceInv
<1>1. ServiceInit /\ TypeOK => ServiceInv
  <2>1. ServiceInit => InCallAtNode /\ FailureOpensBreaker
    BY DEF ServiceInit, Llm!Init, Init, InCallAtNode, FailureOpensBreaker
  <2> QED
    BY <2>1, CallInit DEF ServiceInit, ServiceInv
<1>2. ServiceInv /\ TypeOK' /\ [ServiceNext]_serviceVars => ServiceInv'
  <2> SUFFICES ASSUME ServiceInv, TypeOK', [ServiceNext]_serviceVars PROVE ServiceInv'
    OBVIOUS
  <2>1. CallInv'
    BY CallInvStep DEF ServiceInv
  <2>2. InCallAtNode' /\ FailureOpensBreaker'
    BY ServiceStepPlaces, OtherStepPlaces DEF ServiceNext
  <2> QED
    BY <2>1, <2>2 DEF ServiceInv
<1>3. ServiceSpec => []TypeOK
  BY ServiceImplementsGraph, TypeCorrect, PTL
<1> QED
  BY <1>1, <1>2, <1>3, PTL DEF ServiceSpec

\* The deployment keeps its types, and is in a call only at a node that makes one.
THEOREM ServiceTypeCorrect == ServiceSpec => []ServiceTypeOK
<1>1. ServiceInv => ServiceTypeOK
  BY DEF ServiceInv, CallInv, InCallAtNode, ServiceTypeOK
<1> QED
  BY <1>1, ServiceInvariant, PTL

\* Where the attempts of a call are as many as the threshold, a node that failed
\* has left the breaker of every application open or on trial.
THEOREM FailureOpensBreakerCorrect == ServiceSpec => []FailureOpensBreaker
<1>1. ServiceInv => FailureOpensBreaker
  BY DEF ServiceInv
<1> QED
  BY <1>1, ServiceInvariant, PTL

-----------------------------------------------------------------------------
(* Why an application fails, where no id is submitted twice.                *)

Unread(c) == c.application # None /\ ~Readable(c)

\* A handler works on the application that is stored, or on the first one.
InputInv ==
    /\ \A a \in Apps : runs[a] = 0 => store[a] = NoThread /\ ~Busy(a)
    /\ \A s \in Servers : unsaved[s] => pc[s] \in AtWork
    /\ \A s \in Servers : pc[s] \in AtWork =>
          /\ store[target[s]].application \in {None, work[s].application}
          /\ ~unsaved[s] => store[target[s]].application = work[s].application

\* Somebody's application cannot be read.
Blamed ==
    \/ \E a \in Apps : Unread(store[a])
    \/ \E s \in Servers : pc[s] \in AtWork /\ Unread(work[s])

LEMMA InputKept ==
    ASSUME NEW c, Typed(c)
    PROVE  /\ Received(c).application = c.application
           /\ \A fin : Extracted(c, fin).application = c.application
           /\ Scored(c).application = c.application
           /\ Evaluated(c).application = c.application
           /\ Paused(c).application = c.application
           /\ \A resolution : Resolved(c, resolution).application = c.application
           /\ Explained(c).application = c.application
           /\ Finalized(c).application = c.application
<1> USE DEF Advance, CheckpointsOver
<1>1. c \in CheckpointsOver(Trails)
  BY CheckpointsAre DEF Typed
<1>2. Received(c).application = c.application
  BY <1>1 DEF Received
<1>3. \A fin : Extracted(c, fin).application = c.application
  BY <1>1 DEF Extracted
<1>4. Scored(c).application = c.application
  BY <1>1 DEF Scored
<1>5. Evaluated(c).application = c.application
  BY <1>1 DEF Evaluated
<1>6. Paused(c).application = c.application
  BY <1>1 DEF Paused
<1>7. \A resolution : Resolved(c, resolution).application = c.application
  BY <1>1 DEF Resolved
<1>8. Explained(c).application = c.application
  BY <1>1 DEF Explained
<1>9. Finalized(c).application = c.application
  BY <1>1 DEF Finalized
<1> QED
  BY <1>2, <1>3, <1>4, <1>5, <1>6, <1>7, <1>8, <1>9

\* What each kind of step does to the application a handler works on.
NodeStep(s) ==
    /\ pc[s] = "running" /\ pc'[s] \in AtWork
    /\ UNCHANGED <<store, runs, target>>
    /\ work'[s].application = work[s].application
    /\ unsaved'[s] \/ unsaved'[s] = unsaved[s]

LEMMA NodeSteps ==
    ASSUME TypeInv, NEW s \in Servers,
           \/ IntakeNode(s) \/ ExtractionNode(s) \/ RiskNode(s) \/ PolicyNode(s)
           \/ EscalationPauses(s) \/ EscalationResumes(s)
           \/ ExplainabilityNode(s) \/ OutputNode(s) \/ NodeFails(s)
    PROVE  NodeStep(s)
<1>1. /\ Typed(work[s]) /\ DOMAIN work = Servers /\ DOMAIN pc = Servers
      /\ DOMAIN unsaved = Servers
  BY DEF TypeInv, TypeOK, Typed
<1>2. ASSUME NEW c, NEW events, Commit(s, c, events), pc[s] = "running",
             c.application = work[s].application
      PROVE  NodeStep(s)
  BY <1>1, <1>2 DEF Commit, NodeStep, AtWork
<1>3. ASSUME IntakeNode(s) \/ RiskNode(s) \/ PolicyNode(s) \/ EscalationResumes(s)
             \/ ExplainabilityNode(s) \/ OutputNode(s)
      PROVE  NodeStep(s)
  BY <1>1, <1>2, <1>3, InputKept
  DEF IntakeNode, RiskNode, PolicyNode, EscalationResumes, ExplainabilityNode, OutputNode, AtNode
<1>4. ASSUME ExtractionNode(s) PROVE NodeStep(s)
  <2>1. PICK fin : Commit(s, Extracted(work[s], fin), {"financials_extracted"})
    BY <1>4 DEF ExtractionNode
  <2> QED
    BY <1>1, <1>2, <1>4, <2>1, InputKept DEF ExtractionNode, AtNode
<1>5. ASSUME EscalationPauses(s) PROVE NodeStep(s)
  BY <1>1, <1>5, InputKept DEF EscalationPauses, AtNode, NodeStep, AtWork
<1>6. ASSUME NodeFails(s) PROVE NodeStep(s)
  BY <1>1, <1>6 DEF NodeFails, AtNode, NodeStep, AtWork
<1> QED
  BY <1>3, <1>4, <1>5, <1>6

LEMMA StepInput ==
    ASSUME MaxRuns <= 1
    PROVE  TypeInv /\ InputInv /\ [Next]_vars => InputInv'
<1> SUFFICES ASSUME TypeInv, InputInv, [Next]_vars PROVE InputInv'
  OBVIOUS
<1> USE OneServer DEF AtWork
<1>1. /\ DOMAIN work = Servers /\ DOMAIN store = Apps /\ DOMAIN pc = Servers
      /\ DOMAIN unsaved = Servers /\ DOMAIN target = Servers /\ DOMAIN runs = Apps
      /\ \A a \in Apps : runs[a] \in Nat
      /\ \A s \in Servers : pc[s] # "idle" => target[s] \in Apps
      /\ MaxRuns \in Nat /\ None \notin Apps
  BY BoundsAssumption, NoneAssumption DEF TypeInv, TypeOK
<1>2. ASSUME NEW s \in Servers, NEW a \in Apps, NEW payload \in Payloads,
             StartApplication(s, a, payload)
      PROVE  InputInv'
  <2>1. /\ runs[a] = 0 /\ runs' = [runs EXCEPT ![a] = 1] /\ store' = store
        /\ pc' = [pc EXCEPT ![s] = "running"] /\ target' = [target EXCEPT ![s] = a]
        /\ unsaved' = [unsaved EXCEPT ![s] = TRUE]
    <3>1. runs[a] < MaxRuns /\ runs[a] \in Nat /\ runs' = [runs EXCEPT ![a] = runs[a] + 1]
      BY <1>1, <1>2 DEF StartApplication
    <3>2. runs[a] = 0
      BY <1>1, <3>1
    <3>3. runs[a] + 1 = 1
      BY <3>2
    <3> QED
      BY <1>2, <3>1, <3>2, <3>3 DEF StartApplication
  <2>2. store[a].application = None
    BY <2>1 DEF InputInv, NoThread
  <2>3. \A b \in Apps : runs'[b] = 0 => b # a /\ runs[b] = 0
    BY <1>1, <2>1
  <2>4. \A b \in Apps : runs'[b] = 0 => store'[b] = NoThread /\ ~Busy(b)'
    BY <1>1, <2>1, <2>3 DEF InputInv, Busy
  <2> QED
    BY <1>1, <2>1, <2>2, <2>4 DEF InputInv
<1>3. ASSUME NEW s \in Servers, NEW a \in Apps, NEW resolution \in Resolutions,
             CheckResolve(s, a, resolution)
      PROVE  InputInv'
  <2>1. /\ UNCHANGED <<store, runs, work, unsaved>> /\ store[a].status # "none"
        /\ pc' = [pc EXCEPT ![s] = "checked"] /\ target' = [target EXCEPT ![s] = a]
        /\ pc[s] = "idle"
    BY <1>3 DEF CheckResolve
  <2>2. runs[a] # 0
    BY <2>1 DEF InputInv, NoThread
  <2> QED
    BY <1>1, <2>1, <2>2 DEF InputInv, Busy
<1>4. ASSUME NEW s \in Servers, Resume(s) PROVE InputInv'
  BY <1>1, <1>4 DEF Resume, InputInv, Busy
<1>5. ASSUME NEW s \in Servers, NodeStep(s) PROVE InputInv'
  BY <1>1, <1>5 DEF NodeStep, InputInv, Busy
<1>6. ASSUME NEW s \in Servers, Flush(s) PROVE InputInv'
  <2>1. /\ target[s] \in Apps /\ store' = [store EXCEPT ![target[s]] = work[s]]
        /\ UNCHANGED <<work, target, pc, runs>>
        /\ unsaved' = [unsaved EXCEPT ![s] = FALSE]
    BY <1>6 DEF Flush, TypeInv, TypeOK
  <2>2. runs[target[s]] # 0
    BY <2>1 DEF InputInv, Busy
  <2> QED
    BY <1>1, <2>1, <2>2 DEF InputInv, Busy
<1>7. ASSUME NEW s \in Servers, Return(s) \/ Raise(s) \/ Crash(s) PROVE InputInv'
  <2>1. /\ UNCHANGED <<store, runs>> /\ pc' = [pc EXCEPT ![s] = "idle"]
        /\ target' = [target EXCEPT ![s] = None] /\ unsaved' = [unsaved EXCEPT ![s] = FALSE]
    BY <1>7 DEF Return, Raise, Crash, Release
  <2> QED
    BY <1>1, <2>1 DEF InputInv, Busy
<1>8. CASE UNCHANGED vars
  BY <1>8 DEF vars, InputInv, Busy
<1> QED
  BY <1>2, <1>3, <1>4, <1>5, <1>6, <1>7, <1>8, NodeSteps DEF Next, HandlerStep

\* An unreadable application is not forgotten: it is in the store before its
\* handler ends.
LEMMA BlameKept ==
    ASSUME TypeInv, InputInv, InputInv', Blamed, Next, \A s \in Servers : ~Crash(s)
    PROVE  Blamed'
<1> USE OneServer DEF AtWork
<1>1. /\ DOMAIN work = Servers /\ DOMAIN store = Apps /\ DOMAIN pc = Servers
      /\ \A s \in Servers : pc[s] # "idle" => target[s] \in Apps
  BY DEF TypeInv, TypeOK
<1>2. \A c, d : d.application = c.application /\ Unread(c) => Unread(d)
  BY DEF Unread, Readable
<1>3. ASSUME NEW s \in Servers, NEW a \in Apps,
             \/ \E payload \in Payloads : StartApplication(s, a, payload)
             \/ \E resolution \in Resolutions : CheckResolve(s, a, resolution)
      PROVE  Blamed'
  <2>1. pc[s] = "idle" /\ store' = store
    BY <1>3 DEF StartApplication, CheckResolve
  <2> QED
    BY <2>1 DEF Blamed
<1>4. ASSUME NEW s \in Servers, Resume(s) PROVE Blamed'
  BY <1>4 DEF Resume, Blamed
<1>5. ASSUME NEW s \in Servers, NodeStep(s) PROVE Blamed'
  BY <1>2, <1>5 DEF NodeStep, Blamed
<1>6. ASSUME NEW s \in Servers, Flush(s) PROVE Blamed'
  <2>1. /\ target[s] \in Apps /\ store' = [store EXCEPT ![target[s]] = work[s]]
        /\ UNCHANGED <<work, pc>> /\ pc[s] \in AtWork
    BY <1>6 DEF Flush, TypeInv, TypeOK, InputInv
  <2>2. CASE Unread(work[s])
    BY <2>1, <2>2 DEF Blamed
  <2>3. CASE ~Unread(work[s])
    <3>1. PICK a \in Apps : Unread(store[a])
      BY <2>3 DEF Blamed
    <3>2. store[target[s]].application \in {None, work[s].application}
      BY <2>1 DEF InputInv
    <3>3. a # target[s]
      BY <1>2, <2>3, <3>1, <3>2 DEF Unread
    <3> QED
      BY <1>1, <2>1, <3>1, <3>3 DEF Blamed
  <2> QED
    BY <2>2, <2>3
<1>7. ASSUME NEW s \in Servers, Return(s) \/ Raise(s) PROVE Blamed'
  <2>1. store' = store /\ ~unsaved[s] /\ pc[s] \in AtWork
    BY <1>7 DEF Return, Raise
  <2>2. store[target[s]].application = work[s].application /\ target[s] \in Apps
    BY <1>1, <2>1 DEF InputInv
  <2>3. \E a \in Apps : Unread(store[a])
    BY <1>2, <2>2 DEF Blamed
  <2> QED
    BY <2>1, <2>3 DEF Blamed
<1> QED
  BY <1>3, <1>4, <1>5, <1>6, <1>7, NodeSteps DEF Next, HandlerStep

OnRecord == state # "closed" \/ failures > 0

\* What the breaker has on record has somebody to blame, and a node that failed
\* has something on record.
CauseInv ==
    /\ OnRecord => Blamed
    /\ \A s \in Servers : phase[s] = "failed" \/ pc[s] = "raising" => OnRecord

\* A failure of the call itself is that of an unreadable document.
LEMMA RaisesUnreadable ==
    ASSUME TypeInv, NEW s \in Servers, CallFails(s)
    PROVE  ~Readable(work[s])
<1>1. /\ pc[s] = "running" /\ work[s].next # "end"
      /\ ExtractionsOf(work[s].application) = {}
  BY DEF CallFails, AtNode
<1>2. work[s].application # None
  BY <1>1 DEF TypeInv, HasInput
<1>3. ExtractionRaises(work[s].application.document)
  BY <1>1, DeploymentAssumption DEF ExtractionsOf
<1> QED
  BY <1>2, <1>3 DEF Readable, ExtractionRaises

LEMMA RaisesForDocument ==
    ASSUME TypeInv, NEW s \in Servers, CallFails(s)
    PROVE  Blamed
<1>1. pc[s] = "running" /\ work[s].next # "end"
  BY DEF CallFails, AtNode
<1>2. work[s].application # None
  BY <1>1 DEF TypeInv, HasInput
<1> QED
  BY <1>1, <1>2, RaisesUnreadable DEF Blamed, Unread, AtWork

\* A step that leaves the breaker alone.
LEMMA QuietCause ==
    ASSUME ServiceInv, CauseInv, NEW s \in Servers, GraphStep(s) \/ RequestArrives(s)
    PROVE  /\ OnRecord' => OnRecord
           /\ \A t \in Servers : phase'[t] = "failed" \/ pc'[t] = "raising" => OnRecord'
<1> USE OneServer DEF ServiceInv, TypeOK, OnRecord
<1>1. UNCHANGED <<phase, state, failures>>
  BY DEF GraphStep, RequestArrives, llmVars
<1>2. pc'[s] = "raising" => pc[s] = "raising"
  <2>1. CASE RequestArrives(s)
    BY <2>1 DEF RequestArrives, StartApplication, CheckResolve
  <2>2. CASE GraphStep(s) /\ Flush(s)
    BY <2>2 DEF Flush
  <2>3. CASE GraphStep(s) /\ ~Flush(s)
    BY <2>3
    DEF GraphStep, Resume, IntakeNode, RiskNode, PolicyNode, EscalationPauses,
        EscalationResumes, OutputNode, Commit, Return, Raise, Release
  <2> QED
    BY <2>1, <2>2, <2>3
<1> QED
  BY <1>1, <1>2 DEF CauseInv

\* A step of a call puts nothing on record but a failure of the document.
LEMMA CallCause ==
    ASSUME ServiceInv, TypeInv, CauseInv, NEW s \in Servers,
           CallBegins(s) \/ CallGoesOn(s) \/ CallAnswers(s) \/ CallGivesUp(s)
    PROVE  /\ OnRecord' => OnRecord \/ Blamed
           /\ \A t \in Servers : phase'[t] = "failed" \/ pc'[t] = "raising" => OnRecord'
<1> USE OneServer DEF OnRecord
<1>1. /\ phase \in [Servers -> Llm!Phases] /\ failures \in Nat
      /\ FailureThreshold \in Nat \ {0} /\ DOMAIN pc = Servers
      /\ state \in Llm!States
  <2>1. DOMAIN pc = Servers
    BY DEF ServiceInv, TypeOK
  <2> QED
    BY <2>1, ResilienceAssumption DEF ServiceInv, CallInv, Llm!TypeOK, Llm!BreakerTypeOK
<1>2. phase[s] # "idle" => pc[s] = "running"
  BY DEF ServiceInv, InCallAtNode, AtLlmNode, AtNode
<1>3. CASE CallBegins(s)
  <2>1. /\ UNCHANGED <<pc, state, failures>> /\ pc[s] = "running"
        /\ phase' = [phase EXCEPT ![s] = "attempting"]
    BY <1>3
    DEF CallBegins, AtLlmNode, AtNode, Llm!Invoke, Llm!Goto, Llm!breakerVars, vars
  <2> QED
    BY <1>1, <2>1
<1>4. CASE CallGoesOn(s)
  <2> USE <1>1 DEF Llm!Goto, Llm!StateNow, Llm!breakerVars
  <2>1. pc' = pc
    BY <1>4 DEF CallGoesOn, vars
  <2>2. CASE Llm!Attempt(s)
    <3>1. /\ phase' = [phase EXCEPT ![s] = "in_call"] /\ failures' = failures
          /\ phase[s] # "idle"
          /\ state' # "closed" => state # "closed"
      BY <2>2 DEF Llm!Attempt, Llm!Admit
    <3> QED
      BY <1>2, <2>1, <3>1
  <2>3. CASE Llm!AttemptRefused(s)
    <3>1. state' = state /\ failures' = failures /\ state = "open"
      BY <2>3 DEF Llm!AttemptRefused, Llm!Refuse
    <3> QED
      BY <3>1
  <2>4. CASE Llm!Backoff(s) \/ Llm!Wake(s)
    <3>1. /\ phase[s] # "idle" /\ phase'[s] # "failed"
          /\ state' = state /\ failures' = failures
      BY <2>4 DEF Llm!Backoff, Llm!Wake
    <3> QED
      BY <1>2, <2>1, <3>1
  <2>5. CASE CallFails(s) /\ Llm!CallRaises(s)
    <3>1. failures' > 0
      BY <2>5 DEF Llm!CallRaises, Llm!Fail
    <3>2. Blamed
      BY <2>5, RaisesForDocument
    <3> QED
      BY <3>1, <3>2
  <2> QED
    BY <1>4, <2>2, <2>3, <2>4, <2>5 DEF CallGoesOn
<1>5. CASE CallAnswers(s)
  <2>1. /\ state' = "closed" /\ failures' = 0 /\ phase' = [phase EXCEPT ![s] = "idle"]
    BY <1>5 DEF CallAnswers, Llm!CallReturns, Llm!Succeed, Llm!Goto
  <2>2. pc'[s] # "raising"
    BY <1>1, <1>5 DEF CallAnswers, ExtractionNode, ExplainabilityNode, Commit
  <2> QED
    BY <1>1, <2>1, <2>2
<1>6. CASE CallGivesUp(s)
  <2>1. state' = state /\ failures' = failures /\ phase[s] = "failed"
    BY <1>6 DEF CallGivesUp, Llm!GiveUp, Llm!breakerVars
  <2> QED
    BY <2>1 DEF CauseInv
<1> QED
  BY <1>3, <1>4, <1>5, <1>6

LEMMA StepCause ==
    ASSUME ServiceInv, TypeInv, InputInv, InputInv', CauseInv, [ServiceNext]_serviceVars
    PROVE  CauseInv'
<1>1. CASE \E s \in Servers : ProcessCrash(s)
  <2>1. PICK s \in Servers : ProcessCrash(s)
    BY <1>1
  <2>2. /\ state' = "closed" /\ failures' = 0 /\ phase' = [t \in Servers |-> "idle"]
        /\ pc' = [pc EXCEPT ![s] = "idle"] /\ DOMAIN pc = Servers
    BY <2>1 DEF ProcessCrash, Crash, Release, ServiceInv, TypeOK
  <2> QED
    BY <2>2, OneServer DEF CauseInv, OnRecord
<1>2. CASE UNCHANGED vars /\ UNCHANGED <<state, failures, phase>>
  BY <1>2 DEF vars, CauseInv, OnRecord, Blamed, Unread, Readable
<1>3. ASSUME NEW s \in Servers, ServiceStep(s) \/ RequestArrives(s)
      PROVE  CauseInv'
  <2>1. /\ OnRecord' => OnRecord \/ Blamed
        /\ \A t \in Servers : phase'[t] = "failed" \/ pc'[t] = "raising" => OnRecord'
    BY <1>3, QuietCause, CallCause DEF ServiceStep
  <2>2. Blamed => Blamed'
    <3>1. CASE UNCHANGED vars
      BY <3>1 DEF vars, Blamed, Unread, Readable
    <3>2. CASE ~UNCHANGED vars
      <4>1. Next
        BY <1>3, <3>2, StepImplementsGraph DEF ServiceNext
      <4>2. \A t \in Servers : ~Crash(t)
        <5>1. crashes' = crashes /\ crashes \in Nat
          BY <1>3
          DEF ServiceStep, RequestArrives, CallBegins, CallGoesOn, CallAnswers, CallGivesUp,
              GraphStep, StartApplication, CheckResolve, Resume, IntakeNode, ExtractionNode,
              RiskNode, PolicyNode, EscalationPauses, EscalationResumes, ExplainabilityNode,
              OutputNode, NodeFails, Commit, Flush, Return, Raise, vars, TypeInv, TypeOK
        <5> QED
          BY <5>1 DEF Crash
      <4> QED
        BY <4>1, <4>2, BlameKept
    <3> QED
      BY <3>1, <3>2
  <2> QED
    BY <2>1, <2>2 DEF CauseInv
<1>4. CASE TimePasses \/ UNCHANGED serviceVars
  BY <1>2, <1>4 DEF TimePasses, Llm!ClockStep, Llm!Tick, Llm!callVars, serviceVars, llmVars
<1> QED
  BY <1>1, <1>3, <1>4 DEF ServiceNext

LEMMA CauseInvariant ==
    ASSUME MaxRuns <= 1
    PROVE  ServiceSpec => [](InputInv /\ CauseInv)
<1>1. Init => InputInv
  BY NoneAssumption DEF Init, InputInv, Busy, AtWork
<1>2. ServiceInit => CauseInv
  BY DEF ServiceInit, Init, Llm!Init, Llm!BreakerInit, CauseInv, OnRecord
<1>3. TypeInv /\ InputInv /\ [Next]_vars => InputInv'
  BY StepInput
<1>4. Spec => [](TypeInv /\ InputInv)
  BY <1>1, <1>3, InitTyped, StepTyped, PTL DEF Spec
<1>5. ServiceInv /\ TypeInv /\ InputInv /\ InputInv' /\ CauseInv /\ [ServiceNext]_serviceVars
        => CauseInv'
  BY StepCause
<1> QED
  BY <1>2, <1>4, <1>5, ServiceImplementsGraph, ServiceInvariant, PTL DEF ServiceSpec

\* Where no id is submitted twice, an application with a readable document fails
\* only after another that cannot be read, for any threshold, attempts, timeout,
\* crashes and order of requests.
THEOREM FailsOnlyForCauseCorrect ==
    ASSUME MaxRuns <= 1
    PROVE  ServiceSpec => []FailsOnlyForCause
<1>1. TypeInv /\ InputInv /\ CauseInv => FailsOnlyForCause
  <2> SUFFICES ASSUME TypeInv, InputInv, CauseInv, NEW s \in Servers, pc[s] = "raising",
                      Readable(work[s])
               PROVE  \E a \in Apps : /\ a # target[s] /\ store[a].application # None
                                      /\ ~Readable(store[a])
    BY DEF FailsOnlyForCause
  <2>1. Blamed
    BY DEF CauseInv
  <2>2. PICK a \in Apps : Unread(store[a])
    BY <2>1, OneServer DEF Blamed, Unread
  <2>3. store[target[s]].application \in {None, work[s].application}
    BY DEF InputInv, AtWork
  <2>4. a # target[s]
    BY <2>2, <2>3 DEF Unread, Readable
  <2> QED
    BY <2>2, <2>4 DEF Unread
<1>2. ServiceSpec => []TypeInv
  BY ServiceImplementsGraph, InitTyped, StepTyped, PTL DEF Spec
<1>3. ServiceSpec => [](InputInv /\ CauseInv)
  BY CauseInvariant
<1> QED
  BY <1>1, <1>2, <1>3, PTL

-----------------------------------------------------------------------------
(* How a readable application fails, however often its id is submitted.      *)

Failing(s) == phase[s] = "failed" \/ pc[s] = "raising"

\* Outside a call a handler that is failing only waits for the writer.
LEMMA QuietRefusal ==
    ASSUME ServiceInv, NEW s \in Servers, GraphStep(s) \/ RequestArrives(s), Failing(s)'
    PROVE  Failing(s) /\ work' = work /\ state' = state
<1> USE DEF ServiceInv, TypeOK
<1>1. UNCHANGED <<phase, state>>
  BY DEF GraphStep, RequestArrives, llmVars
<1>2. phase[s] # "idle" => pc[s] = "running" /\ AtLlmNode(s)
  BY DEF InCallAtNode, AtLlmNode, AtNode
<1>3. CASE RequestArrives(s)
  <2>1. pc[s] = "idle" /\ pc'[s] # "raising"
    BY <1>3 DEF RequestArrives, StartApplication, CheckResolve
  <2> QED
    BY <1>1, <1>2, <2>1 DEF Failing
<1>4. CASE GraphStep(s) /\ Flush(s)
  BY <1>1, <1>4 DEF Flush, Failing
<1>5. CASE GraphStep(s) /\ ~Flush(s)
  <2>1. pc'[s] # "raising"
    BY <1>5
    DEF GraphStep, Resume, IntakeNode, RiskNode, PolicyNode, EscalationPauses,
        EscalationResumes, OutputNode, Commit, Return, Raise, Release
  <2>2. ~AtLlmNode(s)
    BY <1>5
    DEF GraphStep, AtLlmNode, LlmNodes, AtNode, Resume, IntakeNode, RiskNode, PolicyNode,
        EscalationPauses, EscalationResumes, OutputNode, Return, Raise
  <2> QED
    BY <1>1, <1>2, <2>1, <2>2 DEF Failing
<1> QED
  BY <1>3, <1>4, <1>5

LEMMA StepRefusal ==
    ASSUME ServiceInv, TypeInv, ReadableFailsByRefusalOnly, [ServiceNext]_serviceVars
    PROVE  ReadableFailsByRefusalOnly'
<1> USE OneServer DEF ReadableFailsByRefusalOnly
<1>1. /\ phase \in [Servers -> Llm!Phases] /\ DOMAIN pc = Servers
  BY DEF ServiceInv, CallInv, Llm!TypeOK, TypeOK
<1>2. ASSUME NEW s \in Servers, GraphStep(s) \/ RequestArrives(s)
      PROVE  ReadableFailsByRefusalOnly'
  <2>1. Failing(s)' => Failing(s) /\ work' = work /\ state' = state
    BY <1>2, QuietRefusal
  <2> QED
    BY <2>1 DEF Failing
<1>3. ASSUME NEW s \in Servers, CallBegins(s) PROVE ReadableFailsByRefusalOnly'
  <2>1. UNCHANGED <<pc, work, state>> /\ phase' = [phase EXCEPT ![s] = "attempting"]
    BY <1>3 DEF CallBegins, Llm!Invoke, Llm!Goto, Llm!breakerVars, vars
  <2> QED
    BY <1>1, <2>1
<1>4. ASSUME NEW s \in Servers, CallGoesOn(s) PROVE ReadableFailsByRefusalOnly'
  <2>1. UNCHANGED <<pc, work>>
    BY <1>4 DEF CallGoesOn, vars
  <2>2. pc[s] # "raising"
    <3>1. phase[s] # "idle"
      BY <1>4
      DEF CallGoesOn, Llm!Attempt, Llm!AttemptRefused, Llm!Backoff, Llm!Wake, Llm!CallRaises
    <3> QED
      BY <3>1 DEF ServiceInv, InCallAtNode, AtLlmNode, AtNode
  <2>3. CASE Llm!AttemptRefused(s)
    <3>1. state' = "open"
      BY <2>3 DEF Llm!AttemptRefused, Llm!Refuse, Llm!StateNow, Llm!breakerVars
    <3> QED
      BY <3>1
  <2>4. CASE Llm!Attempt(s) \/ Llm!Backoff(s) \/ Llm!Wake(s)
    <3>1. phase'[s] # "failed"
      BY <1>1, <2>4 DEF Llm!Attempt, Llm!Backoff, Llm!Wake, Llm!Goto
    <3> QED
      BY <2>1, <2>2, <3>1
  <2>5. CASE CallFails(s)
    <3>1. ~Readable(work[s])
      BY <2>5, RaisesUnreadable
    <3>2. ~Readable(work'[s])
      BY <2>1, <3>1
    <3> QED
      BY <3>2
  <2> QED
    BY <1>4, <2>3, <2>4, <2>5 DEF CallGoesOn
<1>5. ASSUME NEW s \in Servers, CallAnswers(s) PROVE ReadableFailsByRefusalOnly'
  <2>1. phase'[s] = "idle"
    BY <1>1, <1>5 DEF CallAnswers, Llm!CallReturns, Llm!Goto
  <2>2. pc'[s] # "raising"
    BY <1>1, <1>5 DEF CallAnswers, ExtractionNode, ExplainabilityNode, Commit
  <2> QED
    BY <2>1, <2>2
<1>6. ASSUME NEW s \in Servers, CallGivesUp(s) PROVE ReadableFailsByRefusalOnly'
  <2>1. state' = state /\ phase[s] = "failed" /\ work' = work
    BY <1>6 DEF CallGivesUp, Llm!GiveUp, Llm!breakerVars, NodeFails
  <2> QED
    BY <2>1
<1>7. ASSUME NEW s \in Servers, ProcessCrash(s) PROVE ReadableFailsByRefusalOnly'
  <2>1. phase'[s] = "idle" /\ pc'[s] = "idle"
    BY <1>1, <1>7 DEF ProcessCrash, Crash, Release
  <2> QED
    BY <2>1
<1>8. CASE TimePasses \/ UNCHANGED serviceVars
  <2>1. UNCHANGED <<phase, state, pc, work>>
    BY <1>8 DEF TimePasses, Llm!ClockStep, Llm!Tick, Llm!callVars, serviceVars, vars, llmVars
  <2> QED
    BY <2>1
<1> QED
  BY <1>2, <1>3, <1>4, <1>5, <1>6, <1>7, <1>8 DEF ServiceNext, ServiceStep

\* For any threshold, attempts, timeout, crashes, and submissions of an id, an
\* attempt for a readable document fails only because the breaker is open
\* (resilience.py, CircuitBreaker.call; llm.py, the offline extraction).
THEOREM ReadableFailsByRefusalOnlyCorrect == ServiceSpec => []ReadableFailsByRefusalOnly
<1>1. ServiceInit => ReadableFailsByRefusalOnly
  BY DEF ServiceInit, Init, Llm!Init, ReadableFailsByRefusalOnly
<1>2. ServiceSpec => []TypeInv
  BY ServiceImplementsGraph, InitTyped, StepTyped, PTL DEF Spec
<1>3. ServiceInv /\ TypeInv /\ ReadableFailsByRefusalOnly /\ [ServiceNext]_serviceVars
        => ReadableFailsByRefusalOnly'
  BY StepRefusal
<1> QED
  BY <1>1, <1>2, <1>3, ServiceInvariant, PTL DEF ServiceSpec

-----------------------------------------------------------------------------
(* How long a request may go on, calls and retries included: the variant    *)
(* behind RequestsEnd.                                                      *)

\* A bound on the steps of the call a handler is in, or is still to begin.
CallStepsLeft(s) ==
    CASE phase[s] = "idle"       -> 4 * MaxAttempts + 2
      [] phase[s] = "attempting" -> 4 * (MaxAttempts - attempts[s]) + 1
      [] phase[s] = "sleeping"   -> 4 * (MaxAttempts - attempts[s]) + 2
      [] phase[s] = "failed"     -> 4 * (MaxAttempts - attempts[s]) + 3
      [] OTHER                   -> 4 * (MaxAttempts - attempts[s]) + 4

RequestBounds ==
    \A s \in Servers :
        StepsLeft(s) \in 0..19 /\ CallStepsLeft(s) \in 0..(4 * MaxAttempts + 4)

\* A step of the request brings its end nearer: it is a step of the graph, or one
\* of the call at the node that the graph is at.
Nearer(s) ==
    \/ StepsLeft(s)' < StepsLeft(s)
    \/ StepsLeft(s)' = StepsLeft(s) /\ CallStepsLeft(s)' < CallStepsLeft(s)

RequestsGoOn ==
    [][ \A s \in Servers : pc[s] # "idle" /\ ~ProcessCrash(s) =>
          /\ ServiceStep(s) => Nearer(s)
          /\ ~ServiceStep(s) => UNCHANGED <<StepsLeft(s), CallStepsLeft(s)>> ]_serviceVars

LEMMA CallStepsLeftRange ==
    ASSUME CallInv, NEW s \in Servers
    PROVE  CallStepsLeft(s) \in 0..(4 * MaxAttempts + 4)
<1>1. attempts[s] \in 0..MaxAttempts /\ MaxAttempts \in Nat
  BY ResilienceAssumption DEF CallInv, Llm!TypeOK
<1> QED
  BY <1>1 DEF CallStepsLeft

LEMMA CallStepNearer ==
    ASSUME CallInv, NEW s \in Servers,
           Llm!Invoke(s) \/ (Llm!CallStep(s) /\ phase'[s] # "idle")
    PROVE  CallStepsLeft(s)' < CallStepsLeft(s)
<1> USE ResilienceAssumption
    DEF CallInv, Llm!TypeOK, Llm!Phases, TriesLeft, CallStepsLeft, Llm!Goto
<1>1. CASE Llm!Invoke(s)
  BY <1>1 DEF Llm!Invoke
<1>2. CASE Llm!Attempt(s)
  BY <1>2 DEF Llm!Attempt
<1>3. CASE Llm!AttemptRefused(s)
  BY <1>3 DEF Llm!AttemptRefused
<1>4. CASE Llm!CallRaises(s)
  BY <1>4 DEF Llm!CallRaises
<1>5. CASE Llm!Backoff(s)
  BY <1>5 DEF Llm!Backoff
<1>6. CASE Llm!Wake(s)
  BY <1>6 DEF Llm!Wake
<1>7. CASE (Llm!CallReturns(s) \/ Llm!GiveUp(s)) /\ phase'[s] # "idle"
  BY <1>7 DEF Llm!CallReturns, Llm!GiveUp
<1> QED
  BY <1>1, <1>2, <1>3, <1>4, <1>5, <1>6, <1>7 DEF Llm!CallStep

LEMMA StepNearer ==
    ASSUME ServiceInv, TypeInv, NEW s \in Servers, pc[s] # "idle", ServiceStep(s)
    PROVE  Nearer(s)
<1>1. ASSUME HandlerStep(s) PROVE Nearer(s)
  BY <1>1, HandlerStepShortens DEF Nearer
<1>2. CASE GraphStep(s) \/ CallAnswers(s) \/ CallGivesUp(s)
  BY <1>1, <1>2 DEF GraphStep, CallAnswers, CallGivesUp, HandlerStep
<1>3. ASSUME UNCHANGED vars, CallStepsLeft(s)' < CallStepsLeft(s) PROVE Nearer(s)
  <2>1. StepsLeft(s)' = StepsLeft(s)
    BY <1>3 DEF StepsLeft, vars
  <2> QED
    BY <1>3, <2>1 DEF Nearer
<1>4. CASE CallBegins(s)
  BY <1>3, <1>4, CallStepNearer DEF CallBegins, ServiceInv
<1>5. CASE CallGoesOn(s)
  <2>1. Llm!CallStep(s) /\ UNCHANGED vars
    BY <1>5 DEF CallGoesOn, Llm!CallStep
  <2>2. phase'[s] # "idle"
    BY <1>5
    DEF CallGoesOn, Llm!Attempt, Llm!AttemptRefused, Llm!Backoff, Llm!Wake, Llm!CallRaises,
        Llm!Goto, ServiceInv, CallInv, Llm!TypeOK
  <2> QED
    BY <1>3, <2>1, <2>2, CallStepNearer DEF ServiceInv
<1> QED
  BY <1>2, <1>4, <1>5 DEF ServiceStep

\* For any cases, threshold, timeout and attempts, and whatever state the breaker
\* is in, each step of a request brings its end nearer, and nothing but a crash
\* happens to it meanwhile: a request takes at most 19 steps of the graph, with
\* at most 4 * MaxAttempts + 4 of a call between two of them (llm.py, resilience.py).
THEOREM RequestsRunOut == ServiceSpec => []RequestBounds /\ RequestsGoOn
<1>1. ServiceInv => RequestBounds
  BY StepsLeftRange, CallStepsLeftRange DEF ServiceInv, RequestBounds
<1>2. ServiceInv /\ TypeInv /\ [ServiceNext]_serviceVars
        => [ \A s \in Servers : pc[s] # "idle" /\ ~ProcessCrash(s) =>
               /\ ServiceStep(s) => Nearer(s)
               /\ ~ServiceStep(s) => UNCHANGED <<StepsLeft(s), CallStepsLeft(s)>> ]_serviceVars
  <2> SUFFICES ASSUME ServiceInv, TypeInv, ServiceNext, NEW s \in Servers,
                      pc[s] # "idle", ~ProcessCrash(s)
               PROVE  /\ ServiceStep(s) => Nearer(s)
                      /\ ~ServiceStep(s) => UNCHANGED <<StepsLeft(s), CallStepsLeft(s)>>
    OBVIOUS
  <2>1. ServiceStep(s) => Nearer(s)
    BY StepNearer
  <2>2. ASSUME ~ServiceStep(s) PROVE UNCHANGED <<StepsLeft(s), CallStepsLeft(s)>>
    <3>1. ~RequestArrives(s)
      BY DEF RequestArrives, StartApplication, CheckResolve
    <3>2. TimePasses
      BY <2>2, <3>1, OneServer DEF ServiceNext
    <3>3. UNCHANGED <<pc, work, unsaved, phase, attempts>>
      BY <3>2 DEF TimePasses, Llm!ClockStep, Llm!callVars, vars
    <3> QED
      BY <3>3 DEF StepsLeft, CallStepsLeft
  <2> QED
    BY <2>1, <2>2
<1>3. ServiceSpec => []TypeInv
  BY ServiceImplementsGraph, InitTyped, StepTyped, PTL DEF Spec
<1> QED
  BY <1>1, <1>2, <1>3, ServiceInvariant, PTL DEF ServiceSpec, RequestsGoOn
=============================================================================
