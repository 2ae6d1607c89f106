------------------------ MODULE UnderwritingService ------------------------
(***************************************************************************)
(* The shipped deployment as a whole: one API process whose graph nodes    *)
(* call the offline chat model through the one ResilientChatModel of the   *)
(* process.  UnderwritingGraph runs the nodes and ResilientCall the calls; *)
(* here a node that calls the model returns when its call returns and      *)
(* raises when its call gives up, and every application of the process     *)
(* meets the same breaker.                                                 *)
(*                                                                         *)
(* The offline model itself fails on a document it cannot read and on      *)
(* nothing else, so that every other failure is one the resilience wrapper *)
(* makes.                                                                  *)
(***************************************************************************)
EXTENDS UnderwritingGraph

CONSTANTS
    FailureThreshold,  \* of the breaker around the chat model
    RecoveryTimeout,   \* its cooldown, in ticks of the clock
    MaxAttempts        \* attempts of ResilientChatModel.invoke

\* deploy/k8s/deployment.yaml runs one replica; a graph step may fail here only
\* through its call, which LlmFaults leaves possible.
ASSUME DeploymentAssumption ==
    /\ \A s, t \in Servers : s = t
    /\ ProviderAnswers = {}
    /\ LlmFaults
ASSUME ResilienceAssumption ==
    {FailureThreshold, MaxAttempts} \subseteq Nat \ {0} /\ RecoveryTimeout \in Nat

VARIABLES
    state, failures, age, admitted,  \* the breaker of the chat model
    phase, attempts                  \* the call a node is in

Llm == INSTANCE ResilientCall WITH Threads <- Servers

llmVars     == <<state, failures, age, admitted, phase, attempts>>
serviceVars == <<vars, llmVars>>

ServiceInit == Init /\ Llm!Init

-----------------------------------------------------------------------------
AtLlmNode(s) == \E node \in LlmNodes : AtNode(s, node)

\* Is this the call that fails on its document, at every attempt?
CallFails(s) ==
    /\ AtNode(s, "document_extraction_agent")
    /\ ExtractionsOf(work[s].application) = {}

\* chat_model.invoke, in a node that has got so far.
CallBegins(s) == AtLlmNode(s) /\ Llm!Invoke(s) /\ UNCHANGED vars

\* Attempts, refusals and back-off: the event loop waits.
CallGoesOn(s) ==
    /\ \/ Llm!Attempt(s) \/ Llm!AttemptRefused(s) \/ Llm!Backoff(s) \/ Llm!Wake(s)
       \/ CallFails(s) /\ Llm!CallRaises(s)
    /\ UNCHANGED vars

\* The model answers, and the rest of the node runs to its checkpoint.
CallAnswers(s) ==
    /\ ~CallFails(s)
    /\ Llm!CallReturns(s)
    /\ ExtractionNode(s) \/ ExplainabilityNode(s)

\* with_retry re-raises the last exception, and the node raises it.
CallGivesUp(s) == Llm!GiveUp(s) /\ NodeFails(s)

\* Nodes that call no chat model, and what is around the nodes.
GraphStep(s) ==
    /\ \/ Resume(s)
       \/ IntakeNode(s) \/ RiskNode(s) \/ PolicyNode(s)
       \/ EscalationPauses(s) \/ EscalationResumes(s) \/ OutputNode(s)
       \/ Flush(s) \/ Return(s) \/ Raise(s)
    /\ UNCHANGED llmVars

ServiceStep(s) ==
    CallBegins(s) \/ CallGoesOn(s) \/ CallAnswers(s) \/ CallGivesUp(s) \/ GraphStep(s)

RequestArrives(s) ==
    /\ \/ \E a \in Apps, payload \in Payloads : StartApplication(s, a, payload)
       \/ \E a \in Apps, resolution \in Resolutions : CheckResolve(s, a, resolution)
    /\ UNCHANGED llmVars

\* The breaker is memory of the process: a restart begins with a closed one.
ProcessCrash(s) ==
    /\ Crash(s)
    /\ state'    = "closed"
    /\ failures' = 0
    /\ age'      = 0
    /\ admitted' = [t \in Servers |-> "none"]
    /\ phase'    = [t \in Servers |-> "idle"]
    /\ attempts' = [t \in Servers |-> 0]

TimePasses == Llm!ClockStep /\ UNCHANGED vars

ServiceNext ==
    \/ \E s \in Servers : RequestArrives(s) \/ ServiceStep(s) \/ ProcessCrash(s)
    \/ TimePasses

ServiceSpec == ServiceInit /\ [][ServiceNext]_serviceVars

\* A request that was taken goes on; clients, crashes and the clock need not.
FairServiceSpec == ServiceSpec /\ \A s \in Servers : WF_serviceVars(ServiceStep(s))

-----------------------------------------------------------------------------
\* Every variable has its type, and a process is in a call only at a node that
\* makes one.
ServiceTypeOK ==
    /\ TypeOK
    /\ Llm!TypeOK
    /\ \A s \in Servers : phase[s] # "idle" => AtLlmNode(s)

\* When a node has failed, the breaker that all applications share is open or on
\* trial: with as many attempts as the threshold, the retries of one request
\* that cannot succeed are enough to turn the next ones away (llm.py:256-262).
FailureOpensBreaker ==
    MaxAttempts >= FailureThreshold =>
        \A s \in Servers : pc[s] = "raising" => state # "closed"

Readable(c) ==
    c.application # None /\ \A line \in MoneyLines : c.application.document[line] # Malformed

\* An application with a readable document fails only in the wake of one that
\* cannot be read: no missing line, no crash and no review makes it fail by
\* itself, and a document that nobody has submitted harms nobody.
FailsOnlyForCause ==
    \A s \in Servers :
        pc[s] = "raising" /\ Readable(work[s]) =>
            \E a \in Apps : a # target[s] /\ store[a].application # None /\ ~Readable(store[a])

\* What turns such an application away is the open breaker and nothing else: an
\* attempt of its own that the breaker lets through is answered, also the trial
\* call.  (The run submits an id once; the theorem allows any number.)
ReadableFailsByRefusalOnly ==
    \A s \in Servers :
        (phase[s] = "failed" \/ pc[s] = "raising") /\ Readable(work[s]) => state = "open"

CooledDown == state # "open" \/ age >= RecoveryTimeout

\* A readable application that arrives when the breaker is not open, or has been
\* open for the recovery timeout, is carried through to a decision or a pause
\* unless the process dies: the trial call is its own, and one success closes
\* the breaker to all (resilience.py:134-138).
ServedOnceCooledDown ==
    \A s \in Servers, a \in Apps, n \in 0..MaxCrashes :
        AtNode(s, "intake") /\ target[s] = a /\ Readable(work[s]) /\ CooledDown /\ crashes = n
          ~> store[a].status = "completed" \/ store[a].interrupted \/ crashes > n

\* Every request ends, whatever state the breaker is in: refusals count as
\* attempts and back-off is bounded.
RequestsEnd == \A s \in Servers : pc[s] # "idle" ~> pc[s] = "idle"

=============================================================================
