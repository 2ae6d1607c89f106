------------------------- MODULE UnderwritingGraph -------------------------
(***************************************************************************)
(* The adjudication of loan applications: the API processes that run the   *)
(* LangGraph graph of service/graph.py and service/nodes.py for the        *)
(* ApplicationService, and the SQLite checkpoint store they share.         *)
(*                                                                         *)
(* A request handler reads a thread's checkpoint from the store, runs the  *)
(* nodes one after another on its own copy and hands each new checkpoint   *)
(* to a background writer; it answers when the writer has caught up.  A    *)
(* crash loses the copy and what the writer has not stored yet.  Handlers  *)
(* of one process never overlap: the routes are coroutines that call the   *)
(* synchronous service without awaiting.                                   *)
(***************************************************************************)
EXTENDS LendingRules, Sequences, FiniteSets

CONSTANTS
    Apps,             \* application ids, the thread ids of the checkpointer
    Servers,          \* API processes on one checkpoint store
    Payloads,         \* what clients submit: applications, each with its document
    Resolutions,      \* what reviewers answer: [reviewer, approve]
    ProviderAnswers,  \* financials a hosted model may extract; {}: the offline one
    LlmFaults,        \* may a chat-model call fail for good, after its retries?
    MaxRuns,          \* bound: submissions under one application id
    MaxCrashes,       \* bound: process crashes
    LogCap,           \* bound: log lines of a kind are counted up to this many
    None              \* a state key that no node has written yet

Financials == [monthlyGross : Nat, monthlyDebt : Nat, confidence : 0..100]

MoneyFigures == Nat \union {Absent, Malformed}

Documents == [frequency : STRING, gross : MoneyFigures, net : MoneyFigures,
              debt : MoneyFigures]

ASSUME PayloadsAssumption ==
    Payloads \subseteq [statedAnnualIncome : Nat, statedMonthlyDebt : Nat, requested : Nat,
                        creditScore : 300..850, employment : Employments,
                        document : Documents]
ASSUME ResolutionsAssumption ==
    Resolutions \subseteq [reviewer : STRING, approve : BOOLEAN]
ASSUME NoneAssumption ==
    /\ None \notin Apps
    /\ None \notin Payloads
    /\ None \notin Resolutions
    /\ None \notin Financials
ASSUME ProviderAssumption == ProviderAnswers \subseteq Financials /\ LlmFaults \in BOOLEAN
ASSUME BoundsAssumption   == {MaxRuns, MaxCrashes, LogCap} \subseteq Nat

VARIABLES
    store,    \* the checkpoint store: the latest checkpoint of every thread
    runs,     \* how often each id was submitted
    crashes,  \* how many crashes there were
    logged,   \* the audit log: lines written per id and action, up to LogCap
    reply,    \* what the last request that was served for each id was answered
    pc,       \* where each process's handler is
    target,   \* the id it works for
    work,     \* the checkpoint it has computed
    resume,   \* the resolution it passes to interrupt(), until a node commits
    unsaved   \* has the background writer still to store work?

storeVars  == <<store, runs, crashes, logged, reply>>
serverVars == <<pc, target, work, resume, unsaved>>
vars       == <<store, runs, crashes, logged, reply, pc, target, work, resume, unsaved>>

-----------------------------------------------------------------------------
(* Checkpoints.                                                             *)

Nodes == {"intake", "document_extraction_agent", "risk_scoring_agent",
          "policy_compliance_agent", "human_escalation", "explainability_agent",
          "decision_output"}

LlmNodes == {"document_extraction_agent", "explainability_agent"}

AuditActions == {"application_received", "financials_extracted", "risk_scored",
                 "policy_evaluated", "escalation_requested", "escalation_resolved",
                 "rationale_generated", "decision_finalized"}

\* A thread without values.  next is the node to run, and "end" is an empty
\* snapshot.next; interrupted is a recorded interrupt; the audit trail of the
\* code is earlier \o trail, cut where the last submission begins.
NoThread ==
    [next |-> "end", interrupted |-> FALSE, status |-> "none", application |-> None,
     extracted |-> None, risk |-> None, flags |-> {}, resolution |-> None,
     decision |-> None, earlier |-> <<>>, trail |-> <<>>]

AuditTrail(c) == c.earlier \o c.trail

\* What one more node makes of a checkpoint: its successor and audit event.
Advance(c, node, event) == [c EXCEPT !.next = node, !.trail = Append(@, event)]

X_SubmitFromScratch(c, payload) ==
    [c EXCEPT !.next = "intake", !.interrupted = FALSE, !.status = "in_progress",
              !.application = payload, !.trail = <<>>]

\* start_application's initial state, written over what the thread holds: keys
\* it does not name keep their values and the trails are added to.  LangGraph
\* applies it in two checkpoints; here it is one.
Submitted(c, payload) ==
    [c EXCEPT !.next = "intake", !.interrupted = FALSE, !.status = "in_progress",
              !.application = payload, !.earlier = @ \o c.trail, !.trail = <<>>]

Received(c) ==
    [Advance(c, "document_extraction_agent", "application_received")
        EXCEPT !.status = "in_progress"]

Extracted(c, fin) ==
    [Advance(c, "risk_scoring_agent", "financials_extracted") EXCEPT !.extracted = fin]

Scored(c) ==
    [Advance(c, "policy_compliance_agent", "risk_scored")
        EXCEPT !.risk = AssessRisk(c.application, c.extracted)]

Evaluated(c) ==
    LET found == EvaluatePolicy(c.application, c.extracted)
    IN  [Advance(c, RouteAfterPolicy(c.risk, found), "policy_evaluated")
            EXCEPT !.flags = found]

\* interrupt(): the checkpoint stays where it is, with an interrupt on record.
Paused(c) == [c EXCEPT !.interrupted = TRUE]

X_ResolvedRecordsAnswerOnly(c, resolution) ==
    [Advance(c, "explainability_agent", "escalation_resolved")
        EXCEPT !.interrupted = FALSE, !.status = "escalation_resolved",
               !.resolution = resolution]

X_ResolvedBackToPolicy(c, resolution) ==
    [Advance(c, "policy_compliance_agent", "escalation_resolved")
        EXCEPT !.interrupted = FALSE, !.status = "escalation_resolved",
               !.resolution = resolution]

\* The node past interrupt(): both of its audit events enter the trail here.
Resolved(c, resolution) ==
    [Advance(Advance(c, "human_escalation", "escalation_requested"),
             "explainability_agent", "escalation_resolved")
        EXCEPT !.interrupted = FALSE, !.status = "escalation_resolved",
               !.resolution = resolution]

X_DecisionByNode(c) ==
    LET o == IF c.resolution = None THEN StraightThrough(c.risk, c.flags)
             ELSE ReviewerOutcome(c.resolution.approve, c.risk, c.flags)
    IN  [outcome |-> o.outcome, reasons |-> o.reasons,
         decidedBy |-> IF c.resolution = None THEN "explainability_agent"
                       ELSE "human_escalation"]

\* determine_outcome and the Decision record.  The resolution is whatever the
\* thread holds.
DecisionOn(c) ==
    LET o == IF c.resolution = None THEN StraightThrough(c.risk, c.flags)
             ELSE ReviewerOutcome(c.resolution.approve, c.risk, c.flags)
    IN  [outcome |-> o.outcome, reasons |-> o.reasons,
         decidedBy |-> IF c.resolution = None THEN "explainability_agent"
                       ELSE c.resolution.reviewer]

X_ExplainedCompletes(c) ==
    [Advance(c, "decision_output", "rationale_generated")
        EXCEPT !.decision = DecisionOn(c), !.status = "completed"]

Explained(c) ==
    [Advance(c, "decision_output", "rationale_generated") EXCEPT !.decision = DecisionOn(c)]

X_FinalizedKeepsStatus(c) == Advance(c, "end", "decision_finalized")

Finalized(c) == [Advance(c, "end", "decision_finalized") EXCEPT !.status = "completed"]

\* get_application: any pending node at all reads as an escalation.
StatusOf(c) == IF c.next # "end" THEN "awaiting_escalation" ELSE c.status

Summary(c) == [status |-> StatusOf(c), decision |-> c.decision]

\* A summary, and how much of the trail it comes with is of earlier submissions.
Answer(c) == [began |-> Len(c.earlier), summary |-> Summary(c)]

\* get_rationale answers as soon as there is a decision.
RationaleAvailable(c) == c.status # "none" /\ c.decision # None

-----------------------------------------------------------------------------
(* Steps of a process.                                                      *)

Init ==
    /\ store   = [a \in Apps |-> NoThread]
    /\ runs    = [a \in Apps |-> 0]
    /\ crashes = 0
    /\ logged  = [a \in Apps |-> [x \in AuditActions |-> 0]]
    /\ reply   = [a \in Apps |-> None]
    /\ pc      = [s \in Servers |-> "idle"]
    /\ target  = [s \in Servers |-> None]
    /\ work    = [s \in Servers |-> NoThread]
    /\ resume  = [s \in Servers |-> None]
    /\ unsaved = [s \in Servers |-> FALSE]

\* record_audit_event writes the line at once, whatever becomes of the node.
Log(a, events) ==
    logged' = [logged EXCEPT ![a] =
                 [x \in AuditActions |->
                    IF x \in events /\ @[x] < LogCap THEN @[x] + 1 ELSE @[x]]]

\* The handler of s is gone, answered or not.
Release(s) ==
    /\ pc'      = [pc EXCEPT ![s] = "idle"]
    /\ target'  = [target EXCEPT ![s] = None]
    /\ work'    = [work EXCEPT ![s] = NoThread]
    /\ resume'  = [resume EXCEPT ![s] = None]
    /\ unsaved' = [unsaved EXCEPT ![s] = FALSE]

\* POST /applications: graph.invoke(initial_state) on the thread of the id.
StartApplication(s, a, payload) ==
    /\ pc[s] = "idle"
    /\ runs[a] < MaxRuns
    /\ runs'    = [runs EXCEPT ![a] = @ + 1]
    /\ pc'      = [pc EXCEPT ![s] = "running"]
    /\ target'  = [target EXCEPT ![s] = a]
    /\ work'    = [work EXCEPT ![s] = Submitted(store[a], payload)]
    /\ unsaved' = [unsaved EXCEPT ![s] = TRUE]
    /\ UNCHANGED <<store, crashes, logged, reply, resume>>

\* POST .../escalation-resolve: the service's checks, on a snapshot.  The
\* requests it refuses (404, 409) change nothing.
CheckResolve(s, a, resolution) ==
    /\ pc[s] = "idle"
    /\ store[a].status # "none"
    /\ store[a].next # "end"
    /\ pc'     = [pc EXCEPT ![s] = "checked"]
    /\ target' = [target EXCEPT ![s] = a]
    /\ resume' = [resume EXCEPT ![s] = resolution]
    /\ UNCHANGED <<store, runs, crashes, logged, reply, work, unsaved>>

X_ResumeTakesPause(s) ==
    /\ pc[s] = "checked"
    /\ work'    = [work EXCEPT ![s] = [store[target[s]] EXCEPT !.interrupted = FALSE]]
    /\ unsaved' = [unsaved EXCEPT ![s] = TRUE]
    /\ pc'      = [pc EXCEPT ![s] = IF store[target[s]].next = "end" THEN "returning"
                                    ELSE "running"]
    /\ UNCHANGED <<store, runs, crashes, logged, reply, target, resume>>

\* graph.invoke(Command(resume)): the thread is read again.  One that has
\* finished meanwhile has nothing to run.
Resume(s) ==
    /\ pc[s] = "checked"
    /\ work' = [work EXCEPT ![s] = store[target[s]]]
    /\ pc'   = [pc EXCEPT ![s] = IF store[target[s]].next = "end" THEN "returning"
                                 ELSE "running"]
    /\ UNCHANGED <<store, runs, crashes, logged, reply, target, resume, unsaved>>

AtNode(s, node) == pc[s] = "running" /\ work[s].next = node

\* A node returned: its superstep commits, and a resume value dies with it.
Commit(s, c, events) ==
    /\ Log(target[s], events)
    /\ work'    = [work EXCEPT ![s] = c]
    /\ unsaved' = [unsaved EXCEPT ![s] = TRUE]
    /\ resume'  = [resume EXCEPT ![s] = None]
    /\ pc'      = [pc EXCEPT ![s] = IF c.next = "end" THEN "returning" ELSE "running"]
    /\ UNCHANGED <<store, runs, crashes, reply, target>>

IntakeNode(s) ==
    /\ AtNode(s, "intake")
    /\ Commit(s, Received(work[s]), {"application_received"})

\* The offline model parses the document; a hosted one answers anything that
\* the ExtractedFinancials model accepts.
ExtractionsOf(payload) ==
    IF ProviderAnswers # {} THEN ProviderAnswers
    ELSE IF ExtractionRaises(payload.document) THEN {}
    ELSE {MockExtraction(payload.document)}

ExtractionNode(s) ==
    /\ AtNode(s, "document_extraction_agent")
    /\ \E fin \in ExtractionsOf(work[s].application) :
          Commit(s, Extracted(work[s], fin), {"financials_extracted"})

RiskNode(s) ==
    /\ AtNode(s, "risk_scoring_agent")
    /\ Commit(s, Scored(work[s]), {"risk_scored"})

PolicyNode(s) ==
    /\ AtNode(s, "policy_compliance_agent")
    /\ Commit(s, Evaluated(work[s]), {"policy_evaluated"})

\* interrupt() without a resume value: the audit line is written, the event is
\* not returned, and the run stops here.
EscalationPauses(s) ==
    /\ AtNode(s, "human_escalation")
    /\ resume[s] = None
    /\ Log(target[s], {"escalation_requested"})
    /\ work'    = [work EXCEPT ![s] = Paused(@)]
    /\ unsaved' = [unsaved EXCEPT ![s] = TRUE]
    /\ pc'      = [pc EXCEPT ![s] = "returning"]
    /\ UNCHANGED <<store, runs, crashes, reply, target, resume>>

X_EscalationLogsAnswerOnly(s) ==
    /\ AtNode(s, "human_escalation")
    /\ resume[s] # None
    /\ Commit(s, Resolved(work[s], resume[s]), {"escalation_resolved"})

\* With one, the node runs from its first line again, and past interrupt().
EscalationResumes(s) ==
    /\ AtNode(s, "human_escalation")
    /\ resume[s] # None
    /\ Commit(s, Resolved(work[s], resume[s]),
              {"escalation_requested", "escalation_resolved"})

ExplainabilityNode(s) ==
    /\ AtNode(s, "explainability_agent")
    /\ Commit(s, Explained(work[s]), {"rationale_generated"})

OutputNode(s) ==
    /\ AtNode(s, "decision_output")
    /\ Commit(s, Finalized(work[s]), {"decision_finalized"})

\* The chat model gave up, or the document cannot be parsed: the exception
\* leaves graph.invoke and the node stays the thread's next one.
NodeFails(s) ==
    /\ \E node \in LlmNodes :
          /\ AtNode(s, node)
          /\ \/ LlmFaults
             \/ /\ node = "document_extraction_agent"
                /\ ExtractionsOf(work[s].application) = {}
    /\ pc'     = [pc EXCEPT ![s] = "raising"]
    /\ resume' = [resume EXCEPT ![s] = None]
    /\ UNCHANGED <<store, runs, crashes, logged, reply, target, work, unsaved>>

\* The background writer stores the newest checkpoint it was given.
Flush(s) ==
    /\ unsaved[s]
    /\ store'   = [store EXCEPT ![target[s]] = work[s]]
    /\ unsaved' = [unsaved EXCEPT ![s] = FALSE]
    /\ UNCHANGED <<runs, crashes, logged, reply, pc, target, work, resume>>

X_ReturnCompletedOnly(s) ==
    /\ pc[s] = "returning"
    /\ ~unsaved[s]
    /\ store[target[s]].status = "completed"
    /\ reply' = [reply EXCEPT ![target[s]] = Answer(store[target[s]])]
    /\ Release(s)
    /\ UNCHANGED <<store, runs, crashes, logged>>

\* invoke waited for the writer; the answer is get_application's.
Return(s) ==
    /\ pc[s] = "returning"
    /\ ~unsaved[s]
    /\ reply' = [reply EXCEPT ![target[s]] = Answer(store[target[s]])]
    /\ Release(s)
    /\ UNCHANGED <<store, runs, crashes, logged>>

\* So did the failing invoke; the client gets a 500.
Raise(s) ==
    /\ pc[s] = "raising"
    /\ ~unsaved[s]
    /\ Release(s)
    /\ UNCHANGED <<store, runs, crashes, logged, reply>>

\* The process dies under its handler: the store keeps what was flushed.
Crash(s) ==
    /\ pc[s] # "idle"
    /\ crashes < MaxCrashes
    /\ crashes' = crashes + 1
    /\ Release(s)
    /\ UNCHANGED <<store, runs, logged, reply>>

\* What a handler does once a request is accepted.
HandlerStep(s) ==
    \/ Resume(s)
    \/ IntakeNode(s) \/ ExtractionNode(s) \/ RiskNode(s) \/ PolicyNode(s)
    \/ EscalationPauses(s) \/ EscalationResumes(s)
    \/ ExplainabilityNode(s) \/ OutputNode(s)
    \/ NodeFails(s) \/ Flush(s) \/ Return(s) \/ Raise(s)

Next ==
    \E s \in Servers :
        \/ \E a \in Apps, payload \in Payloads : StartApplication(s, a, payload)
        \/ \E a \in Apps, resolution \in Resolutions : CheckResolve(s, a, resolution)
        \/ HandlerStep(s)
        \/ Crash(s)

Spec == Init /\ [][Next]_vars

\* A handler that has begun goes on; clients, reviewers and crashes need not.
FairSpec == Spec /\ \A s \in Servers : WF_vars(HandlerStep(s))

-----------------------------------------------------------------------------
(* Types.                                                                   *)

Risks == [dti : Int, band : Bands, tier : Tiers]

Deciders == {"explainability_agent"} \union {r.reviewer : r \in Resolutions}

Decisions == [outcome : Outcomes, reasons : SUBSET AdverseCodes, decidedBy : Deciders]

Statuses == {"none", "in_progress", "escalation_resolved", "completed"}

Checkpoints ==
    [next : Nodes \union {"end"}, interrupted : BOOLEAN, status : Statuses,
     application : Payloads \union {None}, extracted : Financials \union {None},
     risk : Risks \union {None}, flags : SUBSET FlagCodes,
     resolution : Resolutions \union {None}, decision : Decisions \union {None},
     earlier : Seq(AuditActions), trail : Seq(AuditActions)]

Summaries ==
    [status : Statuses \union {"awaiting_escalation"}, decision : Decisions \union {None}]

Answers == [began : Nat, summary : Summaries]

\* Every variable has its type; a process that works has an id to work for.
TypeOK ==
    /\ store \in [Apps -> Checkpoints]
    /\ runs \in [Apps -> 0..MaxRuns]
    /\ crashes \in 0..MaxCrashes
    /\ logged \in [Apps -> [AuditActions -> 0..LogCap]]
    /\ reply \in [Apps -> Answers \union {None}]
    /\ pc \in [Servers -> {"idle", "checked", "running", "returning", "raising"}]
    /\ target \in [Servers -> Apps \union {None}]
    /\ work \in [Servers -> Checkpoints]
    /\ resume \in [Servers -> Resolutions \union {None}]
    /\ unsaved \in [Servers -> BOOLEAN]
    /\ \A s \in Servers : (pc[s] # "idle" \/ unsaved[s]) => target[s] \in Apps

-----------------------------------------------------------------------------
(* Properties of a checkpoint, required of every stored one and of every    *)
(* one a process works on.                                                  *)

EveryCheckpoint(P(_)) ==
    /\ \A a \in Apps : P(store[a])
    /\ \A s \in Servers : P(work[s])

\* A case the rules leave to a reviewer (GOVERNANCE.md, section 4).
IsReviewCase(c) == c.risk.tier = "borderline" \/ c.flags \intersect BlockFlags # {}

AfterIntake     == <<"application_received">>
AfterExtraction == Append(AfterIntake, "financials_extracted")
AfterRisk       == Append(AfterExtraction, "risk_scored")
AfterPolicy     == Append(AfterRisk, "policy_evaluated")
AfterReview(c)  ==
    IF IsReviewCase(c)
    THEN Append(Append(AfterPolicy, "escalation_requested"), "escalation_resolved")
    ELSE AfterPolicy
AfterRationale(c) == Append(AfterReview(c), "rationale_generated")

\* The audit events of the nodes that have run since the submission.
ExpectedTrail(c) ==
    CASE c.next = "intake"                    -> <<>>
      [] c.next = "document_extraction_agent" -> AfterIntake
      [] c.next = "risk_scoring_agent"        -> AfterExtraction
      [] c.next = "policy_compliance_agent"   -> AfterRisk
      [] c.next = "human_escalation"          -> AfterPolicy
      [] c.next = "explainability_agent"      -> AfterReview(c)
      [] c.next = "decision_output"           -> AfterRationale(c)
      [] c.next = "end"                       -> Append(AfterRationale(c), "decision_finalized")

TrailMatches(c) == c.status # "none" => c.trail = ExpectedTrail(c)

\* The audit trail names exactly the nodes that have run since the last
\* submission, in order, and the review exactly if the case called for one -
\* over crashes, failed nodes, resumes and other processes (nodes.py returns one
\* event per node; GOVERNANCE.md, section 5).
TrailTellsThePath == EveryCheckpoint(TrailMatches)

Decided(c) == c.status # "none" /\ c.next \in {"decision_output", "end"}

ReviewedRight(c) ==
    Decided(c) /\ IsReviewCase(c) =>
        /\ c.resolution # None
        /\ c.decision.decidedBy = c.resolution.reviewer
        /\ c.decision.outcome = "approved" <=> c.resolution.approve

\* No borderline or blocked case is decided without a reviewer, whose answer is
\* the outcome: no crash, failed node or lost resume value lets one slip to the
\* automatic rules (route_after_policy, determine_outcome).
ReviewCasesAreReviewed == EveryCheckpoint(ReviewedRight)

AutomaticRight(c) ==
    Decided(c) /\ ~IsReviewCase(c) =>
        /\ c.decision.decidedBy = "explainability_agent"
        /\ c.decision.outcome = "denied" <=> c.risk.tier = "high"

\* A case the rules decide is decided by this run's risk tier and by nobody
\* else (decisioning.py, "Straight-through (not escalated)").
OtherCasesAreAutomatic == EveryCheckpoint(AutomaticRight)

-----------------------------------------------------------------------------
(* Properties of the store and what clients and the log were told.          *)

\* A reviewer's answer is on the record of this submission.
ReviewRecorded(c) == \E i \in 1..Len(c.trail) : c.trail[i] = "escalation_resolved"

\* The id was submitted again since the answer; or its decision is the stored one;
\* or its pause can still be resolved, or was.
StillStands(answer, c) ==
    \/ answer.began < Len(c.earlier)
    \/ /\ answer.began = Len(c.earlier)
       /\ \/ answer.summary.status = "completed" /\ answer.summary = Summary(c)
          \/ /\ answer.summary.status = "awaiting_escalation"
             /\ c.interrupted \/ ReviewRecorded(c)

\* A client is told of a decision or of a pause, and what it was told is never
\* lost: the store keeps the decision as told, and the pause until a review of it
\* is on record, in the middle of every later request and so whenever a process
\* dies - until a later submission is stored (nodes.py: the pause "survives an API
\* process restart").
AnswersAreDurable ==
    \A a \in Apps : reply[a] # None => StillStands(reply[a], store[a])

Occurrences(x, trail) == Cardinality({i \in 1..Len(trail) : trail[i] = x})

\* Every event of a stored audit trail was also written to the audit log:
\* whatever part of the history a crash or a retry repeats, the log is never
\* behind the store (audit_log.py).
LogCoversTrail ==
    \A a \in Apps : \A x \in AuditActions :
        \/ logged[a][x] >= Occurrences(x, AuditTrail(store[a]))
        \/ logged[a][x] = LogCap

\* A stored decision that is completed is final, unless its id is submitted
\* again: no resume, crash or late write changes it, its trail or the
\* reviewer's resolution.
CompletedIsFinal ==
    [][\A a \in Apps :
          store[a].status = "completed" /\ runs[a] <= 1 => store'[a] = store[a]]_vars

StartsWith(longer, shorter) ==
    /\ Len(shorter) <= Len(longer)
    /\ SubSeq(longer, 1, Len(shorter)) = shorter

\* The stored audit trail only ever grows, also when an id is submitted again
\* (state.py: "append-only via reducer").
TrailOnlyGrows ==
    [][\A a \in Apps : StartsWith(AuditTrail(store'[a]), AuditTrail(store[a]))]_vars

-----------------------------------------------------------------------------
(* Liveness, under FairSpec.                                                *)

\* Every accepted request is answered, with an error if need be, or dies with
\* its process: a paused run does not keep its handler.
HandlersEnd == \A s \in Servers : pc[s] # "idle" ~> pc[s] = "idle"

Unreadable(c) == c.application # None /\ ExtractionsOf(c.application) = {}

\* While model calls and processes do not fail, every submission ends in a
\* stored decision or a pause, unless its document cannot be read at all.
SubmissionsSettle ==
    \A a \in Apps :
        runs[a] > 0 ~> \/ store[a].status = "completed"
                       \/ store[a].interrupted
                       \/ Unreadable(store[a])

\* While they do not fail, a reviewer's answer to a pause leads to a completed run.
ReviewsComplete ==
    \A a \in Apps, s \in Servers :
        pc[s] = "checked" /\ target[s] = a /\ store[a].interrupted
          ~> store[a].status = "completed"

-----------------------------------------------------------------------------
(* What the repository says, and the code does not do.                      *)

\* application_service.py: a resolution is refused unless the run is "currently
\* paused at human_escalation".
OnlyPausedRunsAreResolved ==
    \A s \in Servers : pc[s] = "checked" => store[target[s]].interrupted

=============================================================================
