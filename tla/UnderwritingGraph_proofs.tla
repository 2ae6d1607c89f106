---------------------- MODULE UnderwritingGraph_proofs ----------------------
(***************************************************************************)
(* Proofs about UnderwritingGraph, for any ids, processes, applications,   *)
(* reviewers and bounds: its type, that every handler runs out of steps,   *)
(* that the audit trail tells the nodes that ran, and that no case that    *)
(* calls for a reviewer is decided without one.                            *)
(***************************************************************************)
EXTENDS UnderwritingGraph, LendingRules_proofs

-----------------------------------------------------------------------------
(* The rules return values of the checkpoint's types.                       *)

LEMMA AssessRiskType ==
    ASSUME NEW app \in Payloads, NEW fin \in Financials
    PROVE  AssessRisk(app, fin) \in Risks
<1>1. /\ app.statedAnnualIncome \in Nat /\ app.creditScore \in Int
      /\ fin.monthlyGross \in Nat /\ fin.monthlyDebt \in Nat
  BY PayloadsAssumption DEF Financials
<1> QED
  BY <1>1, AssessRiskRange DEF Risks

LEMMA MockExtractionType ==
    ASSUME NEW doc \in Documents, ~ExtractionRaises(doc)
    PROVE  MockExtraction(doc) \in Financials
BY MockExtractionRange DEF Documents, MoneyFigures, Financials

LEMMA ExtractionsType ==
    ASSUME NEW payload \in Payloads
    PROVE  ExtractionsOf(payload) \subseteq Financials
<1>1. payload.document \in Documents
  BY PayloadsAssumption
<1> QED
  BY <1>1, MockExtractionType, ProviderAssumption DEF ExtractionsOf

-----------------------------------------------------------------------------
(* Type correctness.  Strengthening: a checkpoint with a node to run has    *)
(* what that node reads.                                                    *)

HasInput(c) ==
    /\ c.next # "end" => c.application # None
    /\ c.next = "risk_scoring_agent" => c.extracted # None

Typed(c) == c \in Checkpoints /\ HasInput(c)

TypeInv ==
    /\ TypeOK
    /\ \A a \in Apps : HasInput(store[a])
    /\ \A s \in Servers : HasInput(work[s])

\* The type of an audit trail, under a name: the provers mix sequences and
\* records of many fields badly.
Trails == Seq(AuditActions)

CheckpointsOver(S) ==
    [next : Nodes \union {"end"}, interrupted : BOOLEAN, status : Statuses,
     application : Payloads \union {None}, extracted : Financials \union {None},
     risk : Risks \union {None}, flags : SUBSET FlagCodes,
     resolution : Resolutions \union {None}, decision : Decisions \union {None},
     earlier : S, trail : S]

LEMMA TrailOps ==
    /\ <<>> \in Trails
    /\ \A t \in Trails : \A x \in AuditActions : Append(t, x) \in Trails
    /\ \A t, u \in Trails : t \o u \in Trails
BY DEF Trails

LEMMA CheckpointsAre == Checkpoints = CheckpointsOver(Trails)
BY DEF Checkpoints, CheckpointsOver, Trails

LEMMA NoThreadTyped == Typed(NoThread)
BY DEF Typed, HasInput, NoThread, Checkpoints, Statuses

LEMMA SubmittedTyped ==
    ASSUME NEW c, Typed(c), NEW payload \in Payloads
    PROVE  Typed(Submitted(c, payload))
<1>1. c \in CheckpointsOver(Trails)
  BY CheckpointsAre DEF Typed
<1>2. c.earlier \o c.trail \in Trails /\ <<>> \in Trails
  BY <1>1, TrailOps DEF CheckpointsOver
<1>3. Submitted(c, payload) \in CheckpointsOver(Trails)
  BY <1>1, <1>2 DEF Submitted, CheckpointsOver, Statuses, Nodes
<1> QED
  BY <1>1, <1>3, CheckpointsAre, NoneAssumption DEF Typed, HasInput, Submitted, CheckpointsOver

LEMMA AdvanceTyped ==
    ASSUME NEW c \in Checkpoints, NEW node \in Nodes \union {"end"},
           NEW event \in AuditActions
    PROVE  Advance(c, node, event) \in Checkpoints
<1>1. c \in CheckpointsOver(Trails)
  BY CheckpointsAre
<1>2. Append(c.trail, event) \in Trails
  BY <1>1, TrailOps DEF CheckpointsOver
<1>3. Advance(c, node, event) \in CheckpointsOver(Trails)
  BY <1>1, <1>2 DEF Advance, CheckpointsOver
<1> QED
  BY <1>3, CheckpointsAre

\* What Advance leaves alone and what it sets, for a leaf that need not know how.
LEMMA AdvanceFields ==
    ASSUME NEW c \in Checkpoints, NEW node, NEW event
    PROVE  LET d == Advance(c, node, event)
           IN  /\ d.next = node /\ d.trail = Append(c.trail, event)
               /\ d.application = c.application /\ d.extracted = c.extracted
               /\ d.risk = c.risk /\ d.flags = c.flags
               /\ d.resolution = c.resolution /\ d.decision = c.decision
               /\ d.status = c.status
BY CheckpointsAre DEF Advance, CheckpointsOver

LEMMA ReceivedTyped ==
    ASSUME NEW c, Typed(c), c.next = "intake"
    PROVE  Typed(Received(c))
<1> DEFINE d == Advance(c, "document_extraction_agent", "application_received")
<1>1. c \in Checkpoints /\ c.application # None
  BY DEF Typed, HasInput
<1>2. d \in CheckpointsOver(Trails)
  BY <1>1, AdvanceTyped, CheckpointsAre DEF Nodes, AuditActions
<1>3. d.next = "document_extraction_agent" /\ d.application = c.application
  BY <1>1, AdvanceFields
<1> HIDE DEF d
<1>4. [d EXCEPT !.status = "in_progress"] \in CheckpointsOver(Trails)
  BY <1>2 DEF CheckpointsOver, Statuses
<1>5. HasInput([d EXCEPT !.status = "in_progress"])
  BY <1>1, <1>2, <1>3 DEF HasInput, CheckpointsOver
<1> QED
  BY <1>4, <1>5, CheckpointsAre DEF Typed, Received, d

LEMMA ExtractedTyped ==
    ASSUME NEW c, Typed(c), c.next = "document_extraction_agent", NEW fin \in Financials
    PROVE  Typed(Extracted(c, fin))
<1> DEFINE d == Advance(c, "risk_scoring_agent", "financials_extracted")
<1>1. c \in Checkpoints /\ c.application # None
  BY DEF Typed, HasInput
<1>2. d \in CheckpointsOver(Trails)
  BY <1>1, AdvanceTyped, CheckpointsAre DEF Nodes, AuditActions
<1>3. d.next = "risk_scoring_agent" /\ d.application = c.application
  BY <1>1, AdvanceFields
<1> HIDE DEF d
<1>4. [d EXCEPT !.extracted = fin] \in CheckpointsOver(Trails)
  BY <1>2 DEF CheckpointsOver
<1>5. HasInput([d EXCEPT !.extracted = fin])
  BY <1>1, <1>2, <1>3, NoneAssumption DEF HasInput, CheckpointsOver
<1> QED
  BY <1>4, <1>5, CheckpointsAre DEF Typed, Extracted, d

LEMMA ScoredTyped ==
    ASSUME NEW c, Typed(c), c.next = "risk_scoring_agent"
    PROVE  Typed(Scored(c))
<1> DEFINE d    == Advance(c, "policy_compliance_agent", "risk_scored")
           risk == AssessRisk(c.application, c.extracted)
<1>1. c \in Checkpoints /\ c.application # None /\ c.extracted # None
  BY DEF Typed, HasInput
<1>2. d \in CheckpointsOver(Trails)
  BY <1>1, AdvanceTyped, CheckpointsAre DEF Nodes, AuditActions
<1>3. d.next = "policy_compliance_agent" /\ d.application = c.application
  BY <1>1, AdvanceFields
<1>4. risk \in Risks
  BY <1>1, CheckpointsAre, AssessRiskType DEF CheckpointsOver
<1> HIDE DEF d, risk
<1>5. [d EXCEPT !.risk = risk] \in CheckpointsOver(Trails)
  BY <1>2, <1>4 DEF CheckpointsOver
<1>6. HasInput([d EXCEPT !.risk = risk])
  BY <1>1, <1>2, <1>3 DEF HasInput, CheckpointsOver
<1> QED
  BY <1>5, <1>6, CheckpointsAre DEF Typed, Scored, d, risk

LEMMA EvaluatedTyped ==
    ASSUME NEW c, Typed(c), c.next = "policy_compliance_agent"
    PROVE  Typed(Evaluated(c))
<1> DEFINE found == EvaluatePolicy(c.application, c.extracted)
           node  == RouteAfterPolicy(c.risk, found)
           d     == Advance(c, node, "policy_evaluated")
<1>1. c \in Checkpoints /\ c.application # None
  BY DEF Typed, HasInput
<1>2. found \subseteq FlagCodes
  BY DEF EvaluatePolicy, FlagCodes, BlockFlags, WarnFlags
<1>3. node \in {"human_escalation", "explainability_agent"}
  BY DEF RouteAfterPolicy
<1> HIDE DEF found, node
<1>4. d \in CheckpointsOver(Trails)
  BY <1>1, <1>3, AdvanceTyped, CheckpointsAre DEF Nodes, AuditActions
<1>5. d.next = node /\ d.application = c.application
  BY <1>1, AdvanceFields
<1> HIDE DEF d
<1>6. [d EXCEPT !.flags = found] \in CheckpointsOver(Trails)
  BY <1>2, <1>4 DEF CheckpointsOver
<1>7. HasInput([d EXCEPT !.flags = found])
  BY <1>1, <1>3, <1>4, <1>5 DEF HasInput, CheckpointsOver
<1> QED
  BY <1>6, <1>7, CheckpointsAre DEF Typed, Evaluated, d, found, node

LEMMA PausedTyped ==
    ASSUME NEW c, Typed(c)
    PROVE  Typed(Paused(c))
<1>1. c \in CheckpointsOver(Trails)
  BY CheckpointsAre DEF Typed
<1>2. Paused(c) \in CheckpointsOver(Trails)
  BY <1>1 DEF Paused, CheckpointsOver
<1> QED
  BY <1>1, <1>2, CheckpointsAre DEF Typed, HasInput, Paused, CheckpointsOver

LEMMA ResolvedTyped ==
    ASSUME NEW c, Typed(c), c.next = "human_escalation", NEW resolution \in Resolutions
    PROVE  Typed(Resolved(c, resolution))
<1> DEFINE b == Advance(c, "human_escalation", "escalation_requested")
           d == Advance(b, "explainability_agent", "escalation_resolved")
           e == [d EXCEPT !.interrupted = FALSE, !.status = "escalation_resolved",
                          !.resolution = resolution]
<1>1. c \in Checkpoints /\ c.application # None
  BY DEF Typed, HasInput
<1>2. b \in Checkpoints
  BY <1>1, AdvanceTyped DEF Nodes, AuditActions
<1>3. b.application = c.application
  BY <1>1, AdvanceFields
<1> HIDE DEF b
<1>4. d \in CheckpointsOver(Trails)
  BY <1>2, AdvanceTyped, CheckpointsAre DEF Nodes, AuditActions
<1>5. d.next = "explainability_agent" /\ d.application = c.application
  BY <1>2, <1>3, AdvanceFields
<1> HIDE DEF d
<1>6. e \in CheckpointsOver(Trails)
  BY <1>4 DEF CheckpointsOver, Statuses
<1>7. HasInput(e)
  BY <1>1, <1>4, <1>5 DEF HasInput, CheckpointsOver
<1>8. e = Resolved(c, resolution)
  BY DEF Resolved, d, b
<1> QED
  BY <1>6, <1>7, <1>8, CheckpointsAre DEF Typed

LEMMA DecisionType ==
    ASSUME NEW c \in Checkpoints
    PROVE  DecisionOn(c) \in Decisions
<1> DEFINE o == IF c.resolution = None THEN StraightThrough(c.risk, c.flags)
                ELSE ReviewerOutcome(c.resolution.approve, c.risk, c.flags)
           by == IF c.resolution = None THEN "explainability_agent" ELSE c.resolution.reviewer
<1>1. c.resolution # None => c.resolution \in Resolutions /\ c.resolution.approve \in BOOLEAN
  BY CheckpointsAre, ResolutionsAssumption DEF CheckpointsOver
<1>2. o.outcome \in Outcomes /\ o.reasons \subseteq AdverseCodes
  BY <1>1, OutcomeType
<1>3. by \in Deciders
  BY <1>1 DEF Deciders
<1> HIDE DEF o, by
<1>4. [outcome |-> o.outcome, reasons |-> o.reasons, decidedBy |-> by] \in Decisions
  BY <1>2, <1>3 DEF Decisions
<1> QED
  BY <1>4 DEF DecisionOn, o, by

LEMMA ExplainedTyped ==
    ASSUME NEW c, Typed(c), c.next = "explainability_agent"
    PROVE  Typed(Explained(c))
<1> DEFINE d == Advance(c, "decision_output", "rationale_generated")
           decision == DecisionOn(c)
<1>1. c \in Checkpoints /\ c.application # None
  BY DEF Typed, HasInput
<1>2. d \in CheckpointsOver(Trails)
  BY <1>1, AdvanceTyped, CheckpointsAre DEF Nodes, AuditActions
<1>3. d.next = "decision_output" /\ d.application = c.application
  BY <1>1, AdvanceFields
<1>4. decision \in Decisions
  BY <1>1, DecisionType
<1> HIDE DEF d, decision
<1>5. [d EXCEPT !.decision = decision] \in CheckpointsOver(Trails)
  BY <1>2, <1>4 DEF CheckpointsOver
<1>6. HasInput([d EXCEPT !.decision = decision])
  BY <1>1, <1>2, <1>3 DEF HasInput, CheckpointsOver
<1> QED
  BY <1>5, <1>6, CheckpointsAre DEF Typed, Explained, d, decision

LEMMA FinalizedTyped ==
    ASSUME NEW c, Typed(c), c.next = "decision_output"
    PROVE  Typed(Finalized(c))
<1> DEFINE d == Advance(c, "end", "decision_finalized")
<1>1. c \in Checkpoints
  BY DEF Typed
<1>2. d \in CheckpointsOver(Trails)
  BY <1>1, AdvanceTyped, CheckpointsAre DEF AuditActions
<1>3. d.next = "end"
  BY <1>1, AdvanceFields
<1> HIDE DEF d
<1>4. [d EXCEPT !.status = "completed"] \in CheckpointsOver(Trails)
  BY <1>2 DEF CheckpointsOver, Statuses
<1>5. HasInput([d EXCEPT !.status = "completed"])
  BY <1>2, <1>3 DEF HasInput, CheckpointsOver
<1> QED
  BY <1>4, <1>5, CheckpointsAre DEF Typed, Finalized, d

LEMMA AnswerType ==
    ASSUME NEW c \in Checkpoints
    PROVE  Answer(c) \in Answers
<1>1. c.status \in Statuses /\ c.decision \in Decisions \union {None}
  BY CheckpointsAre DEF CheckpointsOver
<1>2. StatusOf(c) \in Statuses \union {"awaiting_escalation"}
  BY <1>1 DEF StatusOf
<1>3. Summary(c) \in Summaries
  BY <1>1, <1>2 DEF Summary, Summaries
<1>4. Len(c.earlier) \in Nat
  BY CheckpointsAre DEF CheckpointsOver, Trails
<1> QED
  BY <1>3, <1>4 DEF Answer, Answers

\* The counts of the audit log stay under their bound.
LEMMA LogType ==
    ASSUME NEW a \in Apps, NEW events, Log(a, events),
           logged \in [Apps -> [AuditActions -> 0..LogCap]]
    PROVE  logged' \in [Apps -> [AuditActions -> 0..LogCap]]
<1> DEFINE row == [x \in AuditActions |->
                     IF x \in events /\ logged[a][x] < LogCap
                     THEN logged[a][x] + 1 ELSE logged[a][x]]
<1>1. LogCap \in Nat
  BY BoundsAssumption
<1>2. row \in [AuditActions -> 0..LogCap]
  BY <1>1
<1> HIDE DEF row
<1>3. [logged EXCEPT ![a] = row] \in [Apps -> [AuditActions -> 0..LogCap]]
  BY <1>2
<1> QED
  BY <1>3 DEF Log, row

-----------------------------------------------------------------------------
(* The invariant is kept.                                                   *)

\* It holds before any request.
LEMMA InitTyped == Init => TypeInv
<1> SUFFICES ASSUME Init PROVE TypeInv
  OBVIOUS
<1>1. NoThread \in Checkpoints /\ HasInput(NoThread)
  BY NoThreadTyped DEF Typed
<1>2. runs \in [Apps -> 0..MaxRuns] /\ crashes \in 0..MaxCrashes
  BY BoundsAssumption DEF Init
<1>3. logged \in [Apps -> [AuditActions -> 0..LogCap]]
  BY BoundsAssumption DEF Init
<1>4. store \in [Apps -> Checkpoints] /\ \A a \in Apps : HasInput(store[a])
  BY <1>1 DEF Init
<1>5. work \in [Servers -> Checkpoints] /\ \A s \in Servers : HasInput(work[s])
  BY <1>1 DEF Init
<1>6. /\ reply \in [Apps -> Answers \union {None}]
      /\ pc \in [Servers -> {"idle", "checked", "running", "returning", "raising"}]
      /\ target \in [Servers -> Apps \union {None}]
      /\ resume \in [Servers -> Resolutions \union {None}]
      /\ unsaved \in [Servers -> BOOLEAN]
      /\ \A s \in Servers : (pc[s] # "idle" \/ unsaved[s]) => target[s] \in Apps
  BY DEF Init
<1> QED
  BY <1>2, <1>3, <1>4, <1>5, <1>6 DEF TypeInv, TypeOK

\* A node that returns a typed checkpoint keeps the invariant.
LEMMA CommitTyped ==
    ASSUME TypeInv, NEW s \in Servers, pc[s] = "running", NEW c, Typed(c),
           NEW events, Commit(s, c, events)
    PROVE  TypeInv'
<1>1. target[s] \in Apps
  BY DEF TypeInv, TypeOK
<1>2. logged' \in [Apps -> [AuditActions -> 0..LogCap]]
  BY <1>1, LogType DEF TypeInv, TypeOK, Commit
<1>3. work' \in [Servers -> Checkpoints] /\ \A p \in Servers : HasInput(work'[p])
  BY DEF TypeInv, TypeOK, Commit, Typed
<1>4. pc' \in [Servers -> {"idle", "checked", "running", "returning", "raising"}]
  BY DEF TypeInv, TypeOK, Commit
<1>5. /\ resume' \in [Servers -> Resolutions \union {None}]
      /\ unsaved' \in [Servers -> BOOLEAN]
  BY DEF TypeInv, TypeOK, Commit
<1>6. \A p \in Servers : (pc'[p] # "idle" \/ unsaved'[p]) => target'[p] \in Apps
  BY <1>1 DEF TypeInv, TypeOK, Commit
<1> QED
  BY <1>2, <1>3, <1>4, <1>5, <1>6 DEF TypeInv, TypeOK, Commit

\* So does the end of a handler.
LEMMA ReleaseTyped ==
    ASSUME TypeInv, NEW s \in Servers, Release(s)
    PROVE  /\ pc' \in [Servers -> {"idle", "checked", "running", "returning", "raising"}]
           /\ target' \in [Servers -> Apps \union {None}]
           /\ work' \in [Servers -> Checkpoints]
           /\ resume' \in [Servers -> Resolutions \union {None}]
           /\ unsaved' \in [Servers -> BOOLEAN]
           /\ \A p \in Servers : (pc'[p] # "idle" \/ unsaved'[p]) => target'[p] \in Apps
           /\ \A p \in Servers : HasInput(work'[p])
BY NoThreadTyped DEF TypeInv, TypeOK, Release, Typed

LEMMA StepTyped == TypeInv /\ [Next]_vars => TypeInv'
<1> SUFFICES ASSUME TypeInv, [Next]_vars PROVE TypeInv'
  OBVIOUS
<1>1. ASSUME NEW s \in Servers, NEW a \in Apps, NEW payload \in Payloads,
             StartApplication(s, a, payload)
      PROVE  TypeInv'
  <2>1. Typed(Submitted(store[a], payload))
    BY SubmittedTyped DEF TypeInv, TypeOK, Typed
  <2>2. work' \in [Servers -> Checkpoints] /\ \A p \in Servers : HasInput(work'[p])
    BY <1>1, <2>1 DEF TypeInv, TypeOK, StartApplication, Typed
  <2>3. runs' \in [Apps -> 0..MaxRuns]
    BY <1>1, BoundsAssumption DEF TypeInv, TypeOK, StartApplication
  <2>4. /\ pc' \in [Servers -> {"idle", "checked", "running", "returning", "raising"}]
        /\ target' \in [Servers -> Apps \union {None}]
        /\ unsaved' \in [Servers -> BOOLEAN]
        /\ \A p \in Servers : (pc'[p] # "idle" \/ unsaved'[p]) => target'[p] \in Apps
    BY <1>1 DEF TypeInv, TypeOK, StartApplication
  <2> QED
    BY <1>1, <2>2, <2>3, <2>4 DEF TypeInv, TypeOK, StartApplication
<1>2. ASSUME NEW s \in Servers, NEW a \in Apps, NEW resolution \in Resolutions,
             CheckResolve(s, a, resolution)
      PROVE  TypeInv'
  BY <1>2 DEF TypeInv, TypeOK, CheckResolve
<1>3. ASSUME NEW s \in Servers, Resume(s) PROVE TypeInv'
  <2>1. target[s] \in Apps
    BY <1>3 DEF TypeInv, TypeOK, Resume
  <2> QED
    BY <1>3, <2>1 DEF TypeInv, TypeOK, Resume
<1>4. ASSUME NEW s \in Servers PROVE Typed(work[s])
  BY <1>4 DEF TypeInv, TypeOK, Typed
<1>5. ASSUME NEW s \in Servers, IntakeNode(s) PROVE TypeInv'
  BY <1>4, <1>5, ReceivedTyped, CommitTyped DEF IntakeNode, AtNode
<1>6. ASSUME NEW s \in Servers, ExtractionNode(s) PROVE TypeInv'
  <2>1. AtNode(s, "document_extraction_agent")
    BY <1>6 DEF ExtractionNode
  <2>2. work[s].application \in Payloads
    BY <1>4, <2>1, CheckpointsAre DEF Typed, HasInput, AtNode, CheckpointsOver
  <2>3. PICK fin \in ExtractionsOf(work[s].application) :
           Commit(s, Extracted(work[s], fin), {"financials_extracted"})
    BY <1>6 DEF ExtractionNode
  <2>4. fin \in Financials
    BY <2>2, <2>3, ExtractionsType
  <2> QED
    BY <1>4, <2>1, <2>3, <2>4, ExtractedTyped, CommitTyped DEF AtNode
<1>7. ASSUME NEW s \in Servers, RiskNode(s) PROVE TypeInv'
  BY <1>4, <1>7, ScoredTyped, CommitTyped DEF RiskNode, AtNode
<1>8. ASSUME NEW s \in Servers, PolicyNode(s) PROVE TypeInv'
  BY <1>4, <1>8, EvaluatedTyped, CommitTyped DEF PolicyNode, AtNode
<1>9. ASSUME NEW s \in Servers, EscalationPauses(s) PROVE TypeInv'
  <2>1. target[s] \in Apps
    BY <1>9 DEF TypeInv, TypeOK, EscalationPauses, AtNode
  <2>2. logged' \in [Apps -> [AuditActions -> 0..LogCap]]
    BY <1>9, <2>1, LogType DEF TypeInv, TypeOK, EscalationPauses
  <2>3. Typed(Paused(work[s]))
    BY <1>4, PausedTyped
  <2>4. work' \in [Servers -> Checkpoints] /\ \A p \in Servers : HasInput(work'[p])
    BY <1>9, <2>3 DEF TypeInv, TypeOK, EscalationPauses, Typed
  <2> QED
    BY <1>9, <2>1, <2>2, <2>4 DEF TypeInv, TypeOK, EscalationPauses
<1>10. ASSUME NEW s \in Servers, EscalationResumes(s) PROVE TypeInv'
  <2>1. resume[s] \in Resolutions
    BY <1>10 DEF TypeInv, TypeOK, EscalationResumes
  <2> QED
    BY <1>4, <1>10, <2>1, ResolvedTyped, CommitTyped DEF EscalationResumes, AtNode
<1>11. ASSUME NEW s \in Servers, ExplainabilityNode(s) PROVE TypeInv'
  BY <1>4, <1>11, ExplainedTyped, CommitTyped DEF ExplainabilityNode, AtNode
<1>12. ASSUME NEW s \in Servers, OutputNode(s) PROVE TypeInv'
  BY <1>4, <1>12, FinalizedTyped, CommitTyped DEF OutputNode, AtNode
<1>13. ASSUME NEW s \in Servers, NodeFails(s) PROVE TypeInv'
  <2>1. pc[s] = "running"
    BY <1>13 DEF NodeFails, AtNode
  <2> QED
    BY <1>13, <2>1 DEF TypeInv, TypeOK, NodeFails
<1>14. ASSUME NEW s \in Servers, Flush(s) PROVE TypeInv'
  <2>1. target[s] \in Apps
    BY <1>14 DEF TypeInv, TypeOK, Flush
  <2>2. store' \in [Apps -> Checkpoints] /\ \A a \in Apps : HasInput(store'[a])
    BY <1>14, <2>1 DEF TypeInv, TypeOK, Flush
  <2> QED
    BY <1>14, <2>1, <2>2 DEF TypeInv, TypeOK, Flush
<1>15. ASSUME NEW s \in Servers, Return(s) PROVE TypeInv'
  <2>1. target[s] \in Apps
    BY <1>15 DEF TypeInv, TypeOK, Return
  <2>2. Answer(store[target[s]]) \in Answers
    BY <2>1, AnswerType DEF TypeInv, TypeOK
  <2>3. reply' \in [Apps -> Answers \union {None}]
    BY <1>15, <2>1, <2>2 DEF TypeInv, TypeOK, Return
  <2>4. Release(s)
    BY <1>15 DEF Return
  <2> QED
    BY <1>15, <2>3, <2>4, ReleaseTyped DEF TypeInv, TypeOK, Return
<1>16. ASSUME NEW s \in Servers, Raise(s) PROVE TypeInv'
  <2>1. Release(s)
    BY <1>16 DEF Raise
  <2> QED
    BY <1>16, <2>1, ReleaseTyped DEF TypeInv, TypeOK, Raise
<1>17. ASSUME NEW s \in Servers, Crash(s) PROVE TypeInv'
  <2>1. Release(s)
    BY <1>17 DEF Crash
  <2>2. crashes' \in 0..MaxCrashes
    BY <1>17, BoundsAssumption DEF TypeInv, TypeOK, Crash
  <2> QED
    BY <1>17, <2>1, <2>2, ReleaseTyped DEF TypeInv, TypeOK, Crash
<1>18. CASE UNCHANGED vars
  BY <1>18 DEF TypeInv, TypeOK, vars
<1> QED
  BY <1>1, <1>2, <1>3, <1>5, <1>6, <1>7, <1>8, <1>9, <1>10, <1>11, <1>12, <1>13,
     <1>14, <1>15, <1>16, <1>17, <1>18 DEF Next, HandlerStep

\* Every variable keeps its type, and every checkpoint has what its next node
\* reads: no node of nodes.py meets a state key that was never written.
THEOREM TypeCorrect == Spec => []TypeOK
<1>1. TypeInv => TypeOK
  BY DEF TypeInv
<1> QED
  BY <1>1, InitTyped, StepTyped, PTL DEF Spec

-----------------------------------------------------------------------------
(* How long a handler may go on.  This is the variant behind HandlersEnd:   *)
(* what is left to fairness is only that the handler takes its steps.       *)

\* The nodes that a run has before it, if none of them stops it.
NodesToGo(c) ==
    CASE c.next = "intake"                    -> 7
      [] c.next = "document_extraction_agent" -> 6
      [] c.next = "risk_scoring_agent"        -> 5
      [] c.next = "policy_compliance_agent"   -> 4
      [] c.next = "human_escalation"          -> 3
      [] c.next = "explainability_agent"      -> 2
      [] c.next = "decision_output"           -> 1
      [] OTHER                                -> 0

\* A bound on the steps that the handler of s has still to take: each node may
\* be followed by a step of the writer.
StepsLeft(s) ==
    (CASE pc[s] = "idle"    -> 0
       [] pc[s] = "checked" -> 18
       [] pc[s] = "running" -> 2 * NodesToGo(work[s]) + 3
       [] OTHER             -> 1) + (IF unsaved[s] THEN 1 ELSE 0)

GoOn ==
    \A s \in Servers : pc[s] # "idle" =>
       /\ HandlerStep(s) => StepsLeft(s)' < StepsLeft(s)
       /\ StepsLeft(s)' <= StepsLeft(s)

HandlersGoOn == [][GoOn]_vars

LEMMA NodesToGoRange == \A c : NodesToGo(c) \in 0..7
BY DEF NodesToGo

LEMMA StepsLeftRange == \A s \in Servers : StepsLeft(s) \in 0..19 /\ StepsLeft(s)' \in 0..19
<1> TAKE s \in Servers
<1>1. NodesToGo(work[s]) \in 0..7 /\ NodesToGo(work'[s]) \in 0..7
  BY NodesToGoRange
<1> QED
  BY <1>1 DEF StepsLeft

\* Each node brings the run one node on, or stops it.
LEMMA NodesGoOn ==
    ASSUME NEW c \in Checkpoints
    PROVE  /\ c.next = "intake" => NodesToGo(Received(c)) < NodesToGo(c)
           /\ \A fin : c.next = "document_extraction_agent"
                         => NodesToGo(Extracted(c, fin)) < NodesToGo(c)
           /\ c.next = "risk_scoring_agent" => NodesToGo(Scored(c)) < NodesToGo(c)
           /\ c.next = "policy_compliance_agent" => NodesToGo(Evaluated(c)) < NodesToGo(c)
           /\ \A resolution : c.next = "human_escalation"
                                => NodesToGo(Resolved(c, resolution)) < NodesToGo(c)
           /\ c.next = "explainability_agent" => NodesToGo(Explained(c)) < NodesToGo(c)
           /\ c.next = "decision_output" => NodesToGo(Finalized(c)) < NodesToGo(c)
<1>1. c \in CheckpointsOver(Trails)
  BY CheckpointsAre
<1>2. /\ Received(c).next = "document_extraction_agent"
      /\ \A fin : Extracted(c, fin).next = "risk_scoring_agent"
      /\ Scored(c).next = "policy_compliance_agent"
  BY <1>1 DEF Received, Extracted, Scored, Advance, CheckpointsOver
<1>3. Evaluated(c).next \in {"human_escalation", "explainability_agent"}
  <2> DEFINE found == EvaluatePolicy(c.application, c.extracted)
             place == RouteAfterPolicy(c.risk, found)
  <2>1. place \in {"human_escalation", "explainability_agent"}
    BY DEF RouteAfterPolicy
  <2> HIDE DEF found, place
  <2>2. Evaluated(c).next = place
    BY <1>1 DEF Evaluated, Advance, CheckpointsOver, found, place
  <2> QED
    BY <2>1, <2>2
<1>4. /\ \A resolution : Resolved(c, resolution).next = "explainability_agent"
      /\ Explained(c).next = "decision_output"
      /\ Finalized(c).next = "end"
  BY <1>1 DEF Resolved, Explained, Finalized, Advance, CheckpointsOver
<1> QED
  BY <1>2, <1>3, <1>4 DEF NodesToGo

LEMMA CommitGoesOn ==
    ASSUME TypeInv, NEW s \in Servers, pc[s] = "running", NEW c,
           NodesToGo(c) < NodesToGo(work[s]), NEW events, Commit(s, c, events)
    PROVE  StepsLeft(s)' < StepsLeft(s)
<1>1. work'[s] = c /\ pc'[s] \in {"running", "returning"} /\ unsaved'[s]
  BY DEF TypeInv, TypeOK, Commit
<1>2. NodesToGo(c) \in 0..7 /\ NodesToGo(work[s]) \in 0..7
  BY NodesToGoRange
<1>3. NodesToGo(work'[s]) = NodesToGo(c)
  BY <1>1
<1>4. StepsLeft(s) >= 2 * NodesToGo(work[s]) + 3
  BY <1>2 DEF StepsLeft
<1>5. StepsLeft(s)' <= 2 * NodesToGo(c) + 4
  BY <1>1, <1>2, <1>3 DEF StepsLeft
<1> QED
  BY <1>2, <1>4, <1>5, StepsLeftRange

LEMMA HandlerStepShortens ==
    ASSUME TypeInv, NEW s \in Servers, HandlerStep(s), pc[s] # "idle"
    PROVE  StepsLeft(s)' < StepsLeft(s)
<1>1. /\ work[s] \in Checkpoints /\ unsaved[s] \in BOOLEAN
      /\ DOMAIN pc = Servers /\ DOMAIN unsaved = Servers /\ DOMAIN work = Servers
      /\ pc[s] \in {"idle", "checked", "running", "returning", "raising"}
  BY DEF TypeInv, TypeOK
<1>2. NodesToGo(work[s]) \in 0..7 /\ NodesToGo(work'[s]) \in 0..7
  BY NodesToGoRange
<1>3. CASE \/ IntakeNode(s) \/ RiskNode(s) \/ PolicyNode(s) \/ EscalationResumes(s)
           \/ ExplainabilityNode(s) \/ OutputNode(s)
  BY <1>1, <1>3, NodesGoOn, CommitGoesOn
  DEF IntakeNode, RiskNode, PolicyNode, EscalationResumes, ExplainabilityNode, OutputNode, AtNode
<1>4. CASE ExtractionNode(s)
  BY <1>1, <1>4, NodesGoOn, CommitGoesOn DEF ExtractionNode, AtNode
<1>5. CASE Resume(s)
  <2>1. /\ pc[s] = "checked" /\ pc'[s] \in {"running", "returning"}
        /\ unsaved' = unsaved
    BY <1>1, <1>5 DEF Resume
  <2> QED
    BY <1>1, <1>2, <2>1 DEF StepsLeft
<1>6. CASE EscalationPauses(s) \/ NodeFails(s)
  <2>1. pc[s] = "running" /\ pc'[s] \in {"returning", "raising"}
    BY <1>1, <1>6 DEF EscalationPauses, NodeFails, AtNode
  <2> QED
    BY <1>1, <1>2, <2>1 DEF StepsLeft
<1>7. CASE Flush(s)
  <2>1. UNCHANGED <<pc, work>> /\ unsaved[s] /\ ~unsaved'[s]
    BY <1>1, <1>7 DEF Flush
  <2> QED
    BY <1>1, <1>2, <2>1 DEF StepsLeft
<1>8. CASE Return(s) \/ Raise(s)
  <2>1. pc'[s] = "idle" /\ ~unsaved'[s] /\ pc[s] \in {"returning", "raising"}
    BY <1>1, <1>8 DEF Return, Raise, Release
  <2> QED
    BY <2>1 DEF StepsLeft
<1> QED
  BY <1>3, <1>4, <1>5, <1>6, <1>7, <1>8 DEF HandlerStep

\* A handler keeps what it holds while another takes a step.
LEMMA OthersSteps ==
    ASSUME TypeInv, NEW s \in Servers, NEW t \in Servers \ {s},
           \/ \E a \in Apps, payload \in Payloads : StartApplication(t, a, payload)
           \/ \E a \in Apps, resolution \in Resolutions : CheckResolve(t, a, resolution)
           \/ HandlerStep(t) \/ Crash(t)
    PROVE  StepsLeft(s)' = StepsLeft(s)
<1>1. pc'[s] = pc[s] /\ work'[s] = work[s] /\ unsaved'[s] = unsaved[s]
  BY DEF TypeInv, TypeOK, StartApplication, CheckResolve, HandlerStep, Crash, Release, Resume,
         IntakeNode, ExtractionNode, RiskNode, PolicyNode, EscalationPauses, EscalationResumes,
         ExplainabilityNode, OutputNode, NodeFails, Commit, Flush, Return, Raise
<1> QED
  BY <1>1 DEF StepsLeft

\* For any processes, cases and failures, a handler that was accepted is over
\* after at most 19 steps of its own, whatever the other handlers do, and each
\* of its steps brings the end nearer: no pause keeps it, and the graph has no
\* way back to an earlier node (graph.py).
THEOREM HandlersRunOut == Spec => [](\A s \in Servers : StepsLeft(s) \in 0..19) /\ HandlersGoOn
<1>1. \A s \in Servers : StepsLeft(s) \in 0..19
  BY StepsLeftRange
<1>2. TypeInv /\ [Next]_vars
        => [GoOn]_vars
  <2> SUFFICES ASSUME TypeInv, Next, NEW s \in Servers, pc[s] # "idle"
               PROVE  /\ HandlerStep(s) => StepsLeft(s)' < StepsLeft(s)
                      /\ StepsLeft(s)' <= StepsLeft(s)
    BY DEF GoOn
  <2>1. StepsLeft(s) \in 0..19 /\ StepsLeft(s)' \in 0..19
    BY StepsLeftRange
  <2>2. HandlerStep(s) => StepsLeft(s)' < StepsLeft(s)
    BY HandlerStepShortens
  <2>3. Crash(s) => StepsLeft(s)' <= StepsLeft(s)
    <3>1. Crash(s) => StepsLeft(s)' = 0
      BY DEF Crash, Release, StepsLeft, TypeInv, TypeOK
    <3> QED
      BY <2>1, <3>1
  <2>4. CASE HandlerStep(s) \/ Crash(s)
    BY <2>1, <2>2, <2>3, <2>4
  <2>5. CASE ~HandlerStep(s) /\ ~Crash(s)
    <3>1. PICK t \in Servers :
             \/ \E a \in Apps, payload \in Payloads : StartApplication(t, a, payload)
             \/ \E a \in Apps, resolution \in Resolutions : CheckResolve(t, a, resolution)
             \/ HandlerStep(t) \/ Crash(t)
      BY DEF Next
    <3>2. t # s
      BY <2>5, <3>1 DEF StartApplication, CheckResolve
    <3>3. StepsLeft(s)' = StepsLeft(s)
      BY <3>1, <3>2, OthersSteps
    <3> QED
      BY <2>1, <2>5, <3>3
  <2> QED
    BY <2>4, <2>5
<1> QED
  BY <1>1, <1>2, InitTyped, StepTyped, PTL DEF Spec, HandlersGoOn

-----------------------------------------------------------------------------
(* Handlers end, one step of the variant at a time.                         *)

GetsOn(s) == []<>(pc[s] = "idle") \/ []<><<HandlerStep(s)>>_vars

\* No handler that has begun stands still for ever: what the weak fairness of
\* FairSpec gives, a handler that is not idle always having a step to take.
HandlersGetOn == \A s \in Servers : GetsOn(s)

\* From at most k steps before its end, s comes to it.
EndsFrom(s, k) == [](StepsLeft(s) <= k => <>(pc[s] = "idle"))

LEMMA NothingLeft == ASSUME NEW s \in Servers PROVE StepsLeft(s) <= 0 => pc[s] = "idle"
<1>1. NodesToGo(work[s]) \in 0..7
  BY NodesToGoRange
<1> QED
  BY <1>1 DEF StepsLeft

LEMMA OneStepMore ==
    ASSUME NEW s \in Servers, NEW k \in Nat, NEW m \in Nat, m = k + 1
    PROVE  Spec /\ GetsOn(s) /\ EndsFrom(s, k) => EndsFrom(s, m)
<1>1. Spec => [][GoOn]_vars
  BY HandlersRunOut, PTL DEF HandlersGoOn
<1>2. [GoOn]_vars /\ ~(pc[s] = "idle") /\ StepsLeft(s) <= m => (StepsLeft(s) <= m)'
  <2>1. UNCHANGED vars => StepsLeft(s)' = StepsLeft(s)
    BY DEF vars, StepsLeft
  <2> QED
    BY <2>1, StepsLeftRange DEF GoOn
<1>3. [GoOn]_vars /\ <<HandlerStep(s)>>_vars /\ ~(pc[s] = "idle") /\ StepsLeft(s) <= m
        => (StepsLeft(s) <= k)'
  BY StepsLeftRange DEF GoOn
<1> QED
  BY <1>1, <1>2, <1>3, PTL DEF EndsFrom, GetsOn

LEMMA HandlerEnds ==
    ASSUME NEW s \in Servers
    PROVE  Spec /\ GetsOn(s) => (pc[s] # "idle" ~> pc[s] = "idle")
<1>0. Spec /\ GetsOn(s) => EndsFrom(s, 0)
  BY NothingLeft, PTL DEF EndsFrom
<1>1. Spec /\ GetsOn(s) => EndsFrom(s, 1)
  BY <1>0, OneStepMore, 1 = 0 + 1
<1>2. Spec /\ GetsOn(s) => EndsFrom(s, 2)
  BY <1>1, OneStepMore, 2 = 1 + 1
<1>3. Spec /\ GetsOn(s) => EndsFrom(s, 3)
  BY <1>2, OneStepMore, 3 = 2 + 1
<1>4. Spec /\ GetsOn(s) => EndsFrom(s, 4)
  BY <1>3, OneStepMore, 4 = 3 + 1
<1>5. Spec /\ GetsOn(s) => EndsFrom(s, 5)
  BY <1>4, OneStepMore, 5 = 4 + 1
<1>6. Spec /\ GetsOn(s) => EndsFrom(s, 6)
  BY <1>5, OneStepMore, 6 = 5 + 1
<1>7. Spec /\ GetsOn(s) => EndsFrom(s, 7)
  BY <1>6, OneStepMore, 7 = 6 + 1
<1>8. Spec /\ GetsOn(s) => EndsFrom(s, 8)
  BY <1>7, OneStepMore, 8 = 7 + 1
<1>9. Spec /\ GetsOn(s) => EndsFrom(s, 9)
  BY <1>8, OneStepMore, 9 = 8 + 1
<1>10. Spec /\ GetsOn(s) => EndsFrom(s, 10)
  BY <1>9, OneStepMore, 10 = 9 + 1
<1>11. Spec /\ GetsOn(s) => EndsFrom(s, 11)
  BY <1>10, OneStepMore, 11 = 10 + 1
<1>12. Spec /\ GetsOn(s) => EndsFrom(s, 12)
  BY <1>11, OneStepMore, 12 = 11 + 1
<1>13. Spec /\ GetsOn(s) => EndsFrom(s, 13)
  BY <1>12, OneStepMore, 13 = 12 + 1
<1>14. Spec /\ GetsOn(s) => EndsFrom(s, 14)
  BY <1>13, OneStepMore, 14 = 13 + 1
<1>15. Spec /\ GetsOn(s) => EndsFrom(s, 15)
  BY <1>14, OneStepMore, 15 = 14 + 1
<1>16. Spec /\ GetsOn(s) => EndsFrom(s, 16)
  BY <1>15, OneStepMore, 16 = 15 + 1
<1>17. Spec /\ GetsOn(s) => EndsFrom(s, 17)
  BY <1>16, OneStepMore, 17 = 16 + 1
<1>18. Spec /\ GetsOn(s) => EndsFrom(s, 18)
  BY <1>17, OneStepMore, 18 = 17 + 1
<1>19. Spec /\ GetsOn(s) => EndsFrom(s, 19)
  BY <1>18, OneStepMore, 19 = 18 + 1
<1>20. StepsLeft(s) <= 19
  BY StepsLeftRange
<1> QED
  BY <1>19, <1>20, PTL DEF EndsFrom

\* Every accepted request is answered, with an error if need be, or dies with its
\* process, for any processes, cases, failures and crashes: where no handler
\* stands still (HandlersGetOn), none goes on for ever either.
THEOREM HandlersEndCorrect == Spec /\ HandlersGetOn => HandlersEnd
<1>1. ASSUME NEW s \in Servers
      PROVE  Spec /\ HandlersGetOn => (pc[s] # "idle" ~> pc[s] = "idle")
  <2>1. HandlersGetOn => GetsOn(s)
    BY Zenon DEF HandlersGetOn
  <2> QED
    BY <2>1, HandlerEnds
<1> QED
  BY <1>1, Zenon DEF HandlersEnd

-----------------------------------------------------------------------------
(* The strengthening.  Neither property is inductive alone: what a decision *)
(* rests on is settled two nodes earlier, when the case is routed.          *)

\* A thread without values has nothing to run.
NothingBeforeIntake(c) == c.status = "none" => c.next = "end"

\* Only review cases wait for a reviewer.
RoutedToReview(c) == c.next = "human_escalation" => IsReviewCase(c)

\* A review case leaves the review with an answer.
AnsweredBeforeRationale(c) ==
    c.next = "explainability_agent" /\ IsReviewCase(c) => c.resolution # None

PathOK(c) ==
    /\ NothingBeforeIntake(c)
    /\ TrailMatches(c)
    /\ RoutedToReview(c)
    /\ AnsweredBeforeRationale(c)
    /\ ReviewedRight(c)

PathInv == EveryCheckpoint(PathOK)

-----------------------------------------------------------------------------
(* Every operation on a checkpoint keeps it on its path.                    *)

LEMMA NoThreadPath == PathOK(NoThread)
BY DEF PathOK, NothingBeforeIntake, TrailMatches, RoutedToReview,
       AnsweredBeforeRationale, ReviewedRight, Decided, NoThread

LEMMA SubmittedPath ==
    ASSUME NEW c, Typed(c), NEW payload \in Payloads
    PROVE  PathOK(Submitted(c, payload))
<1> DEFINE d == Submitted(c, payload)
<1>1. c \in CheckpointsOver(Trails)
  BY CheckpointsAre DEF Typed
<1>2. d.next = "intake" /\ d.status = "in_progress" /\ d.trail = <<>>
  BY <1>1 DEF Submitted, CheckpointsOver
<1> HIDE DEF d
<1>3. PathOK(d)
  BY <1>2 DEF PathOK, NothingBeforeIntake, TrailMatches, ExpectedTrail, RoutedToReview,
              AnsweredBeforeRationale, ReviewedRight, Decided
<1> QED
  BY <1>3 DEF d

\* A node only runs after a submission, so that the trail is known.
LEMMA NodeRunsOnPath ==
    ASSUME NEW c, Typed(c), PathOK(c), c.next # "end"
    PROVE  c.status # "none" /\ c.trail = ExpectedTrail(c) /\ c \in CheckpointsOver(Trails)
BY CheckpointsAre DEF Typed, PathOK, NothingBeforeIntake, TrailMatches

LEMMA ReceivedPath ==
    ASSUME NEW c, Typed(c), PathOK(c), c.next = "intake"
    PROVE  PathOK(Received(c))
<1> DEFINE d == Received(c)
<1>1. c \in CheckpointsOver(Trails) /\ c.trail = <<>>
  BY NodeRunsOnPath DEF ExpectedTrail
<1>2. /\ d.next = "document_extraction_agent" /\ d.status = "in_progress"
      /\ d.trail = Append(c.trail, "application_received")
  BY <1>1 DEF Received, Advance, CheckpointsOver
<1>3. d.trail = AfterIntake
  <2>1. Append(<<>>, "application_received") = <<"application_received">>
    OBVIOUS
  <2> QED
    BY <1>1, <1>2, <2>1 DEF AfterIntake
<1> HIDE DEF d
<1>4. PathOK(d)
  BY <1>2, <1>3 DEF PathOK, NothingBeforeIntake, TrailMatches, ExpectedTrail,
                    RoutedToReview, AnsweredBeforeRationale, ReviewedRight, Decided
<1> QED
  BY <1>4 DEF d

LEMMA ExtractedPath ==
    ASSUME NEW c, Typed(c), PathOK(c), c.next = "document_extraction_agent",
           NEW fin \in Financials
    PROVE  PathOK(Extracted(c, fin))
<1> DEFINE d == Extracted(c, fin)
<1>1. c \in CheckpointsOver(Trails) /\ c.trail = AfterIntake /\ c.status # "none"
  BY NodeRunsOnPath DEF ExpectedTrail
<1>2. /\ d.next = "risk_scoring_agent" /\ d.status = c.status
      /\ d.trail = Append(c.trail, "financials_extracted")
  BY <1>1 DEF Extracted, Advance, CheckpointsOver
<1> HIDE DEF d
<1>3. PathOK(d)
  BY <1>1, <1>2 DEF PathOK, NothingBeforeIntake, TrailMatches, ExpectedTrail, AfterExtraction,
                    RoutedToReview, AnsweredBeforeRationale, ReviewedRight, Decided
<1> QED
  BY <1>3 DEF d

LEMMA ScoredPath ==
    ASSUME NEW c, Typed(c), PathOK(c), c.next = "risk_scoring_agent"
    PROVE  PathOK(Scored(c))
<1> DEFINE d == Scored(c)
<1>1. c \in CheckpointsOver(Trails) /\ c.trail = AfterExtraction /\ c.status # "none"
  BY NodeRunsOnPath DEF ExpectedTrail
<1>2. /\ d.next = "policy_compliance_agent" /\ d.status = c.status
      /\ d.trail = Append(c.trail, "risk_scored")
  BY <1>1 DEF Scored, Advance, CheckpointsOver
<1> HIDE DEF d
<1>3. PathOK(d)
  BY <1>1, <1>2 DEF PathOK, NothingBeforeIntake, TrailMatches, ExpectedTrail, AfterRisk,
                    RoutedToReview, AnsweredBeforeRationale, ReviewedRight, Decided
<1> QED
  BY <1>3 DEF d

\* The route taken is the one that the audit trail and the review rest on.
LEMMA EvaluatedPath ==
    ASSUME NEW c, Typed(c), PathOK(c), c.next = "policy_compliance_agent"
    PROVE  PathOK(Evaluated(c))
<1> DEFINE d == Evaluated(c)
           found == EvaluatePolicy(c.application, c.extracted)
<1>1. c \in CheckpointsOver(Trails) /\ c.trail = AfterRisk /\ c.status # "none"
  BY NodeRunsOnPath DEF ExpectedTrail
<1> HIDE DEF found
<1>2. /\ d.next = RouteAfterPolicy(c.risk, found) /\ d.status = c.status
      /\ d.trail = Append(c.trail, "policy_evaluated")
      /\ d.risk = c.risk /\ d.flags = found
  BY <1>1 DEF Evaluated, Advance, CheckpointsOver, found
<1> HIDE DEF d
<1>3. d.next = IF IsReviewCase(d) THEN "human_escalation" ELSE "explainability_agent"
  BY <1>2 DEF RouteAfterPolicy, IsReviewCase, Passed
<1>4. d.trail = AfterPolicy
  BY <1>1, <1>2 DEF AfterPolicy
<1> HIDE DEF IsReviewCase
<1>5. PathOK(d)
  BY <1>1, <1>2, <1>3, <1>4
     DEF PathOK, NothingBeforeIntake, TrailMatches, ExpectedTrail, AfterReview,
         RoutedToReview, AnsweredBeforeRationale, ReviewedRight, Decided
<1> QED
  BY <1>5 DEF d

LEMMA PausedPath ==
    ASSUME NEW c, Typed(c), PathOK(c)
    PROVE  PathOK(Paused(c))
<1> DEFINE d == Paused(c)
<1>1. c \in CheckpointsOver(Trails)
  BY CheckpointsAre DEF Typed
<1>2. /\ d.next = c.next /\ d.status = c.status /\ d.trail = c.trail
      /\ d.risk = c.risk /\ d.flags = c.flags
      /\ d.resolution = c.resolution /\ d.decision = c.decision
  BY <1>1 DEF Paused, CheckpointsOver
<1> HIDE DEF d
<1>3. IsReviewCase(d) <=> IsReviewCase(c)
  BY <1>2 DEF IsReviewCase
<1> HIDE DEF IsReviewCase
<1>4. ExpectedTrail(d) = ExpectedTrail(c)
  BY <1>2, <1>3 DEF ExpectedTrail, AfterRationale, AfterReview
<1> HIDE DEF ExpectedTrail
<1>5. PathOK(d)
  BY <1>2, <1>3, <1>4
     DEF PathOK, NothingBeforeIntake, TrailMatches, RoutedToReview,
         AnsweredBeforeRationale, ReviewedRight, Decided
<1> QED
  BY <1>5 DEF d

LEMMA ResolvedPath ==
    ASSUME NEW c, Typed(c), PathOK(c), c.next = "human_escalation",
           NEW resolution \in Resolutions
    PROVE  PathOK(Resolved(c, resolution))
<1> DEFINE b == Advance(c, "human_escalation", "escalation_requested")
           d == Resolved(c, resolution)
<1>1. c \in CheckpointsOver(Trails) /\ c.trail = AfterPolicy /\ IsReviewCase(c)
  BY NodeRunsOnPath DEF ExpectedTrail, PathOK, RoutedToReview
<1>2. /\ b.trail = Append(c.trail, "escalation_requested")
      /\ b.risk = c.risk /\ b.flags = c.flags
  BY <1>1, CheckpointsAre, AdvanceFields
<1>3. b \in CheckpointsOver(Trails)
  BY <1>1, CheckpointsAre, AdvanceTyped DEF Nodes, AuditActions
<1> HIDE DEF b
<1>4. /\ d.next = "explainability_agent" /\ d.status = "escalation_resolved"
      /\ d.trail = Append(b.trail, "escalation_resolved")
      /\ d.resolution = resolution /\ d.risk = b.risk /\ d.flags = b.flags
  <2>1. d = [Advance(b, "explainability_agent", "escalation_resolved")
               EXCEPT !.interrupted = FALSE, !.status = "escalation_resolved",
                      !.resolution = resolution]
    BY DEF Resolved, b
  <2> HIDE DEF d
  <2> QED
    BY <1>3, <2>1 DEF Advance, CheckpointsOver
<1> HIDE DEF d
<1>5. IsReviewCase(d)
  BY <1>1, <1>2, <1>4 DEF IsReviewCase
<1> HIDE DEF IsReviewCase
<1>6. d.trail = AfterReview(d)
  BY <1>1, <1>2, <1>4, <1>5 DEF AfterReview
<1>7. PathOK(d)
  BY <1>4, <1>5, <1>6, NoneAssumption
     DEF PathOK, NothingBeforeIntake, TrailMatches, ExpectedTrail, RoutedToReview,
         AnsweredBeforeRationale, ReviewedRight, Decided
<1> QED
  BY <1>7 DEF d

\* The decision on a review case is its reviewer's.
LEMMA ReviewerDecides ==
    ASSUME NEW c \in Checkpoints, c.resolution # None
    PROVE  /\ DecisionOn(c).decidedBy = c.resolution.reviewer
           /\ DecisionOn(c).outcome = "approved" <=> c.resolution.approve
<1>1. c.resolution.approve \in BOOLEAN
  BY CheckpointsAre, ResolutionsAssumption DEF CheckpointsOver
<1>2. ReviewerOutcome(c.resolution.approve, c.risk, c.flags).outcome = "approved"
        <=> c.resolution.approve
  BY <1>1, OutcomeType
<1> QED
  BY <1>2 DEF DecisionOn

LEMMA ExplainedPath ==
    ASSUME NEW c, Typed(c), PathOK(c), c.next = "explainability_agent"
    PROVE  PathOK(Explained(c))
<1> DEFINE d == Explained(c)
           decision == DecisionOn(c)
<1>1. c \in CheckpointsOver(Trails) /\ c.trail = AfterReview(c) /\ c.status # "none"
  BY NodeRunsOnPath DEF ExpectedTrail
<1>2. IsReviewCase(c) =>
        /\ c.resolution # None
        /\ decision.decidedBy = c.resolution.reviewer
        /\ decision.outcome = "approved" <=> c.resolution.approve
  BY <1>1, CheckpointsAre, ReviewerDecides DEF PathOK, AnsweredBeforeRationale
<1> HIDE DEF decision
<1>3. /\ d.next = "decision_output" /\ d.status = c.status
      /\ d.trail = Append(c.trail, "rationale_generated")
      /\ d.risk = c.risk /\ d.flags = c.flags
      /\ d.resolution = c.resolution /\ d.decision = decision
  BY <1>1 DEF Explained, Advance, CheckpointsOver, decision
<1> HIDE DEF d
<1>4. IsReviewCase(d) <=> IsReviewCase(c)
  BY <1>3 DEF IsReviewCase
<1> HIDE DEF IsReviewCase
<1>5. d.trail = AfterRationale(d)
  BY <1>1, <1>3, <1>4 DEF AfterRationale, AfterReview
<1>6. PathOK(d)
  BY <1>1, <1>2, <1>3, <1>4, <1>5
     DEF PathOK, NothingBeforeIntake, TrailMatches, ExpectedTrail, RoutedToReview,
         AnsweredBeforeRationale, ReviewedRight, Decided
<1> QED
  BY <1>6 DEF d

LEMMA FinalizedPath ==
    ASSUME NEW c, Typed(c), PathOK(c), c.next = "decision_output"
    PROVE  PathOK(Finalized(c))
<1> DEFINE d == Finalized(c)
<1>1. c \in CheckpointsOver(Trails) /\ c.trail = AfterRationale(c) /\ c.status # "none"
  BY NodeRunsOnPath DEF ExpectedTrail
<1>2. /\ d.next = "end" /\ d.status = "completed"
      /\ d.trail = Append(c.trail, "decision_finalized")
      /\ d.risk = c.risk /\ d.flags = c.flags
      /\ d.resolution = c.resolution /\ d.decision = c.decision
  BY <1>1 DEF Finalized, Advance, CheckpointsOver
<1> HIDE DEF d
<1>3. IsReviewCase(d) <=> IsReviewCase(c)
  BY <1>2 DEF IsReviewCase
<1> HIDE DEF IsReviewCase
<1>4. d.trail = Append(AfterRationale(d), "decision_finalized")
  BY <1>1, <1>2, <1>3 DEF AfterRationale, AfterReview
<1>5. PathOK(d)
  BY <1>1, <1>2, <1>3, <1>4
     DEF PathOK, NothingBeforeIntake, TrailMatches, ExpectedTrail, RoutedToReview,
         AnsweredBeforeRationale, ReviewedRight, Decided
<1> QED
  BY <1>5 DEF d

-----------------------------------------------------------------------------
(* The invariant is kept.                                                   *)

LEMMA InitPath == Init => PathInv
BY NoThreadPath DEF Init, PathInv, EveryCheckpoint

LEMMA CommitPath ==
    ASSUME TypeInv, PathInv, NEW s \in Servers, NEW c, PathOK(c),
           NEW events, Commit(s, c, events)
    PROVE  PathInv'
<1>1. store' = store /\ work' = [work EXCEPT ![s] = c] /\ DOMAIN work = Servers
  BY DEF TypeInv, TypeOK, Commit
<1> QED
  BY <1>1 DEF PathInv, EveryCheckpoint

LEMMA ReleasePath ==
    ASSUME TypeInv, PathInv, NEW s \in Servers, Release(s), UNCHANGED store
    PROVE  PathInv'
<1>1. work' = [work EXCEPT ![s] = NoThread] /\ DOMAIN work = Servers
  BY DEF TypeInv, TypeOK, Release
<1> QED
  BY <1>1, NoThreadPath DEF PathInv, EveryCheckpoint

LEMMA StepPath == TypeInv /\ PathInv /\ [Next]_vars => PathInv'
<1> SUFFICES ASSUME TypeInv, PathInv, [Next]_vars PROVE PathInv'
  OBVIOUS
<1>1. /\ \A a \in Apps : Typed(store[a]) /\ PathOK(store[a])
      /\ \A s \in Servers : Typed(work[s]) /\ PathOK(work[s])
  BY DEF TypeInv, TypeOK, Typed, PathInv, EveryCheckpoint
<1>2. DOMAIN work = Servers /\ DOMAIN store = Apps
  BY DEF TypeInv, TypeOK
<1>3. ASSUME NEW s \in Servers, NEW a \in Apps, NEW payload \in Payloads,
             StartApplication(s, a, payload)
      PROVE  PathInv'
  <2>1. PathOK(Submitted(store[a], payload))
    BY <1>1, SubmittedPath
  <2>2. work' = [work EXCEPT ![s] = Submitted(store[a], payload)] /\ store' = store
    BY <1>3 DEF StartApplication
  <2> QED
    BY <1>2, <2>1, <2>2 DEF PathInv, EveryCheckpoint
<1>4. ASSUME NEW s \in Servers, NEW a \in Apps, NEW resolution \in Resolutions,
             CheckResolve(s, a, resolution)
      PROVE  PathInv'
  BY <1>4 DEF CheckResolve, PathInv, EveryCheckpoint
<1>5. ASSUME NEW s \in Servers, Resume(s) PROVE PathInv'
  <2>1. target[s] \in Apps
    BY <1>5 DEF TypeInv, TypeOK, Resume
  <2>2. work' = [work EXCEPT ![s] = store[target[s]]] /\ store' = store
    BY <1>5 DEF Resume
  <2> QED
    BY <1>1, <1>2, <2>1, <2>2 DEF PathInv, EveryCheckpoint
<1>6. ASSUME NEW s \in Servers, IntakeNode(s) PROVE PathInv'
  BY <1>1, <1>6, ReceivedPath, CommitPath DEF IntakeNode, AtNode
<1>7. ASSUME NEW s \in Servers, ExtractionNode(s) PROVE PathInv'
  <2>1. AtNode(s, "document_extraction_agent")
    BY <1>7 DEF ExtractionNode
  <2>2. work[s].application \in Payloads
    BY <1>1, <2>1, CheckpointsAre DEF Typed, HasInput, AtNode, CheckpointsOver
  <2>3. PICK fin \in ExtractionsOf(work[s].application) :
           Commit(s, Extracted(work[s], fin), {"financials_extracted"})
    BY <1>7 DEF ExtractionNode
  <2>4. fin \in Financials
    BY <2>2, <2>3, ExtractionsType
  <2> QED
    BY <1>1, <2>1, <2>3, <2>4, ExtractedPath, CommitPath DEF AtNode
<1>8. ASSUME NEW s \in Servers, RiskNode(s) PROVE PathInv'
  BY <1>1, <1>8, ScoredPath, CommitPath DEF RiskNode, AtNode
<1>9. ASSUME NEW s \in Servers, PolicyNode(s) PROVE PathInv'
  BY <1>1, <1>9, EvaluatedPath, CommitPath DEF PolicyNode, AtNode
<1>10. ASSUME NEW s \in Servers, EscalationPauses(s) PROVE PathInv'
  <2>1. PathOK(Paused(work[s]))
    BY <1>1, PausedPath
  <2>2. work' = [work EXCEPT ![s] = Paused(work[s])] /\ store' = store
    BY <1>10 DEF EscalationPauses
  <2> QED
    BY <1>2, <2>1, <2>2 DEF PathInv, EveryCheckpoint
<1>11. ASSUME NEW s \in Servers, EscalationResumes(s) PROVE PathInv'
  <2>1. resume[s] \in Resolutions
    BY <1>11 DEF TypeInv, TypeOK, EscalationResumes
  <2> QED
    BY <1>1, <1>11, <2>1, ResolvedPath, CommitPath DEF EscalationResumes, AtNode
<1>12. ASSUME NEW s \in Servers, ExplainabilityNode(s) PROVE PathInv'
  BY <1>1, <1>12, ExplainedPath, CommitPath DEF ExplainabilityNode, AtNode
<1>13. ASSUME NEW s \in Servers, OutputNode(s) PROVE PathInv'
  BY <1>1, <1>13, FinalizedPath, CommitPath DEF OutputNode, AtNode
<1>14. ASSUME NEW s \in Servers, NodeFails(s) PROVE PathInv'
  BY <1>14 DEF NodeFails, PathInv, EveryCheckpoint
<1>15. ASSUME NEW s \in Servers, Flush(s) PROVE PathInv'
  <2>1. target[s] \in Apps
    BY <1>15 DEF TypeInv, TypeOK, Flush
  <2>2. store' = [store EXCEPT ![target[s]] = work[s]] /\ work' = work
    BY <1>15 DEF Flush
  <2> QED
    BY <1>1, <1>2, <2>1, <2>2 DEF PathInv, EveryCheckpoint
<1>16. ASSUME NEW s \in Servers, Return(s) \/ Raise(s) \/ Crash(s) PROVE PathInv'
  BY <1>16, ReleasePath DEF Return, Raise, Crash
<1>17. CASE UNCHANGED vars
  BY <1>17 DEF vars, PathInv, EveryCheckpoint
<1> QED
  BY <1>3, <1>4, <1>5, <1>6, <1>7, <1>8, <1>9, <1>10, <1>11, <1>12, <1>13,
     <1>14, <1>15, <1>16, <1>17 DEF Next, HandlerStep

LEMMA PathInvariant == Spec => []PathInv
BY InitTyped, StepTyped, InitPath, StepPath, PTL DEF Spec

\* For any number of applications, processes and crashes: the audit trail of a
\* checkpoint names exactly the nodes that have run (nodes.py, AuditEvent).
THEOREM TrailTellsThePathCorrect == Spec => []TrailTellsThePath
<1>1. PathInv => TrailTellsThePath
  BY DEF PathInv, TrailTellsThePath, EveryCheckpoint, PathOK
<1> QED
  BY <1>1, PathInvariant, PTL

\* For any number of applications, processes and crashes: a borderline or
\* blocked case has its reviewer's decision or none (decisioning.py).
THEOREM ReviewCasesAreReviewedCorrect == Spec => []ReviewCasesAreReviewed
<1>1. PathInv => ReviewCasesAreReviewed
  BY DEF PathInv, ReviewCasesAreReviewed, EveryCheckpoint, PathOK
<1> QED
  BY <1>1, PathInvariant, PTL

-----------------------------------------------------------------------------
(* Cases the rules decide.  An id that is submitted once has no resolution  *)
(* but its own; the strengthening says where that can be, and that there is *)
(* no checkpoint of an id that was not submitted.                           *)

BeforeReview == {"intake", "document_extraction_agent", "risk_scoring_agent",
                 "policy_compliance_agent", "human_escalation"}

AutoOK(c) ==
    /\ c.status = "none" \/ c.next \in BeforeReview => c.resolution = None
    /\ c.next = "explainability_agent" /\ ~IsReviewCase(c) => c.resolution = None
    /\ AutomaticRight(c)

Started ==
    /\ \A a \in Apps : store[a].status # "none" => runs[a] >= 1
    /\ \A s \in Servers : target[s] \in Apps => runs[target[s]] >= 1

AutoInv == EveryCheckpoint(AutoOK) /\ Started

\* Nodes up to the review only hand the resolution on.
LEMMA EarlyAuto ==
    ASSUME NEW c, AutoOK(c), c.next \in BeforeReview, NEW d,
           d.next \in BeforeReview, d.resolution = c.resolution
    PROVE  AutoOK(d)
BY DEF AutoOK, AutomaticRight, Decided, BeforeReview

LEMMA SubmittedAuto ==
    ASSUME NEW c \in Checkpoints, c.resolution = None, NEW payload
    PROVE  AutoOK(Submitted(c, payload))
<1> DEFINE d == Submitted(c, payload)
<1>1. d.next = "intake" /\ d.resolution = None
  BY CheckpointsAre DEF Submitted, CheckpointsOver
<1> HIDE DEF d
<1>2. AutoOK(d)
  BY <1>1 DEF AutoOK, AutomaticRight, Decided
<1> QED
  BY <1>2 DEF d

LEMMA NodesAuto ==
    ASSUME NEW c, Typed(c), AutoOK(c)
    PROVE  /\ c.next = "intake" => AutoOK(Received(c))
           /\ \A fin \in Financials :
                 c.next = "document_extraction_agent" => AutoOK(Extracted(c, fin))
           /\ c.next = "risk_scoring_agent" => AutoOK(Scored(c))
<1>1. c \in CheckpointsOver(Trails)
  BY CheckpointsAre DEF Typed
<1>2. ASSUME c.next = "intake" PROVE AutoOK(Received(c))
  <2>1. Received(c).next = "document_extraction_agent" /\ Received(c).resolution = c.resolution
    BY <1>1 DEF Received, Advance, CheckpointsOver
  <2> QED
    BY <1>2, <2>1, EarlyAuto DEF BeforeReview
<1>3. ASSUME NEW fin \in Financials, c.next = "document_extraction_agent"
      PROVE  AutoOK(Extracted(c, fin))
  <2>1. /\ Extracted(c, fin).next = "risk_scoring_agent"
        /\ Extracted(c, fin).resolution = c.resolution
    BY <1>1 DEF Extracted, Advance, CheckpointsOver
  <2> QED
    BY <1>3, <2>1, EarlyAuto DEF BeforeReview
<1>4. ASSUME c.next = "risk_scoring_agent" PROVE AutoOK(Scored(c))
  <2>1. Scored(c).next = "policy_compliance_agent" /\ Scored(c).resolution = c.resolution
    BY <1>1 DEF Scored, Advance, CheckpointsOver
  <2> QED
    BY <1>4, <2>1, EarlyAuto DEF BeforeReview
<1> QED
  BY <1>2, <1>3, <1>4

LEMMA EvaluatedAuto ==
    ASSUME NEW c, Typed(c), AutoOK(c), c.next = "policy_compliance_agent"
    PROVE  AutoOK(Evaluated(c))
<1> DEFINE d == Evaluated(c)
           found == EvaluatePolicy(c.application, c.extracted)
<1>1. c \in CheckpointsOver(Trails) /\ c.resolution = None
  BY CheckpointsAre DEF Typed, AutoOK, BeforeReview
<1> HIDE DEF found
<1>2. d.next = RouteAfterPolicy(c.risk, found) /\ d.resolution = None
  BY <1>1 DEF Evaluated, Advance, CheckpointsOver, found
<1> HIDE DEF d
<1>3. d.next \in {"human_escalation", "explainability_agent"}
  BY <1>2 DEF RouteAfterPolicy
<1>4. AutoOK(d)
  BY <1>2, <1>3 DEF AutoOK, AutomaticRight, Decided
<1> QED
  BY <1>4 DEF d

LEMMA PausedAuto ==
    ASSUME NEW c, Typed(c), AutoOK(c)
    PROVE  AutoOK(Paused(c))
<1> DEFINE d == Paused(c)
<1>1. /\ d.next = c.next /\ d.status = c.status /\ d.risk = c.risk /\ d.flags = c.flags
      /\ d.resolution = c.resolution /\ d.decision = c.decision
  BY CheckpointsAre DEF Typed, Paused, CheckpointsOver
<1> HIDE DEF d
<1>2. AutoOK(d)
  BY <1>1 DEF AutoOK, AutomaticRight, Decided, IsReviewCase
<1> QED
  BY <1>2 DEF d

\* What is resolved is a review case, by the invariant of the last section.
LEMMA ResolvedAuto ==
    ASSUME NEW c, Typed(c), PathOK(c), c.next = "human_escalation",
           NEW resolution \in Resolutions
    PROVE  AutoOK(Resolved(c, resolution))
<1> DEFINE d == Resolved(c, resolution)
<1>1. c \in CheckpointsOver(Trails) /\ IsReviewCase(c)
  BY CheckpointsAre DEF Typed, PathOK, RoutedToReview
<1>2. /\ d.next = "explainability_agent" /\ d.status = "escalation_resolved"
      /\ d.risk = c.risk /\ d.flags = c.flags
  BY <1>1 DEF Resolved, Advance, CheckpointsOver
<1> HIDE DEF d
<1>3. IsReviewCase(d)
  BY <1>1, <1>2 DEF IsReviewCase
<1>4. AutoOK(d)
  BY <1>2, <1>3 DEF AutoOK, AutomaticRight, Decided, BeforeReview
<1> QED
  BY <1>4 DEF d

LEMMA ExplainedAuto ==
    ASSUME NEW c, Typed(c), PathOK(c), AutoOK(c), c.next = "explainability_agent"
    PROVE  AutoOK(Explained(c))
<1> DEFINE d == Explained(c)
           decision == DecisionOn(c)
<1>1. c \in CheckpointsOver(Trails) /\ c.status # "none"
  BY NodeRunsOnPath
<1>2. ~IsReviewCase(c) =>
        /\ decision.decidedBy = "explainability_agent"
        /\ decision.outcome = "denied" <=> c.risk.tier = "high"
  BY DEF AutoOK, DecisionOn, StraightThrough, Denial, Approval, Passed, IsReviewCase
<1> HIDE DEF decision
<1>3. /\ d.next = "decision_output" /\ d.status = c.status
      /\ d.risk = c.risk /\ d.flags = c.flags /\ d.decision = decision
  BY <1>1 DEF Explained, Advance, CheckpointsOver, decision
<1> HIDE DEF d
<1>4. IsReviewCase(d) <=> IsReviewCase(c)
  BY <1>3 DEF IsReviewCase
<1> HIDE DEF IsReviewCase
<1>5. AutoOK(d)
  BY <1>1, <1>2, <1>3, <1>4 DEF AutoOK, AutomaticRight, BeforeReview
<1> QED
  BY <1>5 DEF d

LEMMA FinalizedAuto ==
    ASSUME NEW c, Typed(c), PathOK(c), AutoOK(c), c.next = "decision_output"
    PROVE  AutoOK(Finalized(c))
<1> DEFINE d == Finalized(c)
<1>1. c \in CheckpointsOver(Trails) /\ c.status # "none"
  BY NodeRunsOnPath
<1>2. /\ d.next = "end" /\ d.status = "completed"
      /\ d.risk = c.risk /\ d.flags = c.flags /\ d.decision = c.decision
  BY <1>1 DEF Finalized, Advance, CheckpointsOver
<1> HIDE DEF d
<1>3. AutoOK(d)
  BY <1>1, <1>2 DEF AutoOK, AutomaticRight, Decided, IsReviewCase, BeforeReview
<1> QED
  BY <1>3 DEF d

\* The steps of Next that neither submit nor store anything and leave every
\* handler its id, or take it away, keep Started.
LEMMA StartedKept ==
    ASSUME TypeInv, Started, UNCHANGED <<store, runs>>,
           \/ UNCHANGED target
           \/ \E s \in Servers : target' = [target EXCEPT ![s] = None]
    PROVE  Started'
BY NoneAssumption DEF TypeInv, TypeOK, Started

LEMMA CommitAuto ==
    ASSUME TypeInv, AutoInv, NEW s \in Servers, NEW c, AutoOK(c),
           NEW events, Commit(s, c, events)
    PROVE  AutoInv'
<1>1. store' = store /\ work' = [work EXCEPT ![s] = c] /\ DOMAIN work = Servers
  BY DEF TypeInv, TypeOK, Commit
<1>2. Started'
  BY StartedKept DEF AutoInv, Commit
<1> QED
  BY <1>1, <1>2 DEF AutoInv, EveryCheckpoint

LEMMA NoThreadAuto == AutoOK(NoThread)
BY DEF AutoOK, AutomaticRight, Decided, NoThread

LEMMA ReleaseAuto ==
    ASSUME TypeInv, AutoInv, NEW s \in Servers, Release(s), UNCHANGED <<store, runs>>
    PROVE  AutoInv'
<1>1. work' = [work EXCEPT ![s] = NoThread] /\ DOMAIN work = Servers
  BY DEF TypeInv, TypeOK, Release
<1>2. Started'
  BY StartedKept DEF AutoInv, Release
<1> QED
  BY <1>1, <1>2, NoThreadAuto DEF AutoInv, EveryCheckpoint

LEMMA InitAuto == Init => AutoInv
<1> SUFFICES ASSUME Init PROVE AutoInv
  OBVIOUS
<1>1. EveryCheckpoint(AutoOK)
  BY NoThreadAuto DEF Init, EveryCheckpoint
<1>2. Started
  BY NoneAssumption DEF Init, Started, NoThread
<1> QED
  BY <1>1, <1>2 DEF AutoInv

LEMMA StepAuto ==
    ASSUME MaxRuns <= 1
    PROVE  TypeInv /\ PathInv /\ AutoInv /\ [Next]_vars => AutoInv'
<1> SUFFICES ASSUME TypeInv, PathInv, AutoInv, [Next]_vars PROVE AutoInv'
  OBVIOUS
<1>1. /\ \A a \in Apps : Typed(store[a]) /\ AutoOK(store[a])
      /\ \A s \in Servers : Typed(work[s]) /\ PathOK(work[s]) /\ AutoOK(work[s])
  BY DEF TypeInv, TypeOK, Typed, PathInv, AutoInv, EveryCheckpoint
<1>2. DOMAIN work = Servers /\ DOMAIN store = Apps
  BY DEF TypeInv, TypeOK
<1>3. ASSUME NEW s \in Servers, NEW a \in Apps, NEW payload \in Payloads,
             StartApplication(s, a, payload)
      PROVE  AutoInv'
  <2>1. runs[a] \in 0..MaxRuns /\ runs[a] < MaxRuns /\ MaxRuns \in Nat
    BY <1>3, BoundsAssumption DEF TypeInv, TypeOK, StartApplication
  <2>2. runs[a] = 0
    BY <2>1
  <2>3. store[a].resolution = None /\ store[a] \in Checkpoints
    BY <1>1, <2>2 DEF AutoInv, Started, AutoOK, Typed
  <2>4. AutoOK(Submitted(store[a], payload))
    BY <2>3, SubmittedAuto
  <2>5. work' = [work EXCEPT ![s] = Submitted(store[a], payload)] /\ store' = store
    BY <1>3 DEF StartApplication
  <2>6. Started'
    BY <1>3, <2>1 DEF StartApplication, AutoInv, Started, TypeInv, TypeOK
  <2> QED
    BY <1>1, <1>2, <2>4, <2>5, <2>6 DEF AutoInv, EveryCheckpoint
<1>4. ASSUME NEW s \in Servers, NEW a \in Apps, NEW resolution \in Resolutions,
             CheckResolve(s, a, resolution)
      PROVE  AutoInv'
  <2>1. Started'
    BY <1>4 DEF CheckResolve, AutoInv, Started, TypeInv, TypeOK
  <2> QED
    BY <1>4, <2>1 DEF CheckResolve, AutoInv, EveryCheckpoint
<1>5. ASSUME NEW s \in Servers, Resume(s) PROVE AutoInv'
  <2>1. target[s] \in Apps
    BY <1>5 DEF TypeInv, TypeOK, Resume
  <2>2. work' = [work EXCEPT ![s] = store[target[s]]] /\ store' = store
    BY <1>5 DEF Resume
  <2>3. Started'
    BY <1>5, StartedKept DEF AutoInv, Resume
  <2> QED
    BY <1>1, <1>2, <2>1, <2>2, <2>3 DEF AutoInv, EveryCheckpoint
<1>6. ASSUME NEW s \in Servers, IntakeNode(s) \/ RiskNode(s) PROVE AutoInv'
  BY <1>1, <1>6, NodesAuto, CommitAuto DEF IntakeNode, RiskNode, AtNode
<1>7. ASSUME NEW s \in Servers, ExtractionNode(s) PROVE AutoInv'
  <2>1. AtNode(s, "document_extraction_agent")
    BY <1>7 DEF ExtractionNode
  <2>2. work[s].application \in Payloads
    BY <1>1, <2>1, CheckpointsAre DEF Typed, HasInput, AtNode, CheckpointsOver
  <2>3. PICK fin \in ExtractionsOf(work[s].application) :
           Commit(s, Extracted(work[s], fin), {"financials_extracted"})
    BY <1>7 DEF ExtractionNode
  <2>4. fin \in Financials
    BY <2>2, <2>3, ExtractionsType
  <2> QED
    BY <1>1, <2>1, <2>3, <2>4, NodesAuto, CommitAuto DEF AtNode
<1>8. ASSUME NEW s \in Servers, PolicyNode(s) PROVE AutoInv'
  BY <1>1, <1>8, EvaluatedAuto, CommitAuto DEF PolicyNode, AtNode
<1>9. ASSUME NEW s \in Servers, EscalationPauses(s) PROVE AutoInv'
  <2>1. AutoOK(Paused(work[s]))
    BY <1>1, PausedAuto
  <2>2. work' = [work EXCEPT ![s] = Paused(work[s])] /\ store' = store
    BY <1>9 DEF EscalationPauses
  <2>3. Started'
    BY <1>9, StartedKept DEF AutoInv, EscalationPauses
  <2> QED
    BY <1>2, <2>1, <2>2, <2>3 DEF AutoInv, EveryCheckpoint
<1>10. ASSUME NEW s \in Servers, EscalationResumes(s) PROVE AutoInv'
  <2>1. resume[s] \in Resolutions
    BY <1>10 DEF TypeInv, TypeOK, EscalationResumes
  <2> QED
    BY <1>1, <1>10, <2>1, ResolvedAuto, CommitAuto DEF EscalationResumes, AtNode
<1>11. ASSUME NEW s \in Servers, ExplainabilityNode(s) PROVE AutoInv'
  BY <1>1, <1>11, ExplainedAuto, CommitAuto DEF ExplainabilityNode, AtNode
<1>12. ASSUME NEW s \in Servers, OutputNode(s) PROVE AutoInv'
  BY <1>1, <1>12, FinalizedAuto, CommitAuto DEF OutputNode, AtNode
<1>13. ASSUME NEW s \in Servers, NodeFails(s) PROVE AutoInv'
  <2>1. Started'
    BY <1>13, StartedKept DEF AutoInv, NodeFails
  <2> QED
    BY <1>13, <2>1 DEF NodeFails, AutoInv, EveryCheckpoint
<1>14. ASSUME NEW s \in Servers, Flush(s) PROVE AutoInv'
  <2>1. target[s] \in Apps
    BY <1>14 DEF TypeInv, TypeOK, Flush
  <2>2. store' = [store EXCEPT ![target[s]] = work[s]] /\ work' = work
    BY <1>14 DEF Flush
  <2>3. Started'
    BY <1>2, <1>14, <2>1, <2>2 DEF AutoInv, Started, Flush
  <2> QED
    BY <1>1, <1>2, <2>1, <2>2, <2>3 DEF AutoInv, EveryCheckpoint
<1>15. ASSUME NEW s \in Servers, Return(s) \/ Raise(s) \/ Crash(s) PROVE AutoInv'
  BY <1>15, ReleaseAuto DEF Return, Raise, Crash
<1>16. CASE UNCHANGED vars
  <2>1. Started'
    BY <1>16, StartedKept DEF AutoInv, vars
  <2> QED
    BY <1>16, <2>1 DEF vars, AutoInv, EveryCheckpoint
<1> QED
  BY <1>3, <1>4, <1>5, <1>6, <1>7, <1>8, <1>9, <1>10, <1>11, <1>12, <1>13,
     <1>14, <1>15, <1>16 DEF Next, HandlerStep

\* Where no id is submitted twice: a case without cause for review is decided by
\* its own risk tier, whatever processes and crashes there are.  So the reuse of
\* an id is the only way to the stale decision that explainability_agent can take.
THEOREM OtherCasesAreAutomaticCorrect ==
    ASSUME MaxRuns <= 1
    PROVE  Spec => []OtherCasesAreAutomatic
<1>1. AutoInv => OtherCasesAreAutomatic
  BY DEF AutoInv, OtherCasesAreAutomatic, EveryCheckpoint, AutoOK
<1>2. TypeInv /\ PathInv /\ AutoInv /\ [Next]_vars => AutoInv'
  BY StepAuto
<1> QED
  BY <1>1, <1>2, InitTyped, StepTyped, PathInvariant, InitAuto, PTL DEF Spec

-----------------------------------------------------------------------------
(* What get_rationale shows, where no id is submitted twice.                *)

\* A decision on a thread is that of the run under way, which has made it.
Current(c) == c.decision # None => Decided(c)

LEMMA SubmittedCurrent ==
    ASSUME NEW c \in Checkpoints, c.decision = None, NEW payload \in Payloads
    PROVE  Current(Submitted(c, payload))
BY CheckpointsAre DEF Submitted, CheckpointsOver, Current

LEMMA NodesCurrent ==
    ASSUME NEW c, Typed(c), PathOK(c), Current(c)
    PROVE  /\ c.next = "intake" => Current(Received(c))
           /\ \A fin : c.next = "document_extraction_agent" => Current(Extracted(c, fin))
           /\ c.next = "risk_scoring_agent" => Current(Scored(c))
           /\ c.next = "policy_compliance_agent" => Current(Evaluated(c))
           /\ Current(Paused(c))
           /\ \A resolution : c.next = "human_escalation" => Current(Resolved(c, resolution))
           /\ c.next = "explainability_agent" => Current(Explained(c))
           /\ c.next = "decision_output" => Current(Finalized(c))
<1>1. c \in CheckpointsOver(Trails) /\ (c.next # "end" => c.status # "none")
  BY CheckpointsAre, NodeRunsOnPath DEF Typed
<1>2. c.next \notin {"decision_output", "end"} => c.decision = None
  BY DEF Current, Decided
<1>3. ASSUME NEW d, d.decision = c.decision, c.next \notin {"decision_output", "end"}
      PROVE  Current(d)
  BY <1>2, <1>3 DEF Current
<1>4. c.next = "intake" => Current(Received(c))
  <2>1. Received(c).decision = c.decision
    BY <1>1 DEF Received, Advance, CheckpointsOver
  <2> QED
    BY <1>3, <2>1
<1>5. ASSUME NEW fin, c.next = "document_extraction_agent" PROVE Current(Extracted(c, fin))
  <2>1. Extracted(c, fin).decision = c.decision
    BY <1>1 DEF Extracted, Advance, CheckpointsOver
  <2> QED
    BY <1>3, <1>5, <2>1
<1>6. c.next = "risk_scoring_agent" => Current(Scored(c))
  <2>1. Scored(c).decision = c.decision
    BY <1>1 DEF Scored, Advance, CheckpointsOver
  <2> QED
    BY <1>3, <2>1
<1>7. c.next = "policy_compliance_agent" => Current(Evaluated(c))
  <2>1. Evaluated(c).decision = c.decision
    BY <1>1 DEF Evaluated, Advance, CheckpointsOver
  <2> QED
    BY <1>3, <2>1
<1>8. Current(Paused(c))
  <2>1. /\ Paused(c).decision = c.decision /\ Paused(c).next = c.next
        /\ Paused(c).status = c.status
    BY <1>1 DEF Paused, CheckpointsOver
  <2> QED
    BY <2>1 DEF Current, Decided
<1>9. ASSUME NEW resolution, c.next = "human_escalation" PROVE Current(Resolved(c, resolution))
  <2>1. Resolved(c, resolution).decision = c.decision
    BY <1>1 DEF Resolved, Advance, CheckpointsOver
  <2> QED
    BY <1>3, <1>9, <2>1
<1>10. c.next = "explainability_agent" => Current(Explained(c))
  <2>1. Explained(c).next = "decision_output" /\ Explained(c).status = c.status
    BY <1>1 DEF Explained, Advance, CheckpointsOver
  <2> QED
    BY <1>1, <2>1 DEF Current, Decided
<1>11. c.next = "decision_output" => Current(Finalized(c))
  <2>1. Finalized(c).next = "end" /\ Finalized(c).status = "completed"
    BY <1>1 DEF Finalized, Advance, CheckpointsOver
  <2> QED
    BY <2>1 DEF Current, Decided
<1> QED
  BY <1>4, <1>5, <1>6, <1>7, <1>8, <1>9, <1>10, <1>11

\* A step that replaces the work of one handler by a current one.
LEMMA WorkCurrent ==
    ASSUME TypeInv, EveryCheckpoint(Current), NEW s \in Servers, NEW c, Current(c),
           work' = [work EXCEPT ![s] = c], store' = store
    PROVE  EveryCheckpoint(Current)'
BY DEF TypeInv, TypeOK, EveryCheckpoint

LEMMA StepCurrent ==
    ASSUME MaxRuns <= 1
    PROVE  TypeInv /\ PathInv /\ AutoInv /\ EveryCheckpoint(Current) /\ [Next]_vars
             => EveryCheckpoint(Current)'
<1> SUFFICES ASSUME TypeInv, PathInv, AutoInv, EveryCheckpoint(Current), [Next]_vars
             PROVE  EveryCheckpoint(Current)'
  OBVIOUS
<1>1. /\ \A a \in Apps : Typed(store[a]) /\ Current(store[a])
      /\ \A s \in Servers : Typed(work[s]) /\ PathOK(work[s]) /\ Current(work[s])
  BY DEF TypeInv, TypeOK, Typed, PathInv, EveryCheckpoint
<1>2. DOMAIN work = Servers /\ DOMAIN store = Apps
  BY DEF TypeInv, TypeOK
<1>3. ASSUME NEW s \in Servers, NEW a \in Apps, NEW payload \in Payloads,
             StartApplication(s, a, payload)
      PROVE  EveryCheckpoint(Current)'
  <2>1. runs[a] \in 0..MaxRuns /\ runs[a] < MaxRuns /\ MaxRuns \in Nat
    BY <1>3, BoundsAssumption DEF TypeInv, TypeOK, StartApplication
  <2>2. runs[a] = 0
    BY <2>1
  <2>3. store[a].decision = None /\ store[a] \in Checkpoints
    BY <1>1, <2>2 DEF AutoInv, Started, Current, Decided, Typed
  <2>4. Current(Submitted(store[a], payload))
    BY <2>3, SubmittedCurrent
  <2> QED
    BY <1>3, <2>4, WorkCurrent DEF StartApplication
<1>4. ASSUME NEW s \in Servers, Resume(s) PROVE EveryCheckpoint(Current)'
  <2>1. target[s] \in Apps
    BY <1>4 DEF TypeInv, TypeOK, Resume
  <2> QED
    BY <1>1, <1>4, <2>1, WorkCurrent DEF Resume
<1>5. ASSUME NEW s \in Servers,
             \/ IntakeNode(s) \/ ExtractionNode(s) \/ RiskNode(s) \/ PolicyNode(s)
             \/ EscalationPauses(s) \/ EscalationResumes(s)
             \/ ExplainabilityNode(s) \/ OutputNode(s)
      PROVE  EveryCheckpoint(Current)'
  <2>1. PICK c : Current(c) /\ work' = [work EXCEPT ![s] = c] /\ store' = store
    BY <1>1, <1>5, NodesCurrent
    DEF IntakeNode, ExtractionNode, RiskNode, PolicyNode, EscalationPauses, EscalationResumes,
        ExplainabilityNode, OutputNode, AtNode, Commit
  <2> QED
    BY <2>1, WorkCurrent
<1>6. ASSUME NEW s \in Servers, Flush(s) PROVE EveryCheckpoint(Current)'
  <2>1. target[s] \in Apps
    BY <1>6 DEF TypeInv, TypeOK, Flush
  <2>2. store' = [store EXCEPT ![target[s]] = work[s]] /\ work' = work
    BY <1>6 DEF Flush
  <2> QED
    BY <1>1, <1>2, <2>1, <2>2 DEF EveryCheckpoint
<1>7. ASSUME NEW s \in Servers, Return(s) \/ Raise(s) \/ Crash(s)
      PROVE  EveryCheckpoint(Current)'
  <2>1. Current(NoThread)
    BY DEF Current, NoThread
  <2> QED
    BY <1>7, <2>1, WorkCurrent DEF Return, Raise, Crash, Release
<1>8. CASE UNCHANGED <<store, work>>
  BY <1>8 DEF EveryCheckpoint
<1>9. ASSUME NEW s \in Servers,
             \/ \E a \in Apps, resolution \in Resolutions : CheckResolve(s, a, resolution)
             \/ NodeFails(s)
      PROVE  EveryCheckpoint(Current)'
  BY <1>8, <1>9 DEF CheckResolve, NodeFails
<1>10. CASE UNCHANGED vars
  BY <1>8, <1>10 DEF vars
<1> QED
  BY <1>3, <1>4, <1>5, <1>6, <1>7, <1>9, <1>10 DEF Next, HandlerStep

\* Where no id is submitted twice, get_rationale (application_service.py:152)
\* shows nothing but the decision of the run under way, for any processes,
\* crashes and failures: only the reuse of an id lets it show an earlier one.
THEOREM RationalesAreCurrent ==
    ASSUME MaxRuns <= 1
    PROVE  Spec => [](\A a \in Apps : RationaleAvailable(store[a]) => Decided(store[a]))
<1>1. EveryCheckpoint(Current)
        => \A a \in Apps : RationaleAvailable(store[a]) => Decided(store[a])
  BY DEF EveryCheckpoint, Current, RationaleAvailable
<1>2. Init => EveryCheckpoint(Current)
  BY DEF Init, EveryCheckpoint, Current, NoThread
<1>3. TypeInv /\ PathInv /\ AutoInv /\ [Next]_vars => AutoInv'
  BY StepAuto
<1>4. TypeInv /\ PathInv /\ AutoInv /\ EveryCheckpoint(Current) /\ [Next]_vars
        => EveryCheckpoint(Current)'
  BY StepCurrent
<1> QED
  BY <1>1, <1>2, <1>3, <1>4, InitTyped, StepTyped, PathInvariant, InitAuto, PTL DEF Spec
=============================================================================
