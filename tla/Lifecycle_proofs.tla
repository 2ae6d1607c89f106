--------------------------- MODULE Lifecycle_proofs ---------------------------
(***************************************************************************)
(* Proofs that the stored checkpoints implement CaseLifecycle, and of the  *)
(* other properties of what clients are told and the store holds.  All but *)
(* the last, of the audit log, need that handlers are alone on their id,   *)
(* as those of one process are: two that work on one id overwrite each     *)
(* other's checkpoints.                                                    *)
(***************************************************************************)
EXTENDS UnderwritingCases, UnderwritingGraph_proofs, SequenceTheorems, FiniteSetTheorems

OneProcess == \A s, t \in Servers : s = t

-----------------------------------------------------------------------------
(* Cases.                                                                   *)

Later(c, d) == Lifecycle!Onward(c, d) \/ Lifecycle!Reopened(c, d)

LEMMA RankRange ==
    ASSUME NEW stage \in Lifecycle!Stages
    PROVE  Lifecycle!Rank(stage) \in 0..5
BY DEF Lifecycle!Stages, Lifecycle!Rank

LEMMA RankOfLate == Lifecycle!Rank("answered") = 3 /\ Lifecycle!Rank("decided") = 4
BY DEF Lifecycle!Rank

LEMMA OnwardReflexive ==
    ASSUME NEW c, c.stage \in Lifecycle!Stages
    PROVE  Lifecycle!Onward(c, c)
BY RankRange DEF Lifecycle!Onward

\* Later holds over any number of steps of one submission.
LEMMA LaterTransitive ==
    ASSUME NEW c, NEW d, NEW e,
           c.stage \in Lifecycle!Stages, d.stage \in Lifecycle!Stages,
           e.stage \in Lifecycle!Stages,
           Later(c, d), Lifecycle!Onward(d, e)
    PROVE  Later(c, e)
<1>1. /\ Lifecycle!Rank(c.stage) \in 0..5
      /\ Lifecycle!Rank(d.stage) \in 0..5
      /\ Lifecycle!Rank(e.stage) \in 0..5
  BY RankRange
<1>2. CASE Lifecycle!Onward(c, d)
  <2>1. Lifecycle!Onward(c, e)
    BY <1>1, <1>2, RankOfLate DEF Lifecycle!Onward, Lifecycle!PastReview, Lifecycle!Settled
  <2> QED
    BY <2>1 DEF Later
<1>3. CASE Lifecycle!Reopened(c, d)
  <2>1. e.stage # "none"
    BY <1>1, <1>3 DEF Lifecycle!Onward, Lifecycle!Reopened, Lifecycle!Rank, Lifecycle!Stages
  <2>2. Lifecycle!Reopened(c, e)
    BY <1>1, <1>3, <2>1, RankOfLate
       DEF Lifecycle!Onward, Lifecycle!Reopened, Lifecycle!PastReview
  <2> QED
    BY <2>2 DEF Later
<1> QED
  BY <1>2, <1>3 DEF Later

-----------------------------------------------------------------------------
(* The case a checkpoint shows.                                             *)

\* A decision follows the resolution, whichever submission that answered.
VerdictOK(c) ==
    Decided(c) =>
        /\ c.resolution = None => c.decision.decidedBy = "explainability_agent"
        /\ c.resolution # None =>
             /\ c.decision.decidedBy = c.resolution.reviewer
             /\ c.decision.outcome = "approved" <=> c.resolution.approve

CaseOK(c) == Typed(c) /\ PathOK(c) /\ VerdictOK(c)

LEMMA StageRange ==
    ASSUME NEW c
    PROVE  StageOf(c) \in Lifecycle!Stages /\ CaseOf(c).stage = StageOf(c)
BY DEF StageOf, CaseOf, Lifecycle!Stages

LEMMA DecidedStage ==
    ASSUME NEW c
    PROVE  Decided(c) <=> StageOf(c) \in {"decided", "completed"}
BY DEF Decided, StageOf

LEMMA SettledStage ==
    ASSUME NEW c
    PROVE  /\ Lifecycle!Settled(CaseOf(c)) <=> StageOf(c) \in {"decided", "completed"}
           /\ Lifecycle!PastReview(CaseOf(c))
                <=> StageOf(c) \in {"answered", "decided", "completed"}
BY StageRange DEF Lifecycle!Settled, Lifecycle!PastReview, Lifecycle!Rank, Lifecycle!Stages

LEMMA CaseCoherent ==
    ASSUME NEW c, CaseOK(c)
    PROVE  Lifecycle!Coherent(CaseOf(c))
<1> DEFINE k == CaseOf(c)
<1>1. c \in CheckpointsOver(Trails)
  BY CheckpointsAre DEF CaseOK, Typed
<1>2. /\ k.stage = StageOf(c) /\ k.answer = c.resolution
      /\ k.referred = (\/ StageOf(c) \in {"in_review", "answered"}
                       \/ StageOf(c) \in {"decided", "completed"} /\ IsReviewCase(c))
      /\ k.verdict = IF StageOf(c) \in {"decided", "completed"}
                     THEN [by |-> c.decision.decidedBy,
                           approved |-> c.decision.outcome = "approved"]
                     ELSE None
  BY DEF CaseOf
<1>3. /\ Lifecycle!Settled(k) <=> StageOf(c) \in {"decided", "completed"}
      /\ Lifecycle!PastReview(k) <=> StageOf(c) \in {"answered", "decided", "completed"}
  BY SettledStage
<1> HIDE DEF k
<1>4. StageOf(c) = "answered" => c.resolution # None
  BY DEF StageOf, CaseOK, PathOK, AnsweredBeforeRationale
<1>5. StageOf(c) \in {"decided", "completed"} /\ IsReviewCase(c) => c.resolution # None
  BY DecidedStage DEF CaseOK, PathOK, ReviewedRight
<1>6. k.referred /\ Lifecycle!PastReview(k) => k.answer # None
  BY <1>2, <1>3, <1>4, <1>5
<1>7. ASSUME StageOf(c) \in {"decided", "completed"}, c.resolution = None
      PROVE  k.verdict.by = "explainability_agent"
  BY <1>2, <1>7, DecidedStage DEF CaseOK, VerdictOK
<1>8. ASSUME StageOf(c) \in {"decided", "completed"}, c.resolution # None
      PROVE  k.verdict = [by |-> c.resolution.reviewer, approved |-> c.resolution.approve]
  <2>1. c.resolution.approve \in BOOLEAN
    BY <1>1, <1>8, ResolutionsAssumption DEF CheckpointsOver
  <2>2. /\ c.decision.decidedBy = c.resolution.reviewer
        /\ (c.decision.outcome = "approved") = c.resolution.approve
    BY <1>8, <2>1, DecidedStage DEF CaseOK, VerdictOK
  <2> QED
    BY <1>2, <1>8, <2>2
<1>9. Lifecycle!Coherent(k)
  BY <1>2, <1>3, <1>6, <1>7, <1>8 DEF Lifecycle!Coherent
<1> QED
  BY <1>9 DEF k

-----------------------------------------------------------------------------
(* Every operation on a checkpoint moves its case on, and keeps its         *)
(* decision with its resolution.                                            *)

\* An operation that leaves the history before this submission, the answer and
\* the decision alone and does not go back.
LEMMA QuietStep ==
    ASSUME NEW c, NEW d, d.earlier = c.earlier, d.resolution = c.resolution,
           ~Lifecycle!Settled(CaseOf(c)),
           Lifecycle!Rank(StageOf(c)) <= Lifecycle!Rank(StageOf(d)),
           CaseOf(c).referred => CaseOf(d).referred
    PROVE  Lifecycle!Onward(CaseOf(c), CaseOf(d))
<1>1. /\ CaseOf(c).began = Len(c.earlier) /\ CaseOf(d).began = Len(d.earlier)
      /\ CaseOf(c).stage = StageOf(c) /\ CaseOf(d).stage = StageOf(d)
      /\ CaseOf(c).answer = c.resolution /\ CaseOf(d).answer = d.resolution
  BY DEF CaseOf
<1> QED
  BY <1>1 DEF Lifecycle!Onward

\* One from a node before the review to a node no earlier than it.
LEMMA EarlyStep ==
    ASSUME NEW c, StageOf(c) = "processing", NEW d, d.earlier = c.earlier,
           d.resolution = c.resolution, StageOf(d) \in {"processing", "in_review"}
    PROVE  Lifecycle!Onward(CaseOf(c), CaseOf(d)) /\ VerdictOK(d)
<1>1. ~Lifecycle!Settled(CaseOf(c))
  BY SettledStage
<1>2. ~CaseOf(c).referred
  BY DEF CaseOf
<1>3. Lifecycle!Rank(StageOf(c)) <= Lifecycle!Rank(StageOf(d))
  BY DEF Lifecycle!Rank
<1>4. VerdictOK(d)
  BY DecidedStage DEF VerdictOK
<1> QED
  BY <1>1, <1>2, <1>3, <1>4, QuietStep

LEMMA ProcessingStages ==
    ASSUME NEW c, c.status # "none",
           c.next \in {"intake", "document_extraction_agent", "risk_scoring_agent",
                       "policy_compliance_agent"}
    PROVE  StageOf(c) = "processing"
BY DEF StageOf

LEMMA EarlyNodesCase ==
    ASSUME NEW c, CaseOK(c)
    PROVE  /\ c.next = "intake" =>
                /\ Lifecycle!Onward(CaseOf(c), CaseOf(Received(c)))
                /\ VerdictOK(Received(c))
           /\ \A fin \in Financials : c.next = "document_extraction_agent" =>
                /\ Lifecycle!Onward(CaseOf(c), CaseOf(Extracted(c, fin)))
                /\ VerdictOK(Extracted(c, fin))
           /\ c.next = "risk_scoring_agent" =>
                /\ Lifecycle!Onward(CaseOf(c), CaseOf(Scored(c)))
                /\ VerdictOK(Scored(c))
<1>1. c \in CheckpointsOver(Trails)
  BY CheckpointsAre DEF CaseOK, Typed
<1>2. ASSUME c.next = "intake"
      PROVE  Lifecycle!Onward(CaseOf(c), CaseOf(Received(c))) /\ VerdictOK(Received(c))
  <2>1. /\ Received(c).next = "document_extraction_agent"
        /\ Received(c).status = "in_progress"
        /\ Received(c).earlier = c.earlier /\ Received(c).resolution = c.resolution
    BY <1>1 DEF Received, Advance, CheckpointsOver
  <2>2. StageOf(c) = "processing" /\ StageOf(Received(c)) = "processing"
    BY <1>2, <2>1, NodeRunsOnPath, ProcessingStages DEF CaseOK
  <2> QED
    BY <2>1, <2>2, EarlyStep
<1>3. ASSUME NEW fin \in Financials, c.next = "document_extraction_agent"
      PROVE  /\ Lifecycle!Onward(CaseOf(c), CaseOf(Extracted(c, fin)))
             /\ VerdictOK(Extracted(c, fin))
  <2>1. /\ Extracted(c, fin).next = "risk_scoring_agent"
        /\ Extracted(c, fin).status = c.status
        /\ Extracted(c, fin).earlier = c.earlier
        /\ Extracted(c, fin).resolution = c.resolution
    BY <1>1 DEF Extracted, Advance, CheckpointsOver
  <2>2. StageOf(c) = "processing" /\ StageOf(Extracted(c, fin)) = "processing"
    BY <1>3, <2>1, NodeRunsOnPath, ProcessingStages DEF CaseOK
  <2> QED
    BY <2>1, <2>2, EarlyStep
<1>4. ASSUME c.next = "risk_scoring_agent"
      PROVE  Lifecycle!Onward(CaseOf(c), CaseOf(Scored(c))) /\ VerdictOK(Scored(c))
  <2>1. /\ Scored(c).next = "policy_compliance_agent"
        /\ Scored(c).status = c.status
        /\ Scored(c).earlier = c.earlier /\ Scored(c).resolution = c.resolution
    BY <1>1 DEF Scored, Advance, CheckpointsOver
  <2>2. StageOf(c) = "processing" /\ StageOf(Scored(c)) = "processing"
    BY <1>4, <2>1, NodeRunsOnPath, ProcessingStages DEF CaseOK
  <2> QED
    BY <2>1, <2>2, EarlyStep
<1> QED
  BY <1>2, <1>3, <1>4

LEMMA EvaluatedCase ==
    ASSUME NEW c, CaseOK(c), c.next = "policy_compliance_agent"
    PROVE  Lifecycle!Onward(CaseOf(c), CaseOf(Evaluated(c))) /\ VerdictOK(Evaluated(c))
<1> DEFINE d == Evaluated(c)
           found == EvaluatePolicy(c.application, c.extracted)
<1>1. c \in CheckpointsOver(Trails) /\ c.status # "none"
  BY NodeRunsOnPath DEF CaseOK
<1> HIDE DEF found
<1>2. /\ d.next = RouteAfterPolicy(c.risk, found) /\ d.status = c.status
      /\ d.earlier = c.earlier /\ d.resolution = c.resolution
      /\ d.risk = c.risk /\ d.flags = found
  BY <1>1 DEF Evaluated, Advance, CheckpointsOver, found
<1> HIDE DEF d
<1>3. d.next = IF IsReviewCase(d) THEN "human_escalation" ELSE "explainability_agent"
  BY <1>2 DEF RouteAfterPolicy, IsReviewCase, Passed
<1>4. StageOf(c) = "processing"
  BY <1>1, ProcessingStages
<1>5. StageOf(d) \in {"processing", "in_review"}
  BY <1>1, <1>2, <1>3 DEF StageOf
<1>6. Lifecycle!Onward(CaseOf(c), CaseOf(d)) /\ VerdictOK(d)
  BY <1>2, <1>4, <1>5, EarlyStep
<1> QED
  BY <1>6 DEF d

LEMMA PausedCase ==
    ASSUME NEW c, CaseOK(c)
    PROVE  Lifecycle!Onward(CaseOf(c), CaseOf(Paused(c))) /\ VerdictOK(Paused(c))
<1> DEFINE d == Paused(c)
<1>1. c \in CheckpointsOver(Trails)
  BY CheckpointsAre DEF CaseOK, Typed
<1>2. /\ d.next = c.next /\ d.status = c.status /\ d.earlier = c.earlier
      /\ d.risk = c.risk /\ d.flags = c.flags
      /\ d.resolution = c.resolution /\ d.decision = c.decision
  BY <1>1 DEF Paused, CheckpointsOver
<1> HIDE DEF d
<1>3. CaseOf(d) = CaseOf(c)
  BY <1>2 DEF CaseOf, StageOf, IsReviewCase
<1>4. Lifecycle!Onward(CaseOf(c), CaseOf(d))
  BY <1>3, StageRange, OnwardReflexive
<1>5. VerdictOK(d)
  BY <1>2 DEF CaseOK, VerdictOK, Decided
<1> QED
  BY <1>4, <1>5 DEF d

LEMMA ResolvedCase ==
    ASSUME NEW c, CaseOK(c), c.next = "human_escalation", NEW resolution \in Resolutions
    PROVE  /\ Lifecycle!Onward(CaseOf(c), CaseOf(Resolved(c, resolution)))
           /\ VerdictOK(Resolved(c, resolution))
<1> DEFINE d == Resolved(c, resolution)
<1>1. c \in CheckpointsOver(Trails) /\ c.status # "none" /\ IsReviewCase(c)
  BY NodeRunsOnPath DEF CaseOK, PathOK, RoutedToReview
<1>2. /\ d.next = "explainability_agent" /\ d.status = "escalation_resolved"
      /\ d.earlier = c.earlier /\ d.risk = c.risk /\ d.flags = c.flags
  BY <1>1 DEF Resolved, Advance, CheckpointsOver
<1> HIDE DEF d
<1>3. IsReviewCase(d)
  BY <1>1, <1>2 DEF IsReviewCase
<1>4. StageOf(c) = "in_review" /\ StageOf(d) = "answered"
  BY <1>1, <1>2, <1>3 DEF StageOf
<1>5. VerdictOK(d)
  BY <1>4, DecidedStage DEF VerdictOK
<1>6. /\ CaseOf(c).began = CaseOf(d).began /\ CaseOf(d).referred
      /\ CaseOf(c).stage = "in_review" /\ CaseOf(d).stage = "answered"
  BY <1>2, <1>4 DEF CaseOf
<1>7. /\ ~Lifecycle!Settled(CaseOf(c)) /\ ~Lifecycle!PastReview(CaseOf(c))
      /\ Lifecycle!PastReview(CaseOf(d))
  BY <1>4, SettledStage
<1>8. Lifecycle!Rank("in_review") <= Lifecycle!Rank("answered")
  BY DEF Lifecycle!Rank
<1>9. Lifecycle!Onward(CaseOf(c), CaseOf(d))
  BY <1>6, <1>7, <1>8 DEF Lifecycle!Onward
<1> QED
  BY <1>5, <1>9 DEF d

LEMMA ExplainedCase ==
    ASSUME NEW c, CaseOK(c), c.next = "explainability_agent"
    PROVE  Lifecycle!Onward(CaseOf(c), CaseOf(Explained(c))) /\ VerdictOK(Explained(c))
<1> DEFINE d == Explained(c)
           decision == DecisionOn(c)
<1>1. c \in CheckpointsOver(Trails) /\ c.status # "none"
  BY NodeRunsOnPath DEF CaseOK
<1>2. /\ c.resolution = None => decision.decidedBy = "explainability_agent"
      /\ c.resolution # None =>
           /\ decision.decidedBy = c.resolution.reviewer
           /\ decision.outcome = "approved" <=> c.resolution.approve
  <2>1. c \in Checkpoints
    BY <1>1, CheckpointsAre
  <2> QED
    BY <2>1, ReviewerDecides DEF DecisionOn
<1> HIDE DEF decision
<1>3. /\ d.next = "decision_output" /\ d.status = c.status /\ d.earlier = c.earlier
      /\ d.risk = c.risk /\ d.flags = c.flags
      /\ d.resolution = c.resolution /\ d.decision = decision
  BY <1>1 DEF Explained, Advance, CheckpointsOver, decision
<1> HIDE DEF d
<1>4. VerdictOK(d)
  BY <1>2, <1>3 DEF VerdictOK
<1>5. StageOf(c) = (IF IsReviewCase(c) THEN "answered" ELSE "processing")
  BY <1>1 DEF StageOf
<1>6. StageOf(d) = "decided"
  BY <1>1, <1>3 DEF StageOf
<1>7. IsReviewCase(d) <=> IsReviewCase(c)
  BY <1>3 DEF IsReviewCase
<1>8. CaseOf(c).referred => CaseOf(d).referred
  BY <1>5, <1>6, <1>7 DEF CaseOf
<1>9. ~Lifecycle!Settled(CaseOf(c))
  BY <1>5, SettledStage
<1>10. Lifecycle!Rank(StageOf(c)) <= Lifecycle!Rank(StageOf(d))
  BY <1>5, <1>6 DEF Lifecycle!Rank
<1>11. Lifecycle!Onward(CaseOf(c), CaseOf(d))
  BY <1>3, <1>8, <1>9, <1>10, QuietStep
<1> QED
  BY <1>4, <1>11 DEF d

LEMMA FinalizedCase ==
    ASSUME NEW c, CaseOK(c), c.next = "decision_output"
    PROVE  Lifecycle!Onward(CaseOf(c), CaseOf(Finalized(c))) /\ VerdictOK(Finalized(c))
<1> DEFINE d == Finalized(c)
<1>1. c \in CheckpointsOver(Trails) /\ c.status # "none"
  BY NodeRunsOnPath DEF CaseOK
<1>2. /\ d.next = "end" /\ d.status = "completed" /\ d.earlier = c.earlier
      /\ d.risk = c.risk /\ d.flags = c.flags
      /\ d.resolution = c.resolution /\ d.decision = c.decision
  BY <1>1 DEF Finalized, Advance, CheckpointsOver
<1> HIDE DEF d
<1>3. VerdictOK(d)
  BY <1>1, <1>2 DEF CaseOK, VerdictOK, Decided
<1>4. StageOf(c) = "decided" /\ StageOf(d) = "completed"
  BY <1>1, <1>2 DEF StageOf
<1>5. IsReviewCase(d) <=> IsReviewCase(c)
  BY <1>2 DEF IsReviewCase
<1>6. /\ CaseOf(c).began = CaseOf(d).began /\ CaseOf(c).answer = CaseOf(d).answer
      /\ CaseOf(c).referred = CaseOf(d).referred /\ CaseOf(c).verdict = CaseOf(d).verdict
      /\ CaseOf(c).stage = "decided" /\ CaseOf(d).stage = "completed"
  BY <1>2, <1>4, <1>5 DEF CaseOf
<1>7. Lifecycle!Onward(CaseOf(c), CaseOf(d))
  BY <1>6 DEF Lifecycle!Onward, Lifecycle!Rank
<1> QED
  BY <1>3, <1>7 DEF d

\* Only a thread that has not run since its submission has an empty trail.
LEMMA EmptyTrail ==
    ASSUME NEW c, CaseOK(c), c.trail = <<>>
    PROVE  StageOf(c) \in {"none", "processing"}
<1>1. c.status = "none" \/ c.trail = ExpectedTrail(c)
  BY DEF CaseOK, PathOK, TrailMatches
<1>2. c.next \in Nodes \union {"end"}
  BY CheckpointsAre DEF CaseOK, Typed, CheckpointsOver
<1>3. CASE c.status = "none"
  BY <1>3 DEF StageOf
<1>4. CASE c.trail = ExpectedTrail(c)
  <2>1. \A t \in Trails : \A x \in AuditActions : Append(t, x) # <<>>
    BY AppendProperties DEF Trails
  <2>2. /\ AfterIntake \in Trails /\ AfterExtraction \in Trails
        /\ AfterRisk \in Trails /\ AfterPolicy \in Trails
        /\ AfterReview(c) \in Trails /\ AfterRationale(c) \in Trails
    <3>1. AfterIntake \in Trails
      BY DEF AfterIntake, Trails, AuditActions
    <3>2. AfterExtraction \in Trails
      BY <3>1, TrailOps DEF AfterExtraction, AuditActions
    <3>3. AfterRisk \in Trails
      BY <3>2, TrailOps DEF AfterRisk, AuditActions
    <3>4. AfterPolicy \in Trails
      BY <3>3, TrailOps DEF AfterPolicy, AuditActions
    <3>5. Append(AfterPolicy, "escalation_requested") \in Trails
      BY <3>4, TrailOps DEF AuditActions
    <3>6. Append(Append(AfterPolicy, "escalation_requested"), "escalation_resolved") \in Trails
      BY <3>5, TrailOps DEF AuditActions
    <3>7. AfterReview(c) \in Trails
      BY <3>4, <3>6 DEF AfterReview
    <3>8. AfterRationale(c) \in Trails
      BY <3>7, TrailOps DEF AfterRationale, AuditActions
    <3> QED
      BY <3>1, <3>2, <3>3, <3>4, <3>7, <3>8
  <2>3. /\ AfterIntake # <<>> /\ AfterExtraction # <<>> /\ AfterRisk # <<>>
        /\ AfterPolicy # <<>> /\ AfterRationale(c) # <<>>
        /\ Append(AfterRationale(c), "decision_finalized") # <<>>
    <3>1. AfterIntake # <<>>
      BY DEF AfterIntake
    <3> QED
      BY <2>1, <2>2, <3>1
         DEF AfterExtraction, AfterRisk, AfterPolicy, AfterRationale, AuditActions
  <2>4. c.next = "explainability_agent" => ~IsReviewCase(c)
    <3>1. Append(Append(AfterPolicy, "escalation_requested"), "escalation_resolved") # <<>>
      BY <2>1, <2>2, TrailOps DEF AuditActions
    <3> QED
      BY <1>4, <3>1 DEF ExpectedTrail, AfterReview
  <2>5. c.next \notin {"human_escalation", "decision_output", "end"}
    BY <1>4, <2>3 DEF ExpectedTrail
  <2> QED
    BY <1>2, <2>4, <2>5 DEF StageOf, Nodes
<1> QED
  BY <1>1, <1>3, <1>4

LEMMA SubmittedCase ==
    ASSUME NEW c, CaseOK(c), NEW payload \in Payloads
    PROVE  Later(CaseOf(c), CaseOf(Submitted(c, payload))) /\ VerdictOK(Submitted(c, payload))
<1> DEFINE d == Submitted(c, payload)
<1>1. c \in CheckpointsOver(Trails)
  BY CheckpointsAre DEF CaseOK, Typed
<1>2. /\ d.next = "intake" /\ d.status = "in_progress"
      /\ d.earlier = c.earlier \o c.trail /\ d.resolution = c.resolution
  BY <1>1 DEF Submitted, CheckpointsOver
<1> HIDE DEF d
<1>3. StageOf(d) = "processing"
  BY <1>2, ProcessingStages
<1>4. VerdictOK(d)
  BY <1>3, DecidedStage DEF VerdictOK
<1>5. /\ CaseOf(d).stage = "processing" /\ CaseOf(d).answer = CaseOf(c).answer
      /\ CaseOf(d).began = Len(d.earlier) /\ CaseOf(c).began = Len(c.earlier)
      /\ CaseOf(c).stage = StageOf(c) /\ ~CaseOf(d).referred
  BY <1>2, <1>3 DEF CaseOf
<1>6. c.earlier \in Trails /\ c.trail \in Trails
  BY <1>1 DEF CheckpointsOver
<1>7. CASE c.trail = <<>>
  <2>1. d.earlier = c.earlier
    BY <1>2, <1>6, <1>7 DEF Trails
  <2>2. StageOf(c) \in {"none", "processing"}
    BY <1>7, EmptyTrail
  <2>3. ~CaseOf(c).referred /\ ~Lifecycle!Settled(CaseOf(c))
    BY <2>2, SettledStage DEF CaseOf
  <2>4. Lifecycle!Rank(StageOf(c)) <= Lifecycle!Rank(StageOf(d))
    BY <1>3, <2>2 DEF Lifecycle!Rank
  <2> QED
    BY <1>2, <1>4, <2>1, <2>3, <2>4, QuietStep DEF Later, d
<1>8. CASE c.trail # <<>>
  <2>1. Len(d.earlier) > Len(c.earlier)
    <3>1. Len(c.trail) \in Nat \ {0} /\ Len(c.earlier) \in Nat
      BY <1>6, <1>8, EmptySeq, LenProperties DEF Trails
    <3>2. Len(c.earlier \o c.trail) = Len(c.earlier) + Len(c.trail)
      BY <1>6, ConcatProperties DEF Trails
    <3>3. Len(d.earlier) = Len(c.earlier) + Len(c.trail)
      BY <1>2, <3>2, Zenon
    <3>4. \A m \in Nat, n \in Nat \ {0} : m + n > m
      OBVIOUS
    <3> QED
      BY <3>1, <3>3, <3>4, Zenon
  <2>2. Lifecycle!Reopened(CaseOf(c), CaseOf(d))
    BY <1>5, <2>1 DEF Lifecycle!Reopened
  <2> QED
    BY <1>4, <2>2 DEF Later, d
<1> QED
  BY <1>7, <1>8

-----------------------------------------------------------------------------
(* Every operation on a checkpoint adds to the audit trail or leaves it.    *)

LEMMA FrontIs ==
    ASSUME NEW t, NEW n \in Nat, \A i \in 1..n : t[i] \in AuditActions
    PROVE  /\ SubSeq(t, 1, n) \in Seq(AuditActions)
           /\ Len(SubSeq(t, 1, n)) = n
           /\ \A i \in 1..n : SubSeq(t, 1, n)[i] = t[i]
OBVIOUS

LEMMA StartsWithIs ==
    ASSUME NEW t \in Trails, NEW u \in Trails
    PROVE  StartsWith(t, u) <=> /\ Len(u) <= Len(t)
                                /\ \A i \in 1..Len(u) : t[i] = u[i]
<1>1. Len(t) \in Nat /\ Len(u) \in Nat
  BY LenProperties DEF Trails
<1>2. ASSUME Len(u) <= Len(t)
      PROVE  SubSeq(t, 1, Len(u)) = u <=> \A i \in 1..Len(u) : t[i] = u[i]
  <2> DEFINE front == SubSeq(t, 1, Len(u))
  <2>1. \A i \in 1..Len(u) : t[i] \in AuditActions
    BY <1>1, <1>2, ElementOfSeq DEF Trails
  <2>2. /\ front \in Seq(AuditActions)
        /\ Len(front) = Len(u)
        /\ \A i \in 1..Len(u) : front[i] = t[i]
    BY <1>1, <2>1, FrontIs
  <2> HIDE DEF front
  <2>3. ASSUME \A i \in 1..Len(u) : t[i] = u[i] PROVE front = u
    BY <2>2, <2>3, SeqEqual DEF Trails
  <2> QED
    BY <2>2, <2>3 DEF front
<1> QED
  BY <1>2 DEF StartsWith

LEMMA StartsWithSelf == \A t \in Trails : StartsWith(t, t)
<1> SUFFICES ASSUME NEW t \in Trails PROVE StartsWith(t, t)
  OBVIOUS
<1>1. Len(t) \in Nat
  BY LenProperties DEF Trails
<1> QED
  BY <1>1, StartsWithIs

LEMMA StartsWithTransitive ==
    ASSUME NEW t \in Trails, NEW u \in Trails, NEW v \in Trails,
           StartsWith(t, u), StartsWith(u, v)
    PROVE  StartsWith(t, v)
<1>1. Len(t) \in Nat /\ Len(u) \in Nat /\ Len(v) \in Nat
  BY LenProperties DEF Trails
<1> QED
  BY <1>1, StartsWithIs

LEMMA TrailOfCheckpoint ==
    ASSUME NEW c \in CheckpointsOver(Trails)
    PROVE  AuditTrail(c) \in Trails
BY TrailOps DEF AuditTrail, CheckpointsOver

LEMMA AppendGrows ==
    ASSUME NEW e \in Trails, NEW t \in Trails, NEW x \in AuditActions
    PROVE  StartsWith(e \o Append(t, x), e \o t)
<1> DEFINE u == Append(t, x)
<1>1. u \in Trails /\ Len(u) = Len(t) + 1 /\ \A i \in 1..Len(t) : u[i] = t[i]
  BY AppendProperties DEF Trails
<1>2. Len(e) \in Nat /\ Len(t) \in Nat
  BY LenProperties DEF Trails
<1> HIDE DEF u
<1>3. /\ e \o t \in Trails /\ Len(e \o t) = Len(e) + Len(t)
      /\ \A i \in 1..Len(e) + Len(t) :
            (e \o t)[i] = IF i <= Len(e) THEN e[i] ELSE t[i - Len(e)]
  BY ConcatProperties DEF Trails
<1>4. /\ e \o u \in Trails /\ Len(e \o u) = Len(e) + Len(u)
      /\ \A i \in 1..Len(e) + Len(u) :
            (e \o u)[i] = IF i <= Len(e) THEN e[i] ELSE u[i - Len(e)]
  BY <1>1, ConcatProperties DEF Trails
<1> DEFINE long  == e \o u
           short == e \o t
<1> HIDE DEF long, short
<1>5. Len(short) <= Len(long)
  BY <1>1, <1>2, <1>3, <1>4 DEF long, short
<1>6. \A i \in 1..Len(short) : long[i] = short[i]
  BY <1>1, <1>2, <1>3, <1>4 DEF long, short
<1>7. StartsWith(long, short)
  BY <1>3, <1>4, <1>5, <1>6, StartsWithIs DEF long, short
<1> QED
  BY <1>7 DEF long, short, u

LEMMA AdvanceGrows ==
    ASSUME NEW c \in CheckpointsOver(Trails), NEW d, NEW x \in AuditActions,
           d.earlier = c.earlier, d.trail = Append(c.trail, x)
    PROVE  StartsWith(AuditTrail(d), AuditTrail(c))
<1>1. c.earlier \in Trails /\ c.trail \in Trails
  BY DEF CheckpointsOver
<1>2. StartsWith(c.earlier \o Append(c.trail, x), c.earlier \o c.trail)
  BY <1>1, AppendGrows
<1> QED
  BY <1>2, Zenon DEF AuditTrail

LEMMA SubmittedTrail ==
    ASSUME NEW c \in CheckpointsOver(Trails), NEW payload
    PROVE  AuditTrail(Submitted(c, payload)) = AuditTrail(c)
<1>1. /\ Submitted(c, payload).earlier = c.earlier \o c.trail
      /\ Submitted(c, payload).trail = <<>>
  BY DEF Submitted, CheckpointsOver
<1>2. AuditTrail(c) \in Trails
  BY TrailOfCheckpoint
<1> QED
  BY <1>1, <1>2, ConcatEmptySeq, Zenon DEF AuditTrail, Trails

LEMMA SubmittedGrows ==
    ASSUME NEW c \in CheckpointsOver(Trails), NEW payload
    PROVE  StartsWith(AuditTrail(Submitted(c, payload)), AuditTrail(c))
BY SubmittedTrail, TrailOfCheckpoint, StartsWithSelf

LEMMA NodeTrails ==
    ASSUME NEW c \in CheckpointsOver(Trails)
    PROVE  /\ /\ Received(c).earlier = c.earlier
              /\ Received(c).trail = Append(c.trail, "application_received")
           /\ \A fin : /\ Extracted(c, fin).earlier = c.earlier
                       /\ Extracted(c, fin).trail = Append(c.trail, "financials_extracted")
           /\ /\ Scored(c).earlier = c.earlier
              /\ Scored(c).trail = Append(c.trail, "risk_scored")
           /\ /\ Evaluated(c).earlier = c.earlier
              /\ Evaluated(c).trail = Append(c.trail, "policy_evaluated")
           /\ /\ Explained(c).earlier = c.earlier
              /\ Explained(c).trail = Append(c.trail, "rationale_generated")
           /\ /\ Finalized(c).earlier = c.earlier
              /\ Finalized(c).trail = Append(c.trail, "decision_finalized")
<1>1. /\ Received(c).earlier = c.earlier
      /\ Received(c).trail = Append(c.trail, "application_received")
  BY DEF Received, Advance, CheckpointsOver
<1>2. \A fin : /\ Extracted(c, fin).earlier = c.earlier
               /\ Extracted(c, fin).trail = Append(c.trail, "financials_extracted")
  BY DEF Extracted, Advance, CheckpointsOver
<1>3. /\ Scored(c).earlier = c.earlier
      /\ Scored(c).trail = Append(c.trail, "risk_scored")
  BY DEF Scored, Advance, CheckpointsOver
<1>4. /\ Evaluated(c).earlier = c.earlier
      /\ Evaluated(c).trail = Append(c.trail, "policy_evaluated")
  BY DEF Evaluated, Advance, CheckpointsOver
<1>5. /\ Explained(c).earlier = c.earlier
      /\ Explained(c).trail = Append(c.trail, "rationale_generated")
  BY DEF Explained, Advance, CheckpointsOver
<1>6. /\ Finalized(c).earlier = c.earlier
      /\ Finalized(c).trail = Append(c.trail, "decision_finalized")
  BY DEF Finalized, Advance, CheckpointsOver
<1> QED
  BY <1>1, <1>2, <1>3, <1>4, <1>5, <1>6

LEMMA NodesGrow ==
    ASSUME NEW c \in CheckpointsOver(Trails)
    PROVE  /\ StartsWith(AuditTrail(Received(c)), AuditTrail(c))
           /\ \A fin : StartsWith(AuditTrail(Extracted(c, fin)), AuditTrail(c))
           /\ StartsWith(AuditTrail(Scored(c)), AuditTrail(c))
           /\ StartsWith(AuditTrail(Evaluated(c)), AuditTrail(c))
           /\ StartsWith(AuditTrail(Explained(c)), AuditTrail(c))
           /\ StartsWith(AuditTrail(Finalized(c)), AuditTrail(c))
BY NodeTrails, AdvanceGrows DEF AuditActions

LEMMA PausedGrows ==
    ASSUME NEW c \in CheckpointsOver(Trails)
    PROVE  StartsWith(AuditTrail(Paused(c)), AuditTrail(c))
<1>1. AuditTrail(Paused(c)) = AuditTrail(c)
  BY DEF Paused, AuditTrail, CheckpointsOver
<1> QED
  BY <1>1, TrailOfCheckpoint, StartsWithSelf

LEMMA ResolvedGrows ==
    ASSUME NEW c \in CheckpointsOver(Trails), NEW resolution \in Resolutions
    PROVE  StartsWith(AuditTrail(Resolved(c, resolution)), AuditTrail(c))
<1> DEFINE b == Advance(c, "human_escalation", "escalation_requested")
           d == Resolved(c, resolution)
<1>1. b \in CheckpointsOver(Trails)
  BY CheckpointsAre, AdvanceTyped DEF Nodes, AuditActions
<1>2. b.earlier = c.earlier /\ b.trail = Append(c.trail, "escalation_requested")
  BY DEF Advance, CheckpointsOver
<1>3. StartsWith(AuditTrail(b), AuditTrail(c))
  BY <1>2, AdvanceGrows DEF AuditActions
<1>4. d = [Advance(b, "explainability_agent", "escalation_resolved")
             EXCEPT !.interrupted = FALSE, !.status = "escalation_resolved",
                    !.resolution = resolution]
  BY DEF Resolved
<1>5. d \in CheckpointsOver(Trails)
  <2>1. Advance(b, "explainability_agent", "escalation_resolved") \in CheckpointsOver(Trails)
    BY <1>1, CheckpointsAre, AdvanceTyped DEF Nodes, AuditActions
  <2> HIDE DEF b, d
  <2> QED
    BY <1>4, <2>1 DEF CheckpointsOver, Statuses
<1> HIDE DEF b, d
<1>6. d.earlier = b.earlier /\ d.trail = Append(b.trail, "escalation_resolved")
  BY <1>1, <1>4 DEF Advance, CheckpointsOver
<1>7. StartsWith(AuditTrail(d), AuditTrail(b))
  BY <1>1, <1>6, AdvanceGrows DEF AuditActions
<1> QED
  BY <1>1, <1>3, <1>5, <1>7, TrailOfCheckpoint, StartsWithTransitive DEF d

-----------------------------------------------------------------------------
(* Handlers, and when they are alone.                                       *)

\* Inside graph.invoke.
AtWork == {"running", "returning", "raising"}

\* No two handlers are inside graph.invoke for one id at a time: what a lock per
\* thread id would give to any number of processes.
OneInvokePerId ==
    \A s, t \in Servers :
        s # t /\ pc[s] \in AtWork /\ pc[t] \in AtWork => target[s] # target[t]

\* No two requests for one id are in progress at a time: the same lock, taken
\* before resolve_escalation looks at the snapshot.
OneHandlerPerId ==
    \A s, t \in Servers : s # t /\ target[s] # None => target[s] # target[t]

LEMMA OneHandlerEnough == TypeInv /\ OneHandlerPerId => OneInvokePerId
BY NoneAssumption DEF TypeInv, TypeOK, OneHandlerPerId, OneInvokePerId, AtWork

\* Handlers of one process never overlap.
LEMMA OneProcessEnough ==
    ASSUME OneProcess
    PROVE  OneHandlerPerId /\ OneInvokePerId
BY DEF OneProcess, OneHandlerPerId, OneInvokePerId

\* A node that does its work, to its checkpoint or its interrupt.
NodeRuns(s) ==
    \/ IntakeNode(s) \/ ExtractionNode(s) \/ RiskNode(s) \/ PolicyNode(s)
    \/ EscalationPauses(s) \/ EscalationResumes(s)
    \/ ExplainabilityNode(s) \/ OutputNode(s)

Leaves(s) == Return(s) \/ Raise(s) \/ Crash(s)

Requested(s) ==
    \/ \E a \in Apps, payload \in Payloads : StartApplication(s, a, payload)
    \/ \E a \in Apps, resolution \in Resolutions : CheckResolve(s, a, resolution)

StepOf(s) ==
    Requested(s) \/ Resume(s) \/ NodeRuns(s) \/ NodeFails(s) \/ Flush(s) \/ Leaves(s)

LEMMA NextIs == Next => \E s \in Servers : StepOf(s)
BY DEF Next, HandlerStep, StepOf, NodeRuns, Leaves, Requested

\* The other handlers stay where they are.
OthersStay(s) ==
    \A t \in Servers : t # s =>
        /\ pc'[t] = pc[t] /\ target'[t] = target[t]
        /\ work'[t] = work[t] /\ resume'[t] = resume[t] /\ unsaved'[t] = unsaved[t]

LEMMA OthersStayPut ==
    ASSUME TypeInv, NEW s \in Servers, StepOf(s)
    PROVE  OthersStay(s)
<1>1. /\ DOMAIN pc = Servers /\ DOMAIN target = Servers /\ DOMAIN work = Servers
      /\ DOMAIN resume = Servers /\ DOMAIN unsaved = Servers
  BY DEF TypeInv, TypeOK
<1>2. ASSUME NEW c, NEW events, Commit(s, c, events) PROVE OthersStay(s)
  BY <1>1, <1>2 DEF Commit, OthersStay
<1>3. CASE Requested(s)
  <2>1. ASSUME NEW a \in Apps, NEW payload \in Payloads, StartApplication(s, a, payload)
        PROVE  OthersStay(s)
    BY <1>1, <2>1 DEF StartApplication, OthersStay
  <2>2. ASSUME NEW a \in Apps, NEW resolution \in Resolutions, CheckResolve(s, a, resolution)
        PROVE  OthersStay(s)
    BY <1>1, <2>2 DEF CheckResolve, OthersStay
  <2> QED
    BY <1>3, <2>1, <2>2 DEF Requested
<1>4. CASE Resume(s) \/ NodeFails(s)
  BY <1>1, <1>4 DEF Resume, NodeFails, OthersStay
<1>5. CASE Flush(s) \/ EscalationPauses(s)
  BY <1>1, <1>5 DEF Flush, EscalationPauses, OthersStay
<1>6. CASE NodeRuns(s) /\ ~EscalationPauses(s)
  BY <1>2, <1>6
     DEF NodeRuns, IntakeNode, ExtractionNode, RiskNode, PolicyNode, EscalationResumes,
         ExplainabilityNode, OutputNode
<1>7. CASE Leaves(s)
  <2>1. Release(s)
    BY <1>7 DEF Leaves, Return, Raise, Crash
  <2> QED
    BY <1>1, <2>1 DEF Release, OthersStay
<1> QED
  BY <1>3, <1>4, <1>5, <1>6, <1>7 DEF StepOf

-----------------------------------------------------------------------------
(* What a node makes of the checkpoint of its handler.                      *)

DoneAtEnd(c) == c.status = "completed" => c.next = "end"

LEMMA DoneFields ==
    ASSUME NEW c, NEW d, DoneAtEnd(c), c.next # "end",
           d.status \in {c.status, "in_progress", "escalation_resolved"}
    PROVE  DoneAtEnd(d)
BY DEF DoneAtEnd

LEMMA NodesDone ==
    ASSUME NEW c \in CheckpointsOver(Trails), DoneAtEnd(c), c.next # "end"
    PROVE  /\ DoneAtEnd(Received(c))
           /\ \A fin : DoneAtEnd(Extracted(c, fin))
           /\ DoneAtEnd(Scored(c))
           /\ DoneAtEnd(Evaluated(c))
           /\ DoneAtEnd(Paused(c))
           /\ \A resolution : DoneAtEnd(Resolved(c, resolution))
           /\ DoneAtEnd(Explained(c))
           /\ DoneAtEnd(Finalized(c))
<1>1. Received(c).status = "in_progress" /\ Paused(c).status = c.status
  BY DEF Received, Paused, Advance, CheckpointsOver
<1>2. /\ \A fin : Extracted(c, fin).status = c.status
      /\ Scored(c).status = c.status /\ Evaluated(c).status = c.status
      /\ Explained(c).status = c.status
  BY DEF Extracted, Scored, Evaluated, Explained, Advance, CheckpointsOver
<1>3. \A resolution : Resolved(c, resolution).status = "escalation_resolved"
  BY DEF Resolved, Advance, CheckpointsOver
<1>4. Finalized(c).next = "end"
  BY DEF Finalized, Advance, CheckpointsOver
<1> QED
  BY <1>1, <1>2, <1>3, <1>4, DoneFields DEF DoneAtEnd

\* An interrupt on record is the reviewer's, and a run that is done is completed.
PauseOK(c) ==
    /\ c.interrupted => c.next = "human_escalation"
    /\ c.next = "end" => c.status \in {"none", "completed"}

LEMMA NodesPause ==
    ASSUME NEW c \in CheckpointsOver(Trails), PauseOK(c)
    PROVE  /\ c.next # "human_escalation" =>
                 /\ PauseOK(Received(c))
                 /\ \A fin : PauseOK(Extracted(c, fin))
                 /\ PauseOK(Scored(c))
                 /\ PauseOK(Evaluated(c))
                 /\ PauseOK(Explained(c)) /\ PauseOK(Finalized(c))
           /\ c.next = "human_escalation" => PauseOK(Paused(c))
           /\ \A resolution : PauseOK(Resolved(c, resolution))
<1>1. /\ Paused(c).next = c.next
      /\ \A resolution : /\ Resolved(c, resolution).next = "explainability_agent"
                         /\ ~Resolved(c, resolution).interrupted
  BY DEF Paused, Resolved, Advance, CheckpointsOver
<1>2. ASSUME c.next # "human_escalation"
      PROVE  /\ PauseOK(Received(c))
             /\ \A fin : PauseOK(Extracted(c, fin))
             /\ PauseOK(Scored(c))
             /\ PauseOK(Evaluated(c))
             /\ PauseOK(Explained(c))
             /\ PauseOK(Finalized(c))
  <2>1. ~c.interrupted
    BY <1>2 DEF PauseOK
  <2>2. /\ Received(c).next = "document_extraction_agent" /\ ~Received(c).interrupted
        /\ \A fin : Extracted(c, fin).next = "risk_scoring_agent" /\ ~Extracted(c, fin).interrupted
        /\ Scored(c).next = "policy_compliance_agent" /\ ~Scored(c).interrupted
    BY <2>1 DEF Received, Extracted, Scored, Advance, CheckpointsOver
  <2>3. Evaluated(c).next # "end" /\ ~Evaluated(c).interrupted
    BY <2>1 DEF Evaluated, RouteAfterPolicy, Advance, CheckpointsOver
  <2>4. /\ Explained(c).next = "decision_output" /\ ~Explained(c).interrupted
        /\ Finalized(c).status = "completed" /\ ~Finalized(c).interrupted
    BY <2>1 DEF Explained, Finalized, Advance, CheckpointsOver
  <2> QED
    BY <2>2, <2>3, <2>4 DEF PauseOK
<1> QED
  BY <1>1, <1>2 DEF PauseOK

\* The node after c has made d of it.
MovedOn(c, d) ==
    /\ Typed(d) /\ VerdictOK(d)
    /\ Lifecycle!Onward(CaseOf(c), CaseOf(d))
    /\ StartsWith(AuditTrail(d), AuditTrail(c))
    /\ DoneAtEnd(c) => DoneAtEnd(d)
    /\ PauseOK(c) => PauseOK(d)

WorkDone(s) ==
    /\ UNCHANGED <<store, runs, reply, target>>
    /\ pc[s] = "running" /\ work[s].next # "end"
    /\ pc'[s] = IF work'[s].next = "end" \/ EscalationPauses(s) THEN "returning" ELSE "running"
    /\ EscalationPauses(s) => work'[s].next = "human_escalation" /\ work'[s].interrupted
    /\ unsaved'[s]
    /\ MovedOn(work[s], work'[s])

\* A commit is no pause: a pause leaves the node where it is, and the nodes that
\* commit go on to another.
LEMMA CommitWorks ==
    ASSUME TypeInv, NEW s \in Servers, pc[s] = "running", work[s].next # "end",
           NEW c, NEW events, Commit(s, c, events), MovedOn(work[s], c),
           ~EscalationPauses(s)
    PROVE  WorkDone(s)
<1>1. work'[s] = c /\ unsaved'[s] = TRUE
      /\ pc'[s] = IF c.next = "end" THEN "returning" ELSE "running"
  BY DEF TypeInv, TypeOK, Commit
<1>2. UNCHANGED <<store, runs, reply, target>>
  BY DEF Commit
<1> QED
  BY <1>1, <1>2 DEF WorkDone

LEMMA NodesWork ==
    ASSUME TypeInv, NEW s \in Servers, CaseOK(work[s]), NodeRuns(s)
    PROVE  WorkDone(s)
<1> DEFINE c == work[s]
<1>1. CaseOK(c) /\ Typed(c) /\ c \in CheckpointsOver(Trails)
  BY CheckpointsAre DEF CaseOK, Typed
<1>2. CASE EscalationPauses(s)
  <2>1. /\ UNCHANGED <<store, runs, reply, target>> /\ work'[s] = Paused(c)
        /\ pc[s] = "running" /\ c.next = "human_escalation" /\ pc'[s] = "returning"
        /\ unsaved'[s] = TRUE
    BY <1>2 DEF EscalationPauses, AtNode, TypeInv, TypeOK
  <2>2. Paused(c).next = c.next /\ Paused(c).interrupted = TRUE
    BY <1>1 DEF Paused, CheckpointsOver
  <2>3. MovedOn(c, Paused(c))
    BY <1>1, <2>1, PausedCase, PausedGrows, PausedTyped, NodesDone, NodesPause DEF MovedOn
  <2> HIDE DEF c
  <2> QED
    BY <1>2, <2>1, <2>2, <2>3 DEF WorkDone, c
<1>3. CASE ~EscalationPauses(s)
  <2>1. ASSUME IntakeNode(s) PROVE WorkDone(s)
    <3>1. MovedOn(c, Received(c))
      BY <1>1, <2>1, EarlyNodesCase, NodesGrow, ReceivedTyped, NodesDone, NodesPause
         DEF MovedOn, IntakeNode, AtNode
    <3> QED
      BY <1>3, <2>1, <3>1, CommitWorks DEF IntakeNode, AtNode
  <2>2. ASSUME ExtractionNode(s) PROVE WorkDone(s)
    <3>1. AtNode(s, "document_extraction_agent")
      BY <2>2 DEF ExtractionNode
    <3>2. work[s].application \in Payloads
      BY <1>1, <3>1, CheckpointsAre DEF CaseOK, Typed, HasInput, AtNode, CheckpointsOver
    <3>3. PICK fin \in ExtractionsOf(work[s].application) :
             Commit(s, Extracted(work[s], fin), {"financials_extracted"})
      BY <2>2 DEF ExtractionNode
    <3>4. fin \in Financials
      BY <3>2, <3>3, ExtractionsType
    <3>5. MovedOn(c, Extracted(c, fin))
      BY <1>1, <3>1, <3>4, EarlyNodesCase, NodesGrow, ExtractedTyped, NodesDone, NodesPause
         DEF MovedOn, AtNode
    <3> QED
      BY <1>3, <3>1, <3>3, <3>5, CommitWorks DEF AtNode
  <2>3. ASSUME RiskNode(s) PROVE WorkDone(s)
    <3>1. MovedOn(c, Scored(c))
      BY <1>1, <2>3, EarlyNodesCase, NodesGrow, ScoredTyped, NodesDone, NodesPause
         DEF MovedOn, RiskNode, AtNode
    <3> QED
      BY <1>3, <2>3, <3>1, CommitWorks DEF RiskNode, AtNode
  <2>4. ASSUME PolicyNode(s) PROVE WorkDone(s)
    <3>1. MovedOn(c, Evaluated(c))
      BY <1>1, <2>4, EvaluatedCase, NodesGrow, EvaluatedTyped, NodesDone, NodesPause
         DEF MovedOn, PolicyNode, AtNode
    <3> QED
      BY <1>3, <2>4, <3>1, CommitWorks DEF PolicyNode, AtNode
  <2>5. ASSUME EscalationResumes(s) PROVE WorkDone(s)
    <3>1. resume[s] \in Resolutions
      BY <2>5 DEF TypeInv, TypeOK, EscalationResumes
    <3>2. MovedOn(c, Resolved(c, resume[s]))
      BY <1>1, <2>5, <3>1, ResolvedCase, ResolvedGrows, ResolvedTyped, NodesDone, NodesPause
         DEF MovedOn, EscalationResumes, AtNode
    <3> QED
      BY <1>3, <2>5, <3>2, CommitWorks DEF EscalationResumes, AtNode
  <2>6. ASSUME ExplainabilityNode(s) PROVE WorkDone(s)
    <3>1. MovedOn(c, Explained(c))
      BY <1>1, <2>6, ExplainedCase, NodesGrow, ExplainedTyped, NodesDone, NodesPause
         DEF MovedOn, ExplainabilityNode, AtNode
    <3> QED
      BY <1>3, <2>6, <3>1, CommitWorks DEF ExplainabilityNode, AtNode
  <2>7. ASSUME OutputNode(s) PROVE WorkDone(s)
    <3>1. MovedOn(c, Finalized(c))
      BY <1>1, <2>7, FinalizedCase, NodesGrow, FinalizedTyped, NodesDone, NodesPause
         DEF MovedOn, OutputNode, AtNode
    <3> QED
      BY <1>3, <2>7, <3>1, CommitWorks DEF OutputNode, AtNode
  <2> QED
    BY <1>3, <2>1, <2>2, <2>3, <2>4, <2>5, <2>6, <2>7 DEF NodeRuns
<1> QED
  BY <1>2, <1>3

-----------------------------------------------------------------------------
(* What the checkpoint of a handler is to the stored one.                   *)

\* d is what work on c may have made of it.
Follows(c, d) == Later(CaseOf(c), CaseOf(d)) /\ StartsWith(AuditTrail(d), AuditTrail(c))

LEMMA FollowsSelf == \A c : Typed(c) => Follows(c, c)
BY StageRange, OnwardReflexive, CheckpointsAre, TrailOfCheckpoint, StartsWithSelf
   DEF Follows, Later, Typed

LEMMA FollowsOnward ==
    ASSUME NEW c, NEW d, NEW e, Typed(c), Typed(d), Typed(e), Follows(c, d),
           Lifecycle!Onward(CaseOf(d), CaseOf(e)), StartsWith(AuditTrail(e), AuditTrail(d))
    PROVE  Follows(c, e)
<1>1. Later(CaseOf(c), CaseOf(e))
  BY StageRange, LaterTransitive DEF Follows
<1>2. StartsWith(AuditTrail(e), AuditTrail(c))
  <2>1. /\ AuditTrail(c) \in Trails /\ AuditTrail(d) \in Trails /\ AuditTrail(e) \in Trails
    BY CheckpointsAre, TrailOfCheckpoint DEF Typed
  <2> QED
    BY <2>1, StartsWithTransitive DEF Follows
<1> QED
  BY <1>1, <1>2 DEF Follows

LifeInv ==
    /\ EveryCheckpoint(VerdictOK)
    /\ \A s \in Servers : unsaved[s] => pc[s] \in AtWork
    /\ \A s \in Servers : pc[s] \in AtWork => Follows(store[target[s]], work[s])

AllOK ==
    /\ \A a \in Apps : CaseOK(store[a])
    /\ \A s \in Servers : CaseOK(work[s])

LEMMA EveryCaseOK == TypeInv /\ PathInv /\ LifeInv => AllOK
BY DEF TypeInv, TypeOK, PathInv, LifeInv, EveryCheckpoint, CaseOK, Typed, AllOK

LEMMA NoThreadCase == VerdictOK(NoThread)
BY DEF VerdictOK, Decided, NoThread

LEMMA InitLife == Init => LifeInv
BY NoThreadCase DEF Init, LifeInv, EveryCheckpoint, AtWork

\* A step of s that stores nothing disturbs no other handler.
LEMMA OwnStepLife ==
    ASSUME LifeInv, NEW s \in Servers, OthersStay(s), store' = store, VerdictOK(work'[s]),
           unsaved'[s] => pc'[s] \in AtWork,
           pc'[s] \in AtWork => Follows(store[target'[s]], work'[s])
    PROVE  LifeInv'
<1>1. EveryCheckpoint(VerdictOK)'
  <2>1. \A t \in Servers : VerdictOK(work'[t])
    BY DEF LifeInv, EveryCheckpoint, OthersStay
  <2> QED
    BY <2>1 DEF LifeInv, EveryCheckpoint
<1>2. \A t \in Servers : unsaved'[t] => pc'[t] \in AtWork
  BY DEF LifeInv, OthersStay
<1>3. \A t \in Servers : pc'[t] \in AtWork => Follows(store'[target'[t]], work'[t])
  BY DEF LifeInv, OthersStay
<1> QED
  BY <1>1, <1>2, <1>3 DEF LifeInv

LEMMA StepLife ==
    TypeInv /\ PathInv /\ LifeInv /\ OneInvokePerId /\ [Next]_vars => LifeInv'
<1> SUFFICES ASSUME TypeInv, PathInv, LifeInv, OneInvokePerId, [Next]_vars PROVE LifeInv'
  OBVIOUS
<1>1. /\ \A a \in Apps : CaseOK(store[a])
      /\ \A s \in Servers : CaseOK(work[s]) /\ Typed(work[s])
  BY EveryCaseOK DEF AllOK, CaseOK, Typed
<1>2. /\ DOMAIN work = Servers /\ DOMAIN store = Apps /\ DOMAIN pc = Servers
      /\ DOMAIN unsaved = Servers /\ DOMAIN target = Servers
  BY DEF TypeInv, TypeOK
<1>3. CASE UNCHANGED vars
  BY <1>3 DEF vars, LifeInv, EveryCheckpoint
<1>4. ASSUME NEW s \in Servers, StepOf(s) PROVE LifeInv'
  <2>1. OthersStay(s)
    BY <1>4, OthersStayPut
  <2>2. ASSUME NEW a \in Apps, NEW payload \in Payloads, StartApplication(s, a, payload)
        PROVE  LifeInv'
    <3>1. /\ Follows(store[a], Submitted(store[a], payload))
          /\ VerdictOK(Submitted(store[a], payload))
      BY <1>1, SubmittedCase, SubmittedGrows, CheckpointsAre DEF Follows, CaseOK, Typed
    <3>2. /\ work'[s] = Submitted(store[a], payload) /\ store' = store
          /\ pc'[s] = "running" /\ target'[s] = a
      BY <1>2, <2>2 DEF StartApplication
    <3> QED
      BY <2>1, <3>1, <3>2, OwnStepLife DEF AtWork
  <2>3. ASSUME NEW a \in Apps, NEW resolution \in Resolutions, CheckResolve(s, a, resolution)
        PROVE  LifeInv'
    <3>1. /\ UNCHANGED <<store, work, unsaved>> /\ pc[s] = "idle" /\ pc'[s] = "checked"
      BY <1>2, <2>3 DEF CheckResolve
    <3>2. ~unsaved[s] /\ VerdictOK(work[s])
      BY <3>1 DEF LifeInv, EveryCheckpoint, AtWork
    <3> QED
      BY <2>1, <3>1, <3>2, OwnStepLife DEF AtWork
  <2>4. CASE Resume(s)
    <3>1. target[s] \in Apps
      BY <2>4 DEF TypeInv, TypeOK, Resume
    <3>2. /\ work'[s] = store[target[s]] /\ UNCHANGED <<store, target>>
          /\ pc'[s] \in AtWork
      BY <1>2, <2>4 DEF Resume, AtWork
    <3>3. Follows(store[target[s]], store[target[s]]) /\ VerdictOK(store[target[s]])
      BY <1>1, <3>1, FollowsSelf DEF CaseOK
    <3> QED
      BY <2>1, <3>2, <3>3, OwnStepLife
  <2>5. CASE NodeRuns(s)
    <3>1. WorkDone(s)
      BY <1>1, <2>5, NodesWork
    <3>2. /\ store' = store /\ target' = target /\ pc[s] \in AtWork /\ pc'[s] \in AtWork
          /\ MovedOn(work[s], work'[s])
      BY <3>1 DEF WorkDone, AtWork
    <3>3. Typed(store[target[s]]) /\ Typed(work[s]) /\ Follows(store[target[s]], work[s])
      BY <3>2 DEF LifeInv, AtWork, TypeInv, TypeOK, Typed
    <3>4. Follows(store[target[s]], work'[s])
      BY <3>2, <3>3, FollowsOnward DEF MovedOn
    <3> QED
      BY <2>1, <3>2, <3>4, OwnStepLife DEF MovedOn
  <2>6. CASE NodeFails(s)
    <3>1. /\ UNCHANGED <<store, target, work, unsaved>> /\ pc[s] = "running"
          /\ pc'[s] = "raising"
      BY <1>2, <2>6 DEF NodeFails, AtNode
    <3>2. VerdictOK(work[s]) /\ Follows(store[target[s]], work[s])
      BY <3>1 DEF LifeInv, EveryCheckpoint, AtWork
    <3> QED
      BY <2>1, <3>1, <3>2, OwnStepLife DEF AtWork
  <2>7. CASE Flush(s)
    <3>1. target[s] \in Apps /\ pc[s] \in AtWork
      BY <2>7 DEF TypeInv, TypeOK, Flush, LifeInv
    <3>2. /\ store' = [store EXCEPT ![target[s]] = work[s]] /\ UNCHANGED <<work, target, pc>>
          /\ unsaved'[s] = FALSE
      BY <1>2, <2>7 DEF Flush
    <3>3. EveryCheckpoint(VerdictOK)'
      BY <1>2, <3>1, <3>2 DEF LifeInv, EveryCheckpoint
    <3>4. \A t \in Servers : unsaved'[t] => pc'[t] \in AtWork
      BY <2>1, <3>2 DEF LifeInv, OthersStay
    <3>5. ASSUME NEW t \in Servers, pc[t] \in AtWork
          PROVE  Follows(store'[target[t]], work[t])
      <4>1. CASE t = s
        BY <1>1, <1>2, <3>1, <3>2, <4>1, FollowsSelf
      <4>2. CASE t # s
        <5>1. target[t] # target[s]
          BY <3>1, <3>5, <4>2 DEF OneInvokePerId
        <5>2. store'[target[t]] = store[target[t]]
          BY <1>2, <3>2, <3>5, <5>1 DEF TypeInv, TypeOK, AtWork
        <5> QED
          BY <3>5, <5>2 DEF LifeInv
      <4> QED
        BY <4>1, <4>2
    <3> QED
      BY <3>2, <3>3, <3>4, <3>5 DEF LifeInv
  <2>8. CASE Leaves(s)
    <3>1. /\ work'[s] = NoThread /\ pc'[s] = "idle" /\ unsaved'[s] = FALSE /\ store' = store
      BY <1>2, <2>8 DEF Leaves, Return, Raise, Crash, Release
    <3> QED
      BY <2>1, <3>1, NoThreadCase, OwnStepLife DEF AtWork
  <2> QED
    BY <1>4, <2>2, <2>3, <2>4, <2>5, <2>6, <2>7, <2>8 DEF StepOf, Requested
<1> QED
  BY <1>3, <1>4, NextIs

-----------------------------------------------------------------------------
(* The refinement.                                                          *)

LifecycleCase == [a \in Apps |-> CaseOf(store[a])]

LEMMA InitRefines == Init => Lifecycle!Init
<1>1. CaseOf(NoThread) = Lifecycle!NewCase
  BY DEF CaseOf, StageOf, NoThread, Lifecycle!NewCase
<1> QED
  BY <1>1 DEF Init, Lifecycle!Init

\* Only the background writer moves a case; what it stores is a later state.
LEMMA FlushRefines ==
    ASSUME TypeInv, PathInv, LifeInv, NEW s \in Servers, Flush(s)
    PROVE  Lifecycle!Next
<1> DEFINE a == target[s]
<1>1. a \in Apps
  BY DEF TypeInv, TypeOK, Flush
<1>2. store' = [store EXCEPT ![a] = work[s]] /\ DOMAIN store = Apps
  BY DEF Flush, TypeInv, TypeOK
<1>3. CaseOK(work[s]) /\ Later(CaseOf(store[a]), CaseOf(work[s]))
  BY EveryCaseOK DEF AllOK, LifeInv, Flush, Follows
<1>4. /\ LifecycleCase[a] = CaseOf(store[a])
      /\ LifecycleCase'[a] = CaseOf(work[s])
      /\ LifecycleCase' = [LifecycleCase EXCEPT ![a] = LifecycleCase'[a]]
  BY <1>1, <1>2 DEF LifecycleCase
<1>5. Lifecycle!Coherent(LifecycleCase'[a])
  BY <1>3, <1>4, CaseCoherent
<1> HIDE DEF a
<1>6. Lifecycle!Proceed(a) \/ Lifecycle!Reopen(a)
  BY <1>3, <1>4, <1>5 DEF Lifecycle!Proceed, Lifecycle!Reopen, LifecycleCase, Later
<1> QED
  BY <1>1, <1>6 DEF Lifecycle!Next

LEMMA OnlyFlushStores ==
    [Next]_vars => UNCHANGED store \/ \E s \in Servers : Flush(s)
BY DEF Next, HandlerStep, vars, StartApplication, CheckResolve, Resume, IntakeNode,
       ExtractionNode, RiskNode, PolicyNode, EscalationPauses, EscalationResumes,
       ExplainabilityNode, OutputNode, Commit, NodeFails, Return, Raise, Crash

LEMMA StepRefines ==
    TypeInv /\ PathInv /\ LifeInv /\ [Next]_vars
      => [Lifecycle!Next]_LifecycleCase
<1> SUFFICES ASSUME TypeInv, PathInv, LifeInv, [Next]_vars
             PROVE  Lifecycle!Next \/ UNCHANGED LifecycleCase
  OBVIOUS
<1>1. ASSUME NEW s \in Servers, Flush(s) PROVE Lifecycle!Next
  BY <1>1, FlushRefines
<1>2. ASSUME UNCHANGED store PROVE UNCHANGED LifecycleCase
  BY <1>2 DEF LifecycleCase
<1>3. UNCHANGED store \/ \E s \in Servers : Flush(s)
  BY OnlyFlushStores
<1> QED
  BY <1>1, <1>2, <1>3

\* Where no two handlers run the graph for one id at a time, what is stored of
\* the cases is a run of CaseLifecycle, for any applications, processes,
\* reviewers, failures and crashes.
THEOREM ImplementsLifecycleCorrect == Spec /\ []OneInvokePerId => ImplementsLifecycle
<1>1. Init => Lifecycle!Init
  BY InitRefines
<1>2. TypeInv /\ PathInv /\ LifeInv /\ OneInvokePerId /\ [Next]_vars => LifeInv'
  BY StepLife
<1>3. TypeInv /\ PathInv /\ LifeInv /\ [Next]_vars => [Lifecycle!Next]_LifecycleCase
  BY StepRefines
<1> QED
  BY <1>1, <1>2, <1>3, InitTyped, StepTyped, PathInvariant, InitLife, PTL
     DEF Spec, ImplementsLifecycle, Lifecycle!Spec, LifecycleCase

\* The background writer only adds to a stored trail.
LEMMA FlushGrows ==
    ASSUME TypeInv, LifeInv, NEW s \in Servers, Flush(s), NEW a \in Apps
    PROVE  StartsWith(AuditTrail(store'[a]), AuditTrail(store[a]))
<1>1. store' = [store EXCEPT ![target[s]] = work[s]] /\ DOMAIN store = Apps
  BY DEF Flush, TypeInv, TypeOK
<1>2. CASE a = target[s]
  BY <1>1, <1>2 DEF LifeInv, Flush, Follows
<1>3. CASE a # target[s]
  BY <1>1, <1>3, CheckpointsAre, TrailOfCheckpoint, StartsWithSelf DEF TypeInv, TypeOK
<1> QED
  BY <1>2, <1>3

\* Where no two handlers run the graph for one id at a time, a stored audit trail
\* is only added to, however often its id is submitted.
THEOREM TrailOnlyGrowsCorrect == Spec /\ []OneInvokePerId => TrailOnlyGrows
<1>1. TypeInv /\ LifeInv /\ [Next]_vars =>
        [\A a \in Apps : StartsWith(AuditTrail(store'[a]), AuditTrail(store[a]))]_vars
  <2> SUFFICES ASSUME TypeInv, LifeInv, [Next]_vars, NEW a \in Apps
               PROVE  StartsWith(AuditTrail(store'[a]), AuditTrail(store[a]))
    OBVIOUS
  <2>1. CASE UNCHANGED store
    BY <2>1, CheckpointsAre, TrailOfCheckpoint, StartsWithSelf DEF TypeInv, TypeOK
  <2>2. CASE \E s \in Servers : Flush(s)
    BY <2>2, FlushGrows
  <2> QED
    BY <2>1, <2>2, OnlyFlushStores
<1>2. TypeInv /\ PathInv /\ LifeInv /\ OneInvokePerId /\ [Next]_vars => LifeInv'
  BY StepLife
<1> QED
  BY <1>1, <1>2, InitTyped, StepTyped, PathInvariant, InitLife, PTL DEF Spec, TrailOnlyGrows

-----------------------------------------------------------------------------
(* A handler whose id is completed has nothing left to do, unless the id    *)
(* was submitted again.                                                     *)

NodesLeft == \A s \in Servers : pc[s] \in {"running", "raising"} => work[s].next # "end"

DoneHandler(s) ==
    pc[s] \in AtWork /\ runs[target[s]] <= 1 /\ store[target[s]].status = "completed"
      => pc[s] = "returning" /\ ~unsaved[s]

FinalInv ==
    /\ EveryCheckpoint(DoneAtEnd)
    /\ Started
    /\ NodesLeft
    /\ \A s \in Servers : DoneHandler(s)

LEMMA InitFinal == Init => FinalInv
<1> SUFFICES ASSUME Init PROVE FinalInv
  OBVIOUS
<1>1. EveryCheckpoint(DoneAtEnd)
  BY DEF Init, EveryCheckpoint, DoneAtEnd, NoThread
<1>2. Started
  BY InitAuto DEF AutoInv
<1>3. NodesLeft /\ \A s \in Servers : DoneHandler(s)
  BY DEF Init, NodesLeft, DoneHandler, AtWork
<1> QED
  BY <1>1, <1>2, <1>3 DEF FinalInv

\* A step of s that stores nothing and at most adds to the submissions.
LEMMA OwnStepFinal ==
    ASSUME TypeInv, FinalInv, NEW s \in Servers, OthersStay(s), store' = store,
           \A a \in Apps : /\ runs[a] \in Nat /\ runs'[a] \in Nat
                           /\ runs[a] <= runs'[a],
           \A t \in Servers : t # s /\ target[t] \in Apps => runs'[target[t]] >= 1,
           target'[s] \in Apps => runs'[target'[s]] >= 1,
           DoneAtEnd(work'[s]),
           pc'[s] \in {"running", "raising"} => work'[s].next # "end",
           pc'[s] \in AtWork /\ runs'[target'[s]] <= 1 /\ store[target'[s]].status = "completed"
             => pc'[s] = "returning" /\ ~unsaved'[s]
    PROVE  FinalInv'
<1>1. EveryCheckpoint(DoneAtEnd)'
  <2>1. \A t \in Servers : DoneAtEnd(work'[t])
    BY DEF FinalInv, EveryCheckpoint, OthersStay
  <2> QED
    BY <2>1 DEF FinalInv, EveryCheckpoint
<1>2. Started'
  <2>1. \A t \in Servers : target'[t] \in Apps => runs'[target'[t]] >= 1
    BY DEF OthersStay
  <2>2. \A a \in Apps : store'[a].status # "none" => runs'[a] >= 1
    BY DEF FinalInv, Started
  <2> QED
    BY <2>1, <2>2 DEF Started
<1>3. NodesLeft'
  BY DEF FinalInv, NodesLeft, OthersStay
<1>4. ASSUME NEW t \in Servers PROVE DoneHandler(t)'
  <2>1. CASE t = s
    BY <2>1 DEF DoneHandler
  <2>2. CASE t # s
    <3>1. /\ pc'[t] = pc[t] /\ target'[t] = target[t] /\ unsaved'[t] = unsaved[t]
      BY <2>2 DEF OthersStay
    <3>2. pc[t] \in AtWork => target[t] \in Apps
      BY DEF AtWork, TypeInv, TypeOK
    <3>3. DoneHandler(t)
      BY DEF FinalInv
    <3> QED
      BY <3>1, <3>2, <3>3 DEF DoneHandler
  <2> QED
    BY <2>1, <2>2
<1> QED
  BY <1>1, <1>2, <1>3, <1>4 DEF FinalInv

LEMMA StepFinal ==
    TypeInv /\ PathInv /\ LifeInv /\ FinalInv /\ OneInvokePerId /\ [Next]_vars => FinalInv'
<1> SUFFICES ASSUME TypeInv, PathInv, LifeInv, FinalInv, OneInvokePerId, [Next]_vars
             PROVE  FinalInv'
  OBVIOUS
<1>1. /\ \A a \in Apps : DoneAtEnd(store[a]) /\ store[a] \in CheckpointsOver(Trails)
      /\ \A s \in Servers : DoneAtEnd(work[s]) /\ CaseOK(work[s])
  BY EveryCaseOK, CheckpointsAre DEF AllOK, TypeInv, TypeOK, FinalInv, EveryCheckpoint
<1>2. /\ DOMAIN work = Servers /\ DOMAIN store = Apps /\ DOMAIN pc = Servers
      /\ DOMAIN unsaved = Servers /\ DOMAIN target = Servers
      /\ DOMAIN runs = Apps /\ \A a \in Apps : runs[a] \in Nat
  BY BoundsAssumption DEF TypeInv, TypeOK
<1>3. CASE UNCHANGED vars
  <2>1. Started'
    BY <1>3, StartedKept DEF FinalInv, vars
  <2> QED
    BY <1>3, <2>1 DEF vars, FinalInv, EveryCheckpoint, NodesLeft, DoneHandler
<1>4. \A t \in Servers : target[t] \in Apps => runs[target[t]] >= 1
  BY DEF FinalInv, Started
<1>5. ASSUME NEW s \in Servers, StepOf(s) PROVE FinalInv'
  <2>1. OthersStay(s)
    BY <1>5, OthersStayPut
  <2>2. ASSUME NEW a \in Apps, NEW payload \in Payloads, StartApplication(s, a, payload)
        PROVE  FinalInv'
    <3> DEFINE d == Submitted(store[a], payload)
    <3>1. d.status = "in_progress" /\ d.next = "intake"
      BY <1>1 DEF Submitted, CheckpointsOver
    <3> HIDE DEF d
    <3>2. /\ work'[s] = d /\ store' = store /\ pc'[s] = "running" /\ target'[s] = a
          /\ runs' = [runs EXCEPT ![a] = runs[a] + 1]
      BY <1>2, <2>2 DEF StartApplication, d
    <3>3. /\ runs'[a] = runs[a] + 1 /\ \A b \in Apps : runs'[b] \in Nat /\ runs[b] <= runs'[b]
      BY <1>2, <3>2
    <3>4. store[a].status = "completed" => runs'[a] >= 2
      BY <1>2, <3>3 DEF FinalInv, Started
    <3>5. \A t \in Servers : target[t] \in Apps => runs'[target[t]] >= 1
      BY <1>2, <1>4, <3>3
    <3>6. runs'[a] >= 1 /\ DoneAtEnd(d)
      BY <1>2, <3>1, <3>3 DEF DoneAtEnd
    <3>7. ~(runs'[a] <= 1 /\ store[a].status = "completed")
      BY <1>2, <3>3, <3>4
    <3> QED
      BY <1>2, <2>1, <3>1, <3>2, <3>3, <3>5, <3>6, <3>7, OwnStepFinal
  <2>3. ASSUME UNCHANGED <<store, runs>>,
               target'[s] \in Apps => runs[target'[s]] >= 1,
               DoneAtEnd(work'[s]),
               pc'[s] \in {"running", "raising"} => work'[s].next # "end",
               pc'[s] \in AtWork /\ runs[target'[s]] <= 1
                 /\ store[target'[s]].status = "completed"
                 => pc'[s] = "returning" /\ ~unsaved'[s]
        PROVE  FinalInv'
    BY <1>2, <1>4, <2>1, <2>3, OwnStepFinal
  <2>4. ASSUME NEW a \in Apps, NEW resolution \in Resolutions, CheckResolve(s, a, resolution)
        PROVE  FinalInv'
    <3>1. /\ UNCHANGED <<store, runs, work>> /\ pc'[s] = "checked" /\ target'[s] = a
          /\ store[a].status # "none"
      BY <1>2, <2>4 DEF CheckResolve
    <3>2. runs[a] >= 1
      BY <3>1 DEF FinalInv, Started
    <3>3. DoneAtEnd(work'[s])
      BY <1>1, <3>1
    <3> QED
      BY <2>3, <3>1, <3>2, <3>3 DEF AtWork
  <2>5. CASE Resume(s)
    <3>1. target[s] \in Apps
      BY <2>5 DEF TypeInv, TypeOK, Resume
    <3>2. /\ UNCHANGED <<store, runs, target, unsaved>> /\ pc[s] = "checked"
          /\ work'[s] = store[target[s]]
          /\ pc'[s] = IF store[target[s]].next = "end" THEN "returning" ELSE "running"
      BY <1>2, <2>5 DEF Resume
    <3>3. ~unsaved[s]
      BY <3>2 DEF LifeInv, AtWork
    <3>4. DoneAtEnd(store[target[s]]) /\ runs[target[s]] >= 1
      BY <1>1, <1>4, <3>1
    <3> QED
      BY <2>3, <3>2, <3>3, <3>4 DEF DoneAtEnd
  <2>6. CASE NodeRuns(s)
    <3>1. WorkDone(s)
      BY <1>1, <2>6, NodesWork
    <3>2. /\ UNCHANGED <<store, runs, target>> /\ pc[s] = "running"
          /\ DoneAtEnd(work'[s])
          /\ pc'[s] \in {"running", "raising"} => work'[s].next # "end"
      BY <1>1, <3>1 DEF WorkDone, MovedOn
    <3>3. ~(runs[target[s]] <= 1 /\ store[target[s]].status = "completed")
      BY <3>2 DEF FinalInv, DoneHandler, AtWork
    <3> QED
      BY <1>4, <2>3, <3>2, <3>3
  <2>7. CASE NodeFails(s)
    <3>1. /\ UNCHANGED <<store, runs, target, work>> /\ pc[s] = "running"
          /\ work[s].next # "end"
      BY <2>7 DEF NodeFails, AtNode, LlmNodes
    <3>2. ~(runs[target[s]] <= 1 /\ store[target[s]].status = "completed")
      BY <3>1 DEF FinalInv, DoneHandler, AtWork
    <3> QED
      BY <1>1, <1>4, <2>3, <3>1, <3>2
  <2>8. CASE Flush(s)
    <3>1. target[s] \in Apps /\ pc[s] \in AtWork
      BY <2>8 DEF TypeInv, TypeOK, Flush, LifeInv
    <3>2. /\ store' = [store EXCEPT ![target[s]] = work[s]]
          /\ UNCHANGED <<runs, work, target, pc>> /\ unsaved'[s] = FALSE
      BY <1>2, <2>8 DEF Flush
    <3>3. EveryCheckpoint(DoneAtEnd)'
      BY <1>1, <1>2, <3>1, <3>2 DEF EveryCheckpoint
    <3>4. Started'
      BY <1>2, <3>1, <3>2 DEF FinalInv, Started
    <3>5. NodesLeft'
      BY <3>2 DEF FinalInv, NodesLeft
    <3>6. ASSUME NEW t \in Servers PROVE DoneHandler(t)'
      <4>1. CASE t = s
        <5>1. store'[target[s]] = work[s]
          BY <1>2, <3>1, <3>2
        <5>2. work[s].status = "completed" => pc[s] = "returning"
          BY <1>1, <3>1 DEF FinalInv, NodesLeft, DoneAtEnd, AtWork
        <5> QED
          BY <3>2, <4>1, <5>1, <5>2 DEF DoneHandler
      <4>2. CASE t # s /\ pc[t] \in AtWork
        <5>1. target[t] # target[s] /\ target[t] \in Apps
          BY <3>1, <4>2 DEF OneInvokePerId, TypeInv, TypeOK, AtWork
        <5>2. store'[target[t]] = store[target[t]] /\ unsaved'[t] = unsaved[t]
          BY <1>2, <2>1, <3>2, <4>2, <5>1 DEF OthersStay
        <5>3. DoneHandler(t)
          BY DEF FinalInv
        <5> QED
          BY <3>2, <5>2, <5>3 DEF DoneHandler
      <4>3. CASE pc[t] \notin AtWork
        BY <3>2, <4>3 DEF DoneHandler
      <4> QED
        BY <4>1, <4>2, <4>3
    <3> QED
      BY <3>3, <3>4, <3>5, <3>6 DEF FinalInv
  <2>9. CASE Leaves(s)
    <3>1. /\ work'[s] = NoThread /\ pc'[s] = "idle" /\ target'[s] = None
          /\ UNCHANGED <<store, runs>>
      BY <1>2, <2>9 DEF Leaves, Return, Raise, Crash, Release
    <3>2. DoneAtEnd(NoThread)
      BY DEF DoneAtEnd, NoThread
    <3> QED
      BY <2>3, <3>1, <3>2, NoneAssumption DEF AtWork
  <2> QED
    BY <1>5, <2>2, <2>4, <2>5, <2>6, <2>7, <2>8, <2>9 DEF StepOf, Requested
<1> QED
  BY <1>3, <1>5, NextIs

\* Where no two handlers run the graph for one id at a time, a completed
\* checkpoint does not change before its id is submitted again: late and repeated
\* resolutions find nothing to run.
THEOREM CompletedIsFinalCorrect == Spec /\ []OneInvokePerId => CompletedIsFinal
<1>1. TypeInv /\ LifeInv /\ FinalInv /\ [Next]_vars =>
        [\A a \in Apps :
            store[a].status = "completed" /\ runs[a] <= 1 => store'[a] = store[a]]_vars
  <2> SUFFICES ASSUME TypeInv, LifeInv, FinalInv, [Next]_vars, NEW a \in Apps,
                      store[a].status = "completed", runs[a] <= 1
               PROVE  store'[a] = store[a]
    OBVIOUS
  <2>1. CASE UNCHANGED store
    BY <2>1
  <2>2. ASSUME NEW s \in Servers, Flush(s) PROVE store'[a] = store[a]
    <3>1. pc[s] \in AtWork /\ unsaved[s]
      BY <2>2 DEF Flush, LifeInv
    <3>2. a # target[s]
      BY <3>1 DEF FinalInv, DoneHandler
    <3> QED
      BY <2>2, <3>2 DEF Flush, TypeInv, TypeOK
  <2> QED
    BY <2>1, <2>2, OnlyFlushStores
<1> QED
  BY <1>1, StepLife, StepFinal, InitTyped, StepTyped, PathInvariant, InitLife, InitFinal, PTL
     DEF Spec, CompletedIsFinal

-----------------------------------------------------------------------------
(* What clients are told.                                                   *)

\* A run of the graph that is over by itself.
Over(c) == c.next = "end" \/ c.interrupted

\* A case that a reviewer has answered in this submission.
Reviewed(c) == CaseOf(c).referred /\ Lifecycle!PastReview(CaseOf(c))

\* StillStands, read off the case: what the trail says follows by TrailMatches.
HeldBy(answer, c) ==
    \/ answer.began < CaseOf(c).began
    \/ /\ answer.began = CaseOf(c).began
       /\ c.status # "none"
       /\ \/ /\ answer.summary.status = "completed"
             /\ c.next = "end" /\ answer.summary = Summary(c)
          \/ answer.summary.status = "awaiting_escalation" /\ (c.interrupted \/ Reviewed(c))

\* A checkpoint in hand comes from a submission, an answer is given by a run that
\* is over and stored, and it holds by what is stored and by what is in the making.
AnswersInv ==
    /\ EveryCheckpoint(PauseOK)
    /\ NodesLeft
    /\ \A s \in Servers : pc[s] = "checked" => store[target[s]].status # "none"
    /\ \A s \in Servers : pc[s] \in AtWork => work[s].status # "none"
    /\ \A s \in Servers : pc[s] \in AtWork /\ ~unsaved[s] => store[target[s]] = work[s]
    /\ \A s \in Servers : pc[s] = "returning" => Over(work[s])
    /\ \A a \in Apps : reply[a] # None => HeldBy(reply[a], store[a])
    /\ \A s \in Servers :
          pc[s] \in AtWork /\ reply[target[s]] # None => HeldBy(reply[target[s]], work[s])

LEMMA CaseFields ==
    ASSUME NEW c
    PROVE  CaseOf(c).began = Len(c.earlier) /\ CaseOf(c).stage = StageOf(c)
BY DEF CaseOf

\* What HeldBy says of the case is what StillStands says of the trail.
LEMMA HeldStands ==
    ASSUME NEW c, CaseOK(c), NEW answer, HeldBy(answer, c)
    PROVE  StillStands(answer, c)
<1>1. c \in CheckpointsOver(Trails) /\ CaseOf(c).began = Len(c.earlier)
  BY CheckpointsAre, CaseFields DEF CaseOK, Typed
<1>2. ASSUME Reviewed(c) PROVE ReviewRecorded(c)
  <2>1. StageOf(c) \in {"answered", "decided", "completed"}
    BY <1>2, SettledStage DEF Reviewed
  <2>2. IsReviewCase(c)
    BY <1>2, <2>1 DEF Reviewed, CaseOf, StageOf
  <2>3. c.status # "none" /\ c.next \in {"explainability_agent", "decision_output", "end"}
    BY <2>1 DEF StageOf
  <2>4. c.trail = ExpectedTrail(c)
    BY <2>3 DEF CaseOK, PathOK, TrailMatches
  <2>5. Len(c.trail) >= 6 /\ c.trail[6] = "escalation_resolved"
    BY <2>2, <2>3, <2>4
       DEF ExpectedTrail, AfterRationale, AfterReview, AfterPolicy, AfterRisk,
           AfterExtraction, AfterIntake
  <2>6. Len(c.trail) \in Nat
    BY <1>1 DEF CheckpointsOver, Trails
  <2> QED
    BY <2>5, <2>6 DEF ReviewRecorded
<1> QED
  BY <1>1, <1>2 DEF HeldBy, StillStands

\* An answer is of a run that has come to the review at least.
LEMMA AnsweredStage ==
    ASSUME NEW c, CaseOK(c), PauseOK(c), NEW answer, HeldBy(answer, c)
    PROVE  \/ answer.began < CaseOf(c).began
           \/ /\ answer.began = CaseOf(c).began
              /\ CaseOf(c).stage \in {"in_review", "answered", "decided", "completed"}
<1>1. CASE answer.began < CaseOf(c).began
  BY <1>1
<1>2. CASE c.next = "end" /\ c.status # "none"
  BY <1>2, CaseFields DEF StageOf, HeldBy
<1>3. CASE c.interrupted /\ c.status # "none"
  BY <1>3, CaseFields DEF StageOf, HeldBy, PauseOK
<1>4. CASE Reviewed(c)
  BY <1>4, SettledStage, CaseFields DEF Reviewed, HeldBy
<1> QED
  BY <1>1, <1>2, <1>3, <1>4 DEF HeldBy

\* A later submission leaves it behind.
LEMMA SubmittedHolds ==
    ASSUME NEW c, CaseOK(c), PauseOK(c), NEW payload \in Payloads,
           NEW answer \in Answers, HeldBy(answer, c)
    PROVE  HeldBy(answer, Submitted(c, payload))
<1> DEFINE d == Submitted(c, payload)
<1>1. c \in CheckpointsOver(Trails)
  BY CheckpointsAre DEF CaseOK, Typed
<1>2. /\ d.next = "intake" /\ d.status = "in_progress" /\ d.earlier = c.earlier \o c.trail
  BY <1>1 DEF Submitted, CheckpointsOver
<1>3. Later(CaseOf(c), CaseOf(d))
  BY SubmittedCase
<1> HIDE DEF d
<1>4. CaseOf(d).stage = "processing"
  BY <1>2, CaseFields, ProcessingStages
<1>5. /\ answer.began \in Nat /\ CaseOf(c).began \in Nat
      /\ CaseOf(d).began \in Nat /\ CaseOf(c).began <= CaseOf(d).began
  <2>1. c.earlier \in Seq(AuditActions) /\ c.trail \in Seq(AuditActions)
    BY <1>1 DEF CheckpointsOver, Trails
  <2>2. Len(d.earlier) = Len(c.earlier) + Len(c.trail)
    BY <1>2, <2>1, ConcatProperties
  <2>3. Len(c.earlier) \in Nat /\ Len(c.trail) \in Nat
    BY <2>1
  <2>4. Len(d.earlier) \in Nat /\ Len(c.earlier) <= Len(d.earlier)
    <3>1. \A m, n \in Nat : m + n \in Nat /\ m <= m + n
      OBVIOUS
    <3> QED
      BY <2>2, <2>3, <3>1, Zenon
  <2>5. CaseOf(c).began = Len(c.earlier) /\ CaseOf(d).began = Len(d.earlier)
    BY CaseFields
  <2>6. answer.began \in Nat
    BY DEF Answers
  <2> QED
    BY <2>3, <2>4, <2>5, <2>6
<1>6. CASE answer.began < CaseOf(c).began
  BY <1>5, <1>6 DEF HeldBy, d
<1>7. CASE /\ answer.began = CaseOf(c).began
           /\ CaseOf(c).stage \in {"in_review", "answered", "decided", "completed"}
  <2>1. ~Lifecycle!Onward(CaseOf(c), CaseOf(d))
    BY <1>4, <1>7 DEF Lifecycle!Onward, Lifecycle!Rank
  <2>2. CaseOf(c).began < CaseOf(d).began
    BY <1>3, <1>5, <2>1 DEF Later, Lifecycle!Reopened
  <2> QED
    BY <1>5, <1>7, <2>2 DEF HeldBy, d
<1> QED
  BY <1>6, <1>7, AnsweredStage

\* A node at work leaves it true.
LEMMA NodesHold ==
    ASSUME TypeInv, NEW s \in Servers, CaseOK(work[s]), PauseOK(work[s]), NodeRuns(s),
           NEW answer, HeldBy(answer, work[s])
    PROVE  HeldBy(answer, work'[s])
<1> DEFINE c == work[s]
           d == work'[s]
<1>1. WorkDone(s)
  BY NodesWork
<1>2. Lifecycle!Onward(CaseOf(c), CaseOf(d)) /\ c.next # "end"
  BY <1>1 DEF WorkDone, MovedOn
<1>3. CaseOf(d).began = CaseOf(c).began
  BY <1>2 DEF Lifecycle!Onward
<1>4. CASE answer.began < CaseOf(c).began
  BY <1>3, <1>4 DEF HeldBy
<1>5. CASE answer.began = CaseOf(c).began /\ answer.summary.status = "awaiting_escalation"
           /\ Reviewed(c)
  <2>1. CaseOf(d).stage \in {"answered", "decided", "completed"} /\ CaseOf(d).referred
    <3>1. CaseOf(c).stage \in {"answered", "decided", "completed"} /\ CaseOf(c).referred
      BY <1>5, SettledStage, CaseFields DEF Reviewed
    <3>2. CaseOf(d).stage \in Lifecycle!Stages
      BY StageRange
    <3> QED
      BY <1>2, <3>1, <3>2 DEF Lifecycle!Onward, Lifecycle!Rank, Lifecycle!Stages
  <2>2. Reviewed(d) /\ d.status # "none"
    BY <2>1, SettledStage, CaseFields DEF Reviewed, StageOf
  <2> QED
    BY <1>3, <1>5, <2>2 DEF HeldBy
<1>6. CASE answer.began = CaseOf(c).began /\ answer.summary.status = "awaiting_escalation"
           /\ c.interrupted /\ c.status # "none"
  <2>1. c.next = "human_escalation"
    BY <1>6 DEF PauseOK
  <2>2. EscalationPauses(s) \/ EscalationResumes(s)
    BY <2>1 DEF NodeRuns, IntakeNode, ExtractionNode, RiskNode, PolicyNode,
                ExplainabilityNode, OutputNode, AtNode
  <2>3. CASE EscalationPauses(s)
    <3>1. d.interrupted /\ d = Paused(c)
      BY <1>1, <2>3 DEF WorkDone, EscalationPauses, TypeInv, TypeOK
    <3>2. d.status = c.status
      BY <3>1, CheckpointsAre DEF CaseOK, Typed, CheckpointsOver, Paused
    <3> QED
      BY <1>3, <1>6, <3>1, <3>2 DEF HeldBy
  <2>4. CASE EscalationResumes(s)
    <3>1. d = Resolved(c, resume[s])
      BY <2>4 DEF EscalationResumes, Commit, TypeInv, TypeOK
    <3>2. /\ d.next = "explainability_agent" /\ d.status = "escalation_resolved"
          /\ d.risk = c.risk /\ d.flags = c.flags
      BY <3>1, CheckpointsAre DEF CaseOK, Typed, CheckpointsOver, Resolved, Advance
    <3>3. IsReviewCase(d)
      BY <2>1, <3>2 DEF CaseOK, PathOK, RoutedToReview, IsReviewCase
    <3>4. StageOf(d) = "answered"
      BY <3>2, <3>3 DEF StageOf
    <3> HIDE DEF d
    <3>5. Reviewed(d)
      BY <3>4, SettledStage DEF Reviewed, CaseOf
    <3> QED
      BY <1>3, <1>6, <3>2, <3>5 DEF HeldBy, d
  <2> QED
    BY <2>2, <2>3, <2>4
<1> QED
  BY <1>2, <1>4, <1>5, <1>6 DEF HeldBy

\* What get_application answers of a run that is over holds of it.
LEMMA AnswerHolds ==
    ASSUME NEW c, Over(c), PauseOK(c), c.status # "none"
    PROVE  HeldBy(Answer(c), c)
<1>1. /\ Answer(c).began = CaseOf(c).began /\ Answer(c).summary = Summary(c)
      /\ Summary(c).status = StatusOf(c)
  BY CaseFields DEF Answer, Summary
<1>2. CASE c.next = "end"
  BY <1>1, <1>2 DEF HeldBy, StatusOf, PauseOK
<1>3. CASE c.interrupted
  BY <1>1, <1>3 DEF HeldBy, StatusOf, PauseOK
<1> QED
  BY <1>2, <1>3 DEF Over

LEMMA InitAnswers == Init => AnswersInv
<1>1. PauseOK(NoThread)
  BY DEF PauseOK, NoThread
<1> QED
  BY <1>1 DEF Init, AnswersInv, EveryCheckpoint, NodesLeft, AtWork

\* A step of s that stores nothing and answers nobody.
LEMMA OwnStepAnswers ==
    ASSUME AnswersInv, NEW s \in Servers, OthersStay(s), store' = store, reply' = reply,
           PauseOK(work'[s]),
           pc'[s] \in {"running", "raising"} => work'[s].next # "end",
           pc'[s] = "checked" => store[target'[s]].status # "none",
           pc'[s] \in AtWork => work'[s].status # "none",
           pc'[s] \in AtWork /\ ~unsaved'[s] => store[target'[s]] = work'[s],
           pc'[s] = "returning" => Over(work'[s]),
           pc'[s] \in AtWork /\ reply[target'[s]] # None => HeldBy(reply[target'[s]], work'[s])
    PROVE  AnswersInv'
<1>1. EveryCheckpoint(PauseOK)'
  <2>1. \A t \in Servers : PauseOK(work'[t])
    BY DEF AnswersInv, EveryCheckpoint, OthersStay
  <2> QED
    BY <2>1 DEF AnswersInv, EveryCheckpoint
<1>2. NodesLeft'
  BY DEF AnswersInv, NodesLeft, OthersStay
<1>3. /\ \A t \in Servers : pc'[t] = "checked" => store'[target'[t]].status # "none"
      /\ \A t \in Servers : pc'[t] \in AtWork => work'[t].status # "none"
  BY DEF AnswersInv, OthersStay
<1>4. /\ \A t \in Servers : pc'[t] \in AtWork /\ ~unsaved'[t] => store'[target'[t]] = work'[t]
      /\ \A t \in Servers : pc'[t] = "returning" => Over(work'[t])
  BY DEF AnswersInv, OthersStay
<1>5. \A t \in Servers :
         pc'[t] \in AtWork /\ reply'[target'[t]] # None
           => HeldBy(reply'[target'[t]], work'[t])
  BY DEF AnswersInv, OthersStay
<1>6. \A a \in Apps : reply'[a] # None => HeldBy(reply'[a], store'[a])
  BY DEF AnswersInv
<1> QED
  BY <1>1, <1>2, <1>3, <1>4, <1>5, <1>6 DEF AnswersInv

LEMMA StepAnswers ==
    TypeInv /\ PathInv /\ LifeInv /\ AnswersInv /\ OneInvokePerId /\ [Next]_vars
      => AnswersInv'
<1> SUFFICES ASSUME TypeInv, PathInv, LifeInv, AnswersInv, OneInvokePerId, [Next]_vars
             PROVE  AnswersInv'
  OBVIOUS
<1>1. /\ \A s \in Servers : CaseOK(work[s]) /\ PauseOK(work[s])
      /\ \A a \in Apps : CaseOK(store[a]) /\ PauseOK(store[a])
  BY EveryCaseOK DEF AllOK, AnswersInv, EveryCheckpoint
<1>2. /\ DOMAIN work = Servers /\ DOMAIN store = Apps /\ DOMAIN pc = Servers
      /\ DOMAIN unsaved = Servers /\ DOMAIN target = Servers /\ DOMAIN reply = Apps
      /\ \A a \in Apps : reply[a] # None => reply[a] \in Answers
      /\ \A s \in Servers : pc[s] # "idle" \/ unsaved[s] => target[s] \in Apps
  BY DEF TypeInv, TypeOK
<1>3. CASE UNCHANGED vars
  BY <1>3 DEF vars, AnswersInv, EveryCheckpoint, NodesLeft
<1>4. ASSUME NEW s \in Servers, StepOf(s) PROVE AnswersInv'
  <2>1. OthersStay(s)
    BY <1>4, OthersStayPut
  <2>2. ASSUME NEW a \in Apps, NEW payload \in Payloads, StartApplication(s, a, payload)
        PROVE  AnswersInv'
    <3>1. /\ store' = store /\ reply' = reply /\ pc'[s] = "running" /\ target'[s] = a
          /\ work'[s] = Submitted(store[a], payload) /\ unsaved'[s] = TRUE
      BY <1>2, <2>2 DEF StartApplication
    <3>2. PauseOK(work'[s]) /\ work'[s].status # "none" /\ work'[s].next # "end"
      <4>1. store[a] \in CheckpointsOver(Trails)
        BY <1>1, CheckpointsAre DEF CaseOK, Typed
      <4> QED
        BY <3>1, <4>1 DEF Submitted, CheckpointsOver, PauseOK
    <3>3. reply[a] # None => HeldBy(reply[a], work'[s])
      BY <1>1, <1>2, <3>1, SubmittedHolds DEF AnswersInv
    <3> QED
      BY <2>1, <3>1, <3>2, <3>3, OwnStepAnswers
  <2>3. ASSUME NEW a \in Apps, NEW resolution \in Resolutions, CheckResolve(s, a, resolution)
        PROVE  AnswersInv'
    <3>1. /\ store' = store /\ reply' = reply /\ work' = work
          /\ pc'[s] = "checked" /\ target'[s] = a /\ store[a].status # "none"
      BY <1>2, <2>3 DEF CheckResolve
    <3> QED
      BY <1>1, <2>1, <3>1, OwnStepAnswers DEF AtWork
  <2>4. CASE Resume(s)
    <3>1. /\ store' = store /\ reply' = reply /\ target' = target /\ pc[s] = "checked"
          /\ work'[s] = store[target[s]] /\ target[s] \in Apps
          /\ pc'[s] = IF store[target[s]].next = "end" THEN "returning" ELSE "running"
      BY <1>2, <2>4 DEF Resume
    <3>2. PauseOK(work'[s]) /\ work'[s].status # "none"
      BY <1>1, <3>1 DEF AnswersInv
    <3>3. reply[target[s]] # None => HeldBy(reply[target[s]], work'[s])
      BY <3>1 DEF AnswersInv
    <3> QED
      BY <2>1, <3>1, <3>2, <3>3, OwnStepAnswers DEF Over, AtWork
  <2>5. CASE NodeRuns(s)
    <3>1. WorkDone(s)
      BY <1>1, <2>5, NodesWork
    <3>2. /\ store' = store /\ reply' = reply /\ target' = target /\ pc[s] \in AtWork
          /\ unsaved'[s]
          /\ pc'[s] = "returning" => work'[s].next = "end" \/ work'[s].interrupted
          /\ pc'[s] \in {"running", "returning"}
          /\ pc'[s] = "running" => work'[s].next # "end"
      BY <3>1 DEF WorkDone, AtWork
    <3>3. PauseOK(work'[s])
      BY <1>1, <3>1 DEF WorkDone, MovedOn
    <3>4. work'[s].status # "none"
      <4>1. CaseOf(work[s]).stage # "none" /\ CaseOf(work[s]).stage \in Lifecycle!Stages
        BY <3>2, StageRange, CaseFields DEF AnswersInv, StageOf
      <4>2. Lifecycle!Onward(CaseOf(work[s]), CaseOf(work'[s]))
        BY <3>1 DEF WorkDone, MovedOn
      <4>3. CaseOf(work'[s]).stage # "none"
        BY <4>1, <4>2 DEF Lifecycle!Onward, Lifecycle!Rank, Lifecycle!Stages
      <4> QED
        BY <4>3, CaseFields DEF StageOf
    <3>5. reply[target[s]] # None => HeldBy(reply[target[s]], work'[s])
      BY <1>1, <2>5, <3>2, NodesHold DEF AnswersInv
    <3> QED
      BY <2>1, <3>2, <3>3, <3>4, <3>5, OwnStepAnswers DEF Over
  <2>6. CASE NodeFails(s)
    <3>1. /\ UNCHANGED <<store, reply, target, work, unsaved>> /\ pc[s] = "running"
          /\ pc'[s] = "raising" /\ work[s].next # "end"
      BY <1>2, <2>6 DEF NodeFails, AtNode, LlmNodes
    <3>2. /\ work[s].status # "none"
          /\ ~unsaved[s] => store[target[s]] = work[s]
          /\ reply[target[s]] # None => HeldBy(reply[target[s]], work[s])
      BY <3>1 DEF AnswersInv, AtWork
    <3> QED
      BY <1>1, <2>1, <3>1, <3>2, OwnStepAnswers DEF AtWork
  <2>7. CASE Flush(s)
    <3>1. target[s] \in Apps /\ pc[s] \in AtWork
      BY <2>7 DEF TypeInv, TypeOK, Flush, LifeInv
    <3>2. /\ store' = [store EXCEPT ![target[s]] = work[s]]
          /\ UNCHANGED <<reply, work, target, pc>> /\ unsaved'[s] = FALSE
      BY <1>2, <2>7 DEF Flush
    <3>3. EveryCheckpoint(PauseOK)' /\ NodesLeft'
      BY <1>2, <3>1, <3>2 DEF AnswersInv, EveryCheckpoint, NodesLeft
    <3>4. work[s].status # "none"
      BY <3>1 DEF AnswersInv
    <3>5. \A t \in Servers : pc[t] = "checked" => store'[target[t]].status # "none"
      BY <1>2, <3>1, <3>2, <3>4 DEF AnswersInv
    <3>6. ASSUME NEW t \in Servers, pc[t] \in AtWork, ~unsaved'[t]
          PROVE  store'[target[t]] = work[t]
      <4>1. CASE t = s
        BY <1>2, <3>1, <3>2, <4>1
      <4>2. CASE t # s
        <5>1. target[t] # target[s] /\ target[t] \in Apps
          BY <1>2, <3>1, <3>6, <4>2 DEF OneInvokePerId, AtWork
        <5> QED
          BY <1>2, <2>1, <3>2, <3>6, <4>2, <5>1 DEF AnswersInv, OthersStay
      <4> QED
        BY <4>1, <4>2
    <3>7. \A a \in Apps : reply[a] # None => HeldBy(reply[a], store'[a])
      BY <1>2, <3>1, <3>2 DEF AnswersInv
    <3> QED
      BY <3>2, <3>3, <3>5, <3>6, <3>7 DEF AnswersInv, Over
  <2>8. CASE Raise(s) \/ Crash(s)
    <3>1. /\ store' = store /\ reply' = reply /\ work'[s] = NoThread /\ pc'[s] = "idle"
      BY <1>2, <2>8 DEF Raise, Crash, Release
    <3>2. PauseOK(NoThread)
      BY DEF PauseOK, NoThread
    <3> QED
      BY <2>1, <3>1, <3>2, OwnStepAnswers DEF AtWork
  <2>9. CASE Return(s)
    <3>1. /\ store' = store /\ pc[s] = "returning" /\ ~unsaved[s] /\ target[s] \in Apps
          /\ reply' = [reply EXCEPT ![target[s]] = Answer(store[target[s]])]
          /\ work'[s] = NoThread /\ pc'[s] = "idle"
      BY <1>2, <2>9 DEF Return, Release
    <3>2. store[target[s]] = work[s] /\ Over(work[s]) /\ work[s].status # "none"
      BY <3>1 DEF AnswersInv, AtWork
    <3>3. \A a \in Apps : reply'[a] # None => HeldBy(reply'[a], store'[a])
      <4>1. HeldBy(reply'[target[s]], store[target[s]])
        BY <1>1, <1>2, <3>1, <3>2, AnswerHolds
      <4> QED
        BY <1>2, <3>1, <4>1 DEF AnswersInv
    <3>4. ASSUME NEW t \in Servers, pc'[t] \in AtWork
          PROVE  reply'[target'[t]] = reply[target[t]] /\ t # s
      <4>1. t # s
        BY <3>1, <3>4 DEF AtWork
      <4>2. target[t] # target[s] /\ target'[t] = target[t] /\ target[t] \in Apps
        BY <1>2, <2>1, <3>1, <3>4, <4>1 DEF OneInvokePerId, OthersStay, AtWork
      <4> QED
        BY <1>2, <3>1, <4>1, <4>2
    <3>5. \A t \in Servers :
             pc'[t] \in AtWork /\ reply'[target'[t]] # None
               => HeldBy(reply'[target'[t]], work'[t])
      BY <2>1, <3>4 DEF AnswersInv, OthersStay
    <3>6. EveryCheckpoint(PauseOK)'
      <4>1. PauseOK(NoThread)
        BY DEF PauseOK, NoThread
      <4>2. \A t \in Servers : PauseOK(work'[t])
        BY <1>1, <2>1, <3>1, <4>1 DEF OthersStay
      <4> QED
        BY <1>1, <3>1, <4>2 DEF EveryCheckpoint
    <3>7. NodesLeft'
      BY <2>1, <3>1 DEF AnswersInv, NodesLeft, OthersStay
    <3>8. /\ \A t \in Servers : pc'[t] = "checked" => store'[target'[t]].status # "none"
          /\ \A t \in Servers : pc'[t] \in AtWork => work'[t].status # "none"
      BY <2>1, <3>1 DEF AnswersInv, OthersStay, AtWork
    <3>9. /\ \A t \in Servers : pc'[t] \in AtWork /\ ~unsaved'[t]
                => store'[target'[t]] = work'[t]
          /\ \A t \in Servers : pc'[t] = "returning" => Over(work'[t])
      BY <2>1, <3>1 DEF AnswersInv, OthersStay, AtWork
    <3> QED
      BY <3>3, <3>5, <3>6, <3>7, <3>8, <3>9 DEF AnswersInv
  <2> QED
    BY <1>4, <2>2, <2>3, <2>4, <2>5, <2>6, <2>7, <2>8, <2>9 DEF StepOf, Requested, Leaves
<1> QED
  BY <1>3, <1>4, NextIs

\* Where no two handlers run the graph for one id at a time, what a client was told
\* of a decision or a pause is never lost to a crash, a failed node or another
\* request, up to a later submission (application_service.py, get_application
\* after invoke).
THEOREM AnswersAreDurableCorrect == Spec /\ []OneInvokePerId => []AnswersAreDurable
<1>1. TypeInv /\ PathInv /\ LifeInv /\ AnswersInv => AnswersAreDurable
  BY EveryCaseOK, HeldStands DEF AllOK, AnswersInv, AnswersAreDurable
<1> QED
  BY <1>1, StepAnswers, StepLife, InitAnswers, InitTyped, StepTyped, PathInvariant,
     InitLife, PTL DEF Spec

-----------------------------------------------------------------------------
(* Where an id rests.                                                       *)

\* No node raises and no process dies.
Calm == \A s \in Servers : ~NodeFails(s) /\ ~Crash(s)

Excused(unread, c) == unread /\ Unreadable(c)

\* No process dies and no node raises, but at most that of a document that cannot
\* be read, where `unread' allows it.
CalmBut(unread) ==
    \A s \in Servers :
        /\ ~Crash(s)
        /\ NodeFails(s) =>
              AtNode(s, "document_extraction_agent") /\ Excused(unread, work[s])

Left(unread, c) == Over(c) \/ Excused(unread, c)

RestInv(unread) ==
    /\ EveryCheckpoint(PauseOK)
    /\ \A a \in Apps :
          (\A s \in Servers : target[s] # a) =>
              Left(unread, store[a]) /\ (runs[a] > 0 => store[a].status # "none")
    /\ \A s \in Servers :
          pc[s] = "checked" =>
              /\ store[target[s]].next # "end"
              /\ store[target[s]].interrupted \/ Excused(unread, store[target[s]])
    /\ \A s \in Servers :
          /\ pc[s] \in AtWork => work[s].status # "none"
          /\ pc[s] \in AtWork /\ ~unsaved[s] => store[target[s]] = work[s]
    /\ \A s \in Servers : pc[s] = "returning" => Over(work[s])
    /\ \A s \in Servers : pc[s] = "raising" => Excused(unread, work[s])
    /\ \A s \in Servers : pc[s] = "idle" => target[s] = None

LEMMA NoThreadRests == PauseOK(NoThread) /\ Over(NoThread)
BY DEF PauseOK, Over, NoThread

LEMMA InitRests ==
    ASSUME NEW unread \in BOOLEAN
    PROVE  Init => RestInv(unread)
BY NoThreadRests DEF Init, RestInv, EveryCheckpoint, Left, AtWork

\* A step of s that stores nothing.
LEMMA OwnStepRests ==
    ASSUME NEW unread \in BOOLEAN, RestInv(unread), NEW s \in Servers, OthersStay(s),
           store' = store,
           \A a \in Apps : a # target'[s] => runs'[a] = runs[a],
           \/ target[s] = target'[s] \/ target[s] = None
           \/ Left(unread, store[target[s]]) /\ store[target[s]].status # "none",
           PauseOK(work'[s]),
           pc'[s] = "checked" =>
              /\ store[target'[s]].next # "end"
              /\ store[target'[s]].interrupted \/ Excused(unread, store[target'[s]]),
           pc'[s] \in AtWork => work'[s].status # "none",
           pc'[s] \in AtWork /\ ~unsaved'[s] => store[target'[s]] = work'[s],
           pc'[s] = "returning" => Over(work'[s]),
           pc'[s] = "raising" => Excused(unread, work'[s]),
           pc'[s] = "idle" => target'[s] = None
    PROVE  RestInv(unread)'
<1>1. EveryCheckpoint(PauseOK)'
  <2>1. \A t \in Servers : PauseOK(work'[t])
    BY DEF RestInv, EveryCheckpoint, OthersStay
  <2> QED
    BY <2>1 DEF RestInv, EveryCheckpoint
<1>2. ASSUME NEW a \in Apps, \A t \in Servers : target'[t] # a
      PROVE  Left(unread, store[a])' /\ (runs'[a] > 0 => store'[a].status # "none")
  <2>1. CASE a = target[s]
    BY <1>2, <2>1, NoneAssumption DEF Left, Over, Excused, Unreadable
  <2>2. CASE a # target[s]
    <3>1. \A t \in Servers : target[t] # a
      BY <1>2, <2>2 DEF OthersStay
    <3>2. runs'[a] = runs[a]
      BY <1>2
    <3> QED
      BY <3>1, <3>2 DEF RestInv, Left, Over, Excused, Unreadable
  <2> QED
    BY <2>1, <2>2
<1>3. \A t \in Servers :
         pc'[t] = "checked" =>
            /\ store'[target'[t]].next # "end"
            /\ store'[target'[t]].interrupted \/ Excused(unread, store[target[t]])'
  BY DEF RestInv, OthersStay, Excused, Unreadable
<1>4. \A t \in Servers :
         /\ pc'[t] \in AtWork => work'[t].status # "none"
         /\ pc'[t] \in AtWork /\ ~unsaved'[t] => store'[target'[t]] = work'[t]
  BY DEF RestInv, OthersStay
<1>5. \A t \in Servers : pc'[t] = "returning" => Over(work[t])'
  BY DEF RestInv, OthersStay, Over
<1>6. \A t \in Servers : pc'[t] = "raising" => Excused(unread, work[t])'
  BY DEF RestInv, OthersStay, Excused, Unreadable
<1>7. \A t \in Servers : pc'[t] = "idle" => target'[t] = None
  BY DEF RestInv, OthersStay
<1> QED
  BY <1>1, <1>2, <1>3, <1>4, <1>5, <1>6, <1>7 DEF RestInv

LEMMA StepRests ==
    ASSUME NEW unread \in BOOLEAN
    PROVE  /\ TypeInv /\ PathInv /\ LifeInv /\ RestInv(unread)
           /\ OneHandlerPerId /\ OneHandlerPerId'
           /\ [Next]_vars /\ [CalmBut(unread)]_vars
           => RestInv(unread)'
<1> SUFFICES ASSUME TypeInv, PathInv, LifeInv, RestInv(unread),
                    OneHandlerPerId, OneHandlerPerId', [Next]_vars, [CalmBut(unread)]_vars
             PROVE  RestInv(unread)'
  OBVIOUS
<1>1. /\ \A s \in Servers : CaseOK(work[s]) /\ PauseOK(work[s])
      /\ \A a \in Apps : CaseOK(store[a]) /\ PauseOK(store[a])
  BY EveryCaseOK DEF AllOK, RestInv, EveryCheckpoint
<1>2. /\ DOMAIN work = Servers /\ DOMAIN store = Apps /\ DOMAIN pc = Servers
      /\ DOMAIN unsaved = Servers /\ DOMAIN target = Servers /\ DOMAIN runs = Apps
      /\ \A s \in Servers : pc[s] # "idle" \/ unsaved[s] => target[s] \in Apps
  BY DEF TypeInv, TypeOK
<1>3. CASE UNCHANGED vars
  BY <1>3 DEF vars, RestInv, EveryCheckpoint, Left, Over, Excused, Unreadable
<1>4. ASSUME NEW s \in Servers, StepOf(s), CalmBut(unread) PROVE RestInv(unread)'
  <2>1. OthersStay(s)
    BY <1>4, OthersStayPut
  <2>2. ASSUME NEW a \in Apps, NEW payload \in Payloads, StartApplication(s, a, payload)
        PROVE  RestInv(unread)'
    <3>1. /\ store' = store /\ pc[s] = "idle" /\ pc'[s] = "running" /\ target'[s] = a
          /\ work'[s] = Submitted(store[a], payload) /\ unsaved'[s] = TRUE
          /\ \A b \in Apps : b # a => runs'[b] = runs[b]
      BY <1>2, <2>2 DEF StartApplication
    <3>2. target[s] = None
      BY <3>1 DEF RestInv
    <3>3. PauseOK(work'[s]) /\ work'[s].status # "none"
      <4>1. store[a] \in CheckpointsOver(Trails)
        BY <1>1, CheckpointsAre DEF CaseOK, Typed
      <4> QED
        BY <3>1, <4>1 DEF Submitted, CheckpointsOver, PauseOK
    <3> QED
      BY <2>1, <3>1, <3>2, <3>3, OwnStepRests
  <2>3. ASSUME NEW a \in Apps, NEW resolution \in Resolutions, CheckResolve(s, a, resolution)
        PROVE  RestInv(unread)'
    <3>1. /\ store' = store /\ runs' = runs /\ pc[s] = "idle" /\ pc'[s] = "checked"
          /\ target'[s] = a /\ work' = work /\ store[a].next # "end"
      BY <1>2, <2>3 DEF CheckResolve
    <3>2. target[s] = None
      BY <3>1 DEF RestInv
    <3>3. \A t \in Servers : target[t] # a
      BY <2>1, <3>1, <3>2, NoneAssumption DEF OneHandlerPerId, OthersStay
    <3>4. store[a].interrupted \/ Excused(unread, store[a])
      BY <3>1, <3>3 DEF RestInv, Left, Over
    <3> QED
      BY <1>1, <2>1, <3>1, <3>2, <3>4, OwnStepRests DEF AtWork
  <2>4. CASE Resume(s)
    <3>1. /\ store' = store /\ runs' = runs /\ target' = target /\ pc[s] = "checked"
          /\ work'[s] = store[target[s]] /\ target[s] \in Apps
          /\ pc'[s] = IF store[target[s]].next = "end" THEN "returning" ELSE "running"
      BY <1>2, <2>4 DEF Resume
    <3>2. store[target[s]].next # "end"
      BY <3>1 DEF RestInv
    <3>3. PauseOK(work'[s]) /\ work'[s].status # "none"
      BY <1>1, <3>1, <3>2 DEF CaseOK, PathOK, NothingBeforeIntake
    <3> QED
      BY <2>1, <3>1, <3>2, <3>3, OwnStepRests
  <2>5. CASE NodeRuns(s)
    <3>1. WorkDone(s)
      BY <1>1, <2>5, NodesWork
    <3>2. /\ store' = store /\ runs' = runs /\ target' = target /\ unsaved'[s]
          /\ pc'[s] \in {"running", "returning"}
          /\ pc'[s] = "returning" => Over(work'[s])
      BY <3>1 DEF WorkDone, Over
    <3>3. PauseOK(work'[s])
      BY <1>1, <3>1 DEF WorkDone, MovedOn
    <3>4. work'[s].status # "none"
      <4>1. work[s].status # "none"
        BY <1>1, <3>1 DEF WorkDone, CaseOK, PathOK, NothingBeforeIntake
      <4>2. Lifecycle!Onward(CaseOf(work[s]), CaseOf(work'[s]))
        BY <3>1 DEF WorkDone, MovedOn
      <4>3. StageOf(work[s]) \in Lifecycle!Stages \ {"none"}
        BY <4>1, StageRange DEF StageOf
      <4>4. StageOf(work'[s]) # "none"
        BY <4>2, <4>3, StageRange DEF Lifecycle!Onward, Lifecycle!Rank, Lifecycle!Stages
      <4> QED
        BY <4>4 DEF StageOf
    <3> QED
      BY <2>1, <3>2, <3>3, <3>4, OwnStepRests
  <2>6. CASE NodeFails(s)
    <3>1. Excused(unread, work[s])
      BY <1>4, <2>6 DEF CalmBut
    <3>2. /\ store' = store /\ runs' = runs /\ target' = target /\ work' = work
          /\ unsaved' = unsaved /\ pc[s] = "running" /\ pc'[s] = "raising"
      BY <1>2, <2>6 DEF NodeFails, AtNode
    <3>3. /\ work[s].status # "none"
          /\ ~unsaved[s] => store[target[s]] = work[s]
      BY <3>2 DEF RestInv, AtWork
    <3> QED
      BY <1>1, <2>1, <3>1, <3>2, <3>3, OwnStepRests
  <2>7. CASE Flush(s)
    <3>1. target[s] \in Apps /\ pc[s] \in AtWork
      BY <1>2, <2>7 DEF Flush, LifeInv
    <3>2. /\ store' = [store EXCEPT ![target[s]] = work[s]]
          /\ UNCHANGED <<work, target, pc, runs>> /\ unsaved'[s] = FALSE
      BY <1>2, <2>7 DEF Flush
    <3>3. \A t \in Servers : t # s => target[t] # target[s]
      BY <3>1, NoneAssumption DEF OneHandlerPerId
    <3>4. /\ store'[target[s]] = work[s]
          /\ \A a \in Apps : a # target[s] => store'[a] = store[a]
      BY <1>2, <3>1, <3>2
    <3>5. ASSUME NEW a \in Apps, \A t \in Servers : target[t] # a
          PROVE  Left(unread, store[a])' /\ (runs[a] > 0 => store'[a].status # "none")
      BY <3>4, <3>5 DEF RestInv, Left, Over, Excused, Unreadable
    <3>6. ASSUME NEW t \in Servers, pc[t] = "checked"
          PROVE  /\ store'[target[t]].next # "end"
                 /\ store'[target[t]].interrupted \/ Excused(unread, store[target[t]])'
      <4>1. t # s /\ target[t] \in Apps
        BY <1>2, <3>1, <3>6 DEF AtWork
      <4>2. store'[target[t]] = store[target[t]] /\ target'[t] = target[t]
        BY <3>2, <3>3, <3>4, <4>1
      <4> QED
        BY <3>6, <4>2 DEF RestInv, Excused, Unreadable
    <3>7. ASSUME NEW t \in Servers, pc[t] \in AtWork, ~unsaved'[t]
          PROVE  store'[target[t]] = work[t]
      <4>1. CASE t = s
        BY <3>4, <4>1
      <4>2. CASE t # s
        <5>1. target[t] \in Apps /\ ~unsaved[t]
          BY <1>2, <2>1, <3>7, <4>2 DEF AtWork, OthersStay
        <5> QED
          BY <3>3, <3>4, <3>7, <4>2, <5>1 DEF RestInv
      <4> QED
        BY <4>1, <4>2
    <3>8. EveryCheckpoint(PauseOK)'
      <4>1. \A a \in Apps : PauseOK(store'[a])
        BY <1>1, <3>4
      <4> QED
        BY <1>1, <3>2, <4>1 DEF EveryCheckpoint
    <3>9. /\ \A t \in Servers : pc'[t] \in AtWork => work'[t].status # "none"
          /\ \A t \in Servers : pc'[t] = "returning" => Over(work[t])'
          /\ \A t \in Servers : pc'[t] = "raising" => Excused(unread, work[t])'
          /\ \A t \in Servers : pc'[t] = "idle" => target'[t] = None
      BY <3>2 DEF RestInv, Over, Excused, Unreadable
    <3> QED
      BY <3>2, <3>5, <3>6, <3>7, <3>8, <3>9 DEF RestInv
  <2>8. CASE Leaves(s)
    <3>1. Return(s) \/ Raise(s)
      BY <1>4, <2>8 DEF Leaves, CalmBut
    <3>2. /\ store' = store /\ runs' = runs /\ pc'[s] = "idle" /\ target'[s] = None
          /\ work'[s] = NoThread /\ pc[s] \in {"returning", "raising"} /\ ~unsaved[s]
      BY <1>2, <3>1 DEF Return, Raise, Release
    <3>3. Left(unread, store[target[s]]) /\ store[target[s]].status # "none"
      BY <3>2 DEF RestInv, AtWork, Left
    <3> QED
      BY <2>1, <3>2, <3>3, NoThreadRests, OwnStepRests DEF AtWork
  <2> QED
    BY <1>4, <2>2, <2>3, <2>4, <2>5, <2>6, <2>7, <2>8 DEF StepOf, Requested
<1> QED
  BY <1>3, <1>4, NextIs

StaysCalmBut(unread) == []OneHandlerPerId /\ [][CalmBut(unread)]_vars

RestsThroughout(unread) == [](TypeInv /\ LifeInv /\ RestInv(unread))

LEMMA CalmRests ==
    ASSUME NEW unread \in BOOLEAN
    PROVE  Spec /\ StaysCalmBut(unread) => RestsThroughout(unread)
<1>1. Init => RestInv(unread)
  BY InitRests
<1>2. /\ TypeInv /\ PathInv /\ LifeInv /\ RestInv(unread)
      /\ OneHandlerPerId /\ OneHandlerPerId' /\ [Next]_vars /\ [CalmBut(unread)]_vars
      => RestInv(unread)'
  BY StepRests
<1>3. TypeInv /\ OneHandlerPerId => OneInvokePerId
  BY OneHandlerEnough
<1> QED
  BY <1>1, <1>2, <1>3, StepLife, InitTyped, StepTyped, PathInvariant, InitLife,
     PTL DEF Spec, StaysCalmBut, RestsThroughout

LEMMA CalmLeavesNothing ==
    Spec /\ []OneHandlerPerId /\ [][Calm]_vars => RestsThroughout(FALSE)
<1>1. [Calm]_vars => [CalmBut(FALSE)]_vars
  BY DEF Calm, CalmBut, Excused
<1>2. Spec /\ StaysCalmBut(FALSE) => RestsThroughout(FALSE)
  BY CalmRests
<1> QED
  BY <1>1, <1>2, PTL DEF StaysCalmBut

\* The service calls every thread with a pending node "currently paused at
\* human_escalation" (application_service.py:142).  It is right as long as no
\* model call fails for good, no process dies and no two requests for one id
\* overlap: these are the only ways to a resolution of a run that is not paused.
THEOREM OnlyPausedRunsAreResolvedCorrect ==
    Spec /\ []OneHandlerPerId /\ [][Calm]_vars => []OnlyPausedRunsAreResolved
<1>1. RestInv(FALSE) => OnlyPausedRunsAreResolved
  BY DEF RestInv, Excused, OnlyPausedRunsAreResolved
<1> QED
  BY <1>1, CalmLeavesNothing, PTL DEF RestsThroughout

Busy(a) == \E s \in Servers : target[s] = a

\* An id that no request works on.
AtRest == \A a \in Apps : ~Busy(a) => Over(store[a])

\* Under the same conditions an id that no request works on is untouched,
\* completed or paused, never in between.
THEOREM IdsRestOver == Spec /\ []OneHandlerPerId /\ [][Calm]_vars => []AtRest
<1>1. RestInv(FALSE) => AtRest
  BY DEF RestInv, Left, Excused, AtRest, Busy
<1> QED
  BY <1>1, CalmLeavesNothing, PTL DEF RestsThroughout

-----------------------------------------------------------------------------
\* One process, as deploy/k8s pins it, meets both conditions by itself.
THEOREM OneProcessCorrect ==
    ASSUME OneProcess
    PROVE  Spec => /\ ImplementsLifecycle /\ TrailOnlyGrows
                   /\ []AnswersAreDurable /\ CompletedIsFinal
<1>1. OneHandlerPerId /\ OneInvokePerId
  BY OneProcessEnough
<1> QED
  BY <1>1, ImplementsLifecycleCorrect, TrailOnlyGrowsCorrect, AnswersAreDurableCorrect,
     CompletedIsFinalCorrect, PTL

-----------------------------------------------------------------------------
(* What begins ends, where no handler stands still (HandlersGetOn).         *)

Settled(a) ==
    \/ store[a].status = "completed"
    \/ store[a].interrupted
    \/ Unreadable(store[a])

LEMMA RestIsSettled ==
    ASSUME RestInv(TRUE), NEW a \in Apps, runs[a] > 0, \A s \in Servers : target[s] # a
    PROVE  Settled(a)
BY DEF RestInv, EveryCheckpoint, PauseOK, Left, Over, Excused, Settled

\* s works for a, which was submitted.
WorksFor(s, a) == target[s] = a /\ runs[a] > 0

LEMMA RunsCount ==
    ASSUME TypeInv, [Next]_vars, NEW a \in Apps, runs[a] > 0
    PROVE  runs'[a] > 0
<1>1. DOMAIN runs = Apps /\ \A b \in Apps : runs[b] \in Nat
  BY BoundsAssumption DEF TypeInv, TypeOK
<1>2. ASSUME NEW s \in Servers, NEW b \in Apps, NEW payload \in Payloads,
             StartApplication(s, b, payload)
      PROVE  runs'[a] > 0
  <2>1. runs' = [runs EXCEPT ![b] = @ + 1]
    BY <1>2 DEF StartApplication
  <2> QED
    BY <1>1, <2>1
<1>3. ASSUME NEW s \in Servers, StepOf(s), runs' = runs
      PROVE  runs'[a] > 0
  BY <1>3
<1>4. ASSUME NEW s \in Servers, StepOf(s)
      PROVE  \/ runs' = runs
             \/ \E b \in Apps, payload \in Payloads : StartApplication(s, b, payload)
  BY <1>4 DEF StepOf, Requested, CheckResolve, Resume, NodeRuns, IntakeNode, ExtractionNode,
              RiskNode, PolicyNode, EscalationPauses, EscalationResumes, ExplainabilityNode,
              OutputNode, Commit, NodeFails, Flush, Leaves, Return, Raise, Crash
<1>5. CASE UNCHANGED vars
  BY <1>5 DEF vars
<1> QED
  BY <1>2, <1>3, <1>4, <1>5, NextIs

\* Nobody else takes the id up before it rests.
LEMMA WorksOn ==
    ASSUME NEW s \in Servers, NEW a \in Apps
    PROVE  /\ TypeInv /\ RestInv(TRUE)' /\ OneHandlerPerId /\ [Next]_vars /\ WorksFor(s, a)
           => WorksFor(s, a)' \/ Settled(a)'
<1> SUFFICES ASSUME TypeInv, RestInv(TRUE)', OneHandlerPerId, [Next]_vars, WorksFor(s, a)
             PROVE  WorksFor(s, a)' \/ Settled(a)'
  OBVIOUS
<1>1. runs'[a] > 0
  BY RunsCount DEF WorksFor
<1>2. CASE target'[s] = a
  BY <1>1, <1>2 DEF WorksFor
<1>3. CASE target'[s] # a
  <2>1. PICK t \in Servers : StepOf(t)
    BY <1>3, NextIs DEF WorksFor, vars
  <2>2. OthersStay(t)
    BY <2>1, OthersStayPut
  <2>3. t = s
    BY <1>3, <2>2 DEF OthersStay, WorksFor
  <2>4. \A u \in Servers : u # s => target[u] # a
    BY NoneAssumption DEF OneHandlerPerId, WorksFor
  <2>5. \A u \in Servers : target'[u] # a
    BY <1>3, <2>2, <2>3, <2>4 DEF OthersStay
  <2> QED
    BY <1>1, <2>5 DEF RestInv, EveryCheckpoint, PauseOK, Left, Over, Excused, Settled
<1> QED
  BY <1>2, <1>3

SettlesBy(s, a) == WorksFor(s, a) ~> Settled(a)

LEMMA HandlerSettles ==
    ASSUME NEW s \in Servers, NEW a \in Apps
    PROVE  Spec /\ StaysCalmBut(TRUE) /\ GetsOn(s) => SettlesBy(s, a)
<1>1. Spec /\ StaysCalmBut(TRUE) => RestsThroughout(TRUE)
  BY CalmRests
<1>2. Spec /\ GetsOn(s) => (pc[s] # "idle" ~> pc[s] = "idle")
  BY HandlerEnds
<1>3. RestInv(TRUE) /\ WorksFor(s, a) => pc[s] # "idle"
  BY NoneAssumption DEF RestInv, WorksFor
<1>4. RestInv(TRUE) /\ pc[s] = "idle" => ~WorksFor(s, a)
  BY NoneAssumption DEF RestInv, WorksFor
<1> QED
  BY <1>1, <1>2, <1>3, <1>4, WorksOn, PTL DEF Spec, StaysCalmBut, RestsThroughout, SettlesBy

SubmissionSettles(a) == runs[a] > 0 ~> Settled(a)

\* While no process dies and no node raises, but that of a document that cannot be
\* read, every submission to one process ends in a stored decision or a pause, or
\* has such a document.
THEOREM SubmissionsSettleCorrect ==
    ASSUME OneProcess
    PROVE  Spec /\ HandlersGetOn /\ [][CalmBut(TRUE)]_vars => SubmissionsSettle
<1>1. ASSUME NEW a \in Apps
      PROVE  Spec /\ HandlersGetOn /\ [][CalmBut(TRUE)]_vars => SubmissionSettles(a)
  <2>1. OneHandlerPerId
    BY OneProcessEnough
  <2>2. Spec /\ [][CalmBut(TRUE)]_vars => StaysCalmBut(TRUE)
    BY <2>1, PTL DEF StaysCalmBut
  <2>3. Spec /\ StaysCalmBut(TRUE) => RestsThroughout(TRUE)
    BY CalmRests
  <2>4. CASE Servers = {}
    <3>1. RestInv(TRUE) /\ runs[a] > 0 => Settled(a)
      BY <2>4, RestIsSettled
    <3> QED
      BY <2>2, <2>3, <3>1, PTL DEF RestsThroughout, SubmissionSettles
  <2>5. ASSUME NEW s \in Servers
        PROVE  Spec /\ HandlersGetOn /\ [][CalmBut(TRUE)]_vars => SubmissionSettles(a)
    <3>1. HandlersGetOn => GetsOn(s)
      BY Zenon DEF HandlersGetOn
    <3>2. Spec /\ StaysCalmBut(TRUE) /\ GetsOn(s) => SettlesBy(s, a)
      BY HandlerSettles
    <3>3. RestInv(TRUE) /\ runs[a] > 0 => Settled(a) \/ WorksFor(s, a)
      <4>1. \A t \in Servers : t = s
        BY DEF OneProcess
      <4> QED
        BY <4>1, RestIsSettled DEF WorksFor
    <3> QED
      BY <2>2, <2>3, <3>1, <3>2, <3>3, PTL
         DEF RestsThroughout, SettlesBy, SubmissionSettles
  <2> QED
    BY <2>4, <2>5, Zenon
<1> QED
  BY <1>1, Zenon DEF SubmissionsSettle, SubmissionSettles, Settled

\* A request that holds the answer to a pause, on its way to the end of the run.
AnswerInHand == \A s \in Servers : pc[s] = "checked" => resume[s] # None

AfterAnswer == {"explainability_agent", "decision_output"}

UnderReview(s, a) ==
    /\ target[s] = a
    /\ \/ pc[s] = "checked" /\ store[a].interrupted
       \/ pc[s] = "running" /\ work[s].next = "human_escalation" /\ resume[s] # None
       \/ pc[s] = "running" /\ work[s].next \in AfterAnswer
       \/ pc[s] = "returning" /\ work[s].status = "completed"

LEMMA InitAnswerInHand == Init => AnswerInHand
BY DEF Init, AnswerInHand

LEMMA StepAnswerInHand == TypeInv /\ AnswerInHand /\ [Next]_vars => AnswerInHand'
<1> SUFFICES ASSUME TypeInv, AnswerInHand, [Next]_vars PROVE AnswerInHand'
  OBVIOUS
<1>1. DOMAIN pc = Servers /\ DOMAIN resume = Servers
  BY DEF TypeInv, TypeOK
<1>2. CASE UNCHANGED vars
  BY <1>2 DEF vars, AnswerInHand
<1>3. ASSUME NEW s \in Servers, StepOf(s) PROVE AnswerInHand'
  <2>1. OthersStay(s)
    BY <1>3, OthersStayPut
  <2>2. pc'[s] = "checked" => resume'[s] # None
    <3>1. CASE Requested(s)
      BY <1>1, <3>1, NoneAssumption DEF Requested, StartApplication, CheckResolve
    <3>2. CASE Resume(s) \/ NodeFails(s) \/ EscalationPauses(s)
      BY <1>1, <3>2 DEF Resume, NodeFails, EscalationPauses
    <3>3. CASE NodeRuns(s) /\ ~EscalationPauses(s)
      <4>1. ASSUME NEW c, NEW events, Commit(s, c, events) PROVE pc'[s] # "checked"
        BY <1>1, <4>1 DEF Commit
      <4> QED
        BY <3>3, <4>1
           DEF NodeRuns, IntakeNode, ExtractionNode, RiskNode, PolicyNode, EscalationResumes,
               ExplainabilityNode, OutputNode
    <3>4. CASE Flush(s)
      BY <3>4 DEF Flush, AnswerInHand
    <3>5. CASE Leaves(s)
      BY <1>1, <3>5 DEF Leaves, Return, Raise, Crash, Release
    <3> QED
      BY <1>3, <3>1, <3>2, <3>3, <3>4, <3>5 DEF StepOf
  <2> QED
    BY <2>1, <2>2 DEF OthersStay, AnswerInHand
<1> QED
  BY <1>2, <1>3, NextIs

\* What the handler under review does next; its end finds the run completed.
LEMMA OwnReviewGoesOn ==
    ASSUME TypeInv, LifeInv, RestInv(TRUE), AnswerInHand, CalmBut(TRUE),
           NEW s \in Servers, NEW a \in Apps, UnderReview(s, a), StepOf(s)
    PROVE  UnderReview(s, a)' \/ store[a].status = "completed"
<1>1. /\ DOMAIN work = Servers /\ DOMAIN store = Apps /\ DOMAIN pc = Servers
      /\ DOMAIN target = Servers /\ DOMAIN resume = Servers
      /\ work[s] \in CheckpointsOver(Trails)
  BY CheckpointsAre DEF TypeInv, TypeOK
<1>2. CASE Requested(s)
  BY <1>2 DEF Requested, StartApplication, CheckResolve, UnderReview
<1>3. CASE Resume(s)
  <2>1. pc[s] = "checked" /\ target[s] = a /\ store[a].interrupted /\ resume[s] # None
    BY <1>3 DEF Resume, UnderReview, AnswerInHand
  <2>2. store[a].next = "human_escalation"
    BY <2>1 DEF RestInv, EveryCheckpoint, PauseOK
  <2>3. /\ pc'[s] = "running" /\ work'[s] = store[a] /\ target'[s] = a
        /\ resume'[s] = resume[s]
    BY <1>1, <1>3, <2>1, <2>2 DEF Resume
  <2> QED
    BY <2>1, <2>2, <2>3 DEF UnderReview
<1>4. CASE EscalationResumes(s)
  <2>1. /\ Resolved(work[s], resume[s]).next = "explainability_agent"
        /\ Commit(s, Resolved(work[s], resume[s]),
                  {"escalation_requested", "escalation_resolved"})
    BY <1>1, <1>4 DEF EscalationResumes, Resolved, Advance, CheckpointsOver
  <2> QED
    BY <1>1, <2>1 DEF Commit, UnderReview, AfterAnswer
<1>5. CASE ExplainabilityNode(s)
  <2>1. /\ Explained(work[s]).next = "decision_output"
        /\ Commit(s, Explained(work[s]), {"rationale_generated"})
    BY <1>1, <1>5 DEF ExplainabilityNode, Explained, Advance, CheckpointsOver
  <2> QED
    BY <1>1, <2>1 DEF Commit, UnderReview, AfterAnswer
<1>6. CASE OutputNode(s)
  <2>1. /\ Finalized(work[s]).next = "end" /\ Finalized(work[s]).status = "completed"
        /\ Commit(s, Finalized(work[s]), {"decision_finalized"})
    BY <1>1, <1>6 DEF OutputNode, Finalized, Advance, CheckpointsOver
  <2> QED
    BY <1>1, <2>1 DEF Commit, UnderReview
<1>7. CASE NodeRuns(s) /\ ~EscalationResumes(s) /\ ~ExplainabilityNode(s) /\ ~OutputNode(s)
  BY <1>7 DEF NodeRuns, IntakeNode, ExtractionNode, RiskNode, PolicyNode, EscalationPauses,
              AtNode, UnderReview, AfterAnswer
<1>8. CASE NodeFails(s)
  <2>1. AtNode(s, "document_extraction_agent")
    BY <1>8 DEF CalmBut
  <2> QED
    BY <2>1 DEF AtNode, UnderReview, AfterAnswer
<1>9. CASE Flush(s)
  <2>1. pc[s] # "checked" /\ UNCHANGED <<pc, target, work, resume>>
    BY <1>9 DEF Flush, LifeInv, AtWork
  <2> QED
    BY <2>1 DEF UnderReview
<1>10. CASE Leaves(s)
  <2>1. pc[s] = "returning" /\ ~unsaved[s] /\ target[s] = a /\ work[s].status = "completed"
    BY <1>10 DEF Leaves, Return, Raise, CalmBut, UnderReview
  <2> QED
    BY <2>1 DEF RestInv, AtWork
<1> QED
  BY <1>2, <1>3, <1>4, <1>5, <1>6, <1>7, <1>8, <1>9, <1>10 DEF StepOf

LEMMA ReviewGoesOn ==
    ASSUME NEW s \in Servers, NEW a \in Apps
    PROVE  /\ TypeInv /\ LifeInv /\ RestInv(TRUE) /\ AnswerInHand /\ OneHandlerPerId
           /\ [Next]_vars /\ [CalmBut(TRUE)]_vars /\ UnderReview(s, a)
           => UnderReview(s, a)' \/ store[a].status = "completed"
<1> SUFFICES ASSUME TypeInv, LifeInv, RestInv(TRUE), AnswerInHand, OneHandlerPerId,
                    [Next]_vars, [CalmBut(TRUE)]_vars, UnderReview(s, a)
             PROVE  UnderReview(s, a)' \/ store[a].status = "completed"
  OBVIOUS
<1>1. CASE UNCHANGED vars
  BY <1>1 DEF vars, UnderReview
<1>2. CASE StepOf(s) /\ CalmBut(TRUE)
  BY <1>2, OwnReviewGoesOn
<1>3. ASSUME NEW t \in Servers, StepOf(t), t # s PROVE UnderReview(s, a)'
  <2>1. OthersStay(t)
    BY <1>3, OthersStayPut
  <2>2. store'[a] = store[a]
    <3>1. target[t] # a
      BY <1>3, NoneAssumption DEF OneHandlerPerId, UnderReview
    <3>2. \/ store' = store
          \/ \E u \in Servers : Flush(u) /\ u = t
      BY <1>3 DEF StepOf, Requested, StartApplication, CheckResolve, Resume, NodeRuns,
                  IntakeNode, ExtractionNode, RiskNode, PolicyNode, EscalationPauses,
                  EscalationResumes, ExplainabilityNode, OutputNode, Commit, NodeFails,
                  Leaves, Return, Raise, Crash
    <3> QED
      BY <3>1, <3>2 DEF Flush, TypeInv, TypeOK
  <2> QED
    BY <1>3, <2>1, <2>2 DEF OthersStay, UnderReview
<1> QED
  BY <1>1, <1>2, <1>3, NextIs

ReviewCompletes(s, a) ==
    pc[s] = "checked" /\ target[s] = a /\ store[a].interrupted ~> store[a].status = "completed"

\* While no process dies and no node raises, but that of a document that cannot be
\* read, and no two requests for one id overlap, a reviewer's answer to a pause leads
\* to a completed run, for any number of processes.
THEOREM ReviewsCompleteCorrect ==
    Spec /\ HandlersGetOn /\ []OneHandlerPerId /\ [][CalmBut(TRUE)]_vars => ReviewsComplete
<1>1. ASSUME NEW a \in Apps, NEW s \in Servers
      PROVE  Spec /\ HandlersGetOn /\ []OneHandlerPerId /\ [][CalmBut(TRUE)]_vars
               => ReviewCompletes(s, a)
  <2>1. HandlersGetOn => GetsOn(s)
    BY Zenon DEF HandlersGetOn
  <2>2. Spec /\ StaysCalmBut(TRUE) => RestsThroughout(TRUE)
    BY CalmRests
  <2>3. Spec => []AnswerInHand
    BY InitAnswerInHand, StepAnswerInHand, InitTyped, StepTyped, PTL DEF Spec
  <2>4. Spec /\ GetsOn(s) => (pc[s] # "idle" ~> pc[s] = "idle")
    BY HandlerEnds
  <2>5. UnderReview(s, a) => pc[s] # "idle"
    BY DEF UnderReview
  <2>6. pc[s] = "idle" => ~UnderReview(s, a)
    BY DEF UnderReview
  <2>7. pc[s] = "checked" /\ target[s] = a /\ store[a].interrupted => UnderReview(s, a)
    BY DEF UnderReview
  <2> QED
    BY <2>1, <2>2, <2>3, <2>4, <2>5, <2>6, <2>7, ReviewGoesOn,
       PTL DEF Spec, StaysCalmBut, RestsThroughout, ReviewCompletes
<1> QED
  BY <1>1, Zenon DEF ReviewsComplete, ReviewCompletes

-----------------------------------------------------------------------------
(* The audit log, for any number of processes.                              *)

LEMMA CountType ==
    ASSUME NEW t \in Trails, NEW x
    PROVE  /\ IsFiniteSet({i \in 1..Len(t) : t[i] = x})
           /\ Occurrences(x, t) \in Nat
<1>1. IsFiniteSet(1..Len(t))
  BY LenProperties, FS_Interval DEF Trails
<1>2. IsFiniteSet({i \in 1..Len(t) : t[i] = x})
  BY <1>1, FS_Subset
<1> QED
  BY <1>2, FS_CardinalityType DEF Occurrences

LEMMA CountOfAppend ==
    ASSUME NEW t \in Trails, NEW y \in AuditActions, NEW x
    PROVE  Occurrences(x, Append(t, y)) = Occurrences(x, t) + (IF x = y THEN 1 ELSE 0)
<1> DEFINE u == Append(t, y)
           n == Len(t)
<1>1. /\ n \in Nat /\ Len(u) = n + 1 /\ u[n + 1] = y
      /\ \A i \in 1..n : u[i] = t[i]
  BY LenProperties, AppendProperties DEF Trails
<1> DEFINE old == {i \in 1..n : t[i] = x}
<1>2. IsFiniteSet(old)
  BY CountType, Zenon
<1>3. n + 1 \notin old
  BY <1>1
<1> HIDE DEF u, n
<1>4. CASE x = y
  <2>1. {i \in 1..Len(u) : u[i] = x} = old \union {n + 1}
    BY <1>1, <1>4
  <2> HIDE DEF old
  <2> QED
    BY <1>2, <1>3, <1>4, <2>1, FS_AddElement DEF Occurrences, old, u, n
<1>5. CASE x # y
  <2>1. {i \in 1..Len(u) : u[i] = x} = old
    BY <1>1, <1>5
  <2>2. Occurrences(x, t) \in Nat
    BY CountType
  <2>3. Occurrences(x, u) = Occurrences(x, t)
    BY <2>1, Zenon DEF Occurrences, old, n
  <2> QED
    BY <1>5, <2>2, <2>3 DEF u
<1> QED
  BY <1>4, <1>5

\* d has the events of c, and at most one more of each of these.
AddsAtMost(c, d, events) ==
    \A x \in AuditActions :
        /\ Occurrences(x, AuditTrail(c)) \in Nat
        /\ Occurrences(x, AuditTrail(d)) \in Nat
        /\ Occurrences(x, AuditTrail(d))
             <= Occurrences(x, AuditTrail(c)) + (IF x \in events THEN 1 ELSE 0)

LEMMA AddsNothing ==
    ASSUME NEW c \in CheckpointsOver(Trails), NEW d, NEW events, AuditTrail(d) = AuditTrail(c)
    PROVE  AddsAtMost(c, d, events)
<1>1. \A x : Occurrences(x, AuditTrail(c)) \in Nat
  BY TrailOfCheckpoint, CountType
<1>2. \A x : Occurrences(x, AuditTrail(d)) = Occurrences(x, AuditTrail(c))
  OBVIOUS
<1> QED
  BY <1>1, <1>2 DEF AddsAtMost

LEMMA AppendToConcat ==
    ASSUME NEW e \in Trails, NEW t \in Trails, NEW y \in AuditActions
    PROVE  e \o Append(t, y) = Append(e \o t, y)
<1> DEFINE u     == Append(t, y)
           whole == e \o t
           long  == e \o u
           other == Append(whole, y)
<1>1. /\ u \in Trails /\ Len(u) = Len(t) + 1 /\ u[Len(t) + 1] = y
      /\ \A i \in 1..Len(t) : u[i] = t[i]
  BY AppendProperties DEF Trails
<1>2. Len(e) \in Nat /\ Len(t) \in Nat
  BY LenProperties DEF Trails
<1> HIDE DEF u
<1>3. /\ whole \in Trails /\ Len(whole) = Len(e) + Len(t)
      /\ \A i \in 1..Len(e) + Len(t) :
            whole[i] = IF i <= Len(e) THEN e[i] ELSE t[i - Len(e)]
  BY ConcatProperties DEF Trails
<1>4. /\ long \in Trails /\ Len(long) = Len(e) + Len(u)
      /\ \A i \in 1..Len(e) + Len(u) :
            long[i] = IF i <= Len(e) THEN e[i] ELSE u[i - Len(e)]
  BY <1>1, ConcatProperties DEF Trails
<1> HIDE DEF whole, long
<1>5. /\ other \in Trails /\ Len(other) = Len(whole) + 1 /\ other[Len(whole) + 1] = y
      /\ \A i \in 1..Len(whole) : other[i] = whole[i]
  <2>1. whole \in Seq(AuditActions)
    BY <1>3 DEF Trails
  <2> QED
    BY <2>1, AppendProperties DEF Trails
<1> HIDE DEF other
<1>6. Len(long) = Len(other)
  BY <1>1, <1>2, <1>3, <1>4, <1>5
<1>7. ASSUME NEW i \in 1..Len(long) PROVE long[i] = other[i]
  <2>1. CASE i = Len(e) + Len(t) + 1
    BY <1>1, <1>2, <1>3, <1>4, <1>5, <2>1
  <2>2. CASE i \in 1..Len(e) + Len(t)
    <3>1. other[i] = whole[i]
      BY <1>3, <1>5, <2>2
    <3>2. CASE i <= Len(e)
      BY <1>1, <1>2, <1>3, <1>4, <2>2, <3>1, <3>2
    <3>3. CASE ~(i <= Len(e))
      <4>1. i - Len(e) \in 1..Len(t)
        BY <1>2, <2>2, <3>3
      <4>2. u[i - Len(e)] = t[i - Len(e)]
        BY <1>1, <4>1
      <4> QED
        BY <1>1, <1>2, <1>3, <1>4, <2>2, <3>1, <3>3, <4>2
    <3> QED
      BY <3>2, <3>3
  <2>3. i \in 1..Len(e) + Len(t) \/ i = Len(e) + Len(t) + 1
    <3>1. i \in 1..(Len(e) + Len(t) + 1)
      BY <1>1, <1>2, <1>4
    <3> QED
      BY <1>2, <3>1
  <2> QED
    BY <2>1, <2>2, <2>3
<1>8. long = other
  BY <1>4, <1>5, <1>6, <1>7, SeqEqual DEF Trails
<1> QED
  BY <1>8 DEF long, other, whole, u

LEMMA AddsOne ==
    ASSUME NEW c \in CheckpointsOver(Trails), NEW d, NEW y \in AuditActions,
           d.earlier = c.earlier, d.trail = Append(c.trail, y)
    PROVE  AddsAtMost(c, d, {y})
<1>1. c.earlier \in Trails /\ c.trail \in Trails /\ AuditTrail(c) \in Trails
  BY TrailOfCheckpoint DEF CheckpointsOver
<1>2. AuditTrail(d) = Append(AuditTrail(c), y)
  <2>1. AuditTrail(d) = d.earlier \o d.trail /\ AuditTrail(c) = c.earlier \o c.trail
    BY DEF AuditTrail
  <2>2. c.earlier \o Append(c.trail, y) = Append(c.earlier \o c.trail, y)
    BY <1>1, AppendToConcat
  <2> QED
    BY <2>1, <2>2, Zenon
<1>3. \A x : Occurrences(x, AuditTrail(c)) \in Nat
  BY <1>1, CountType
<1>4. \A x : Occurrences(x, AuditTrail(d))
              = Occurrences(x, AuditTrail(c)) + (IF x = y THEN 1 ELSE 0)
  BY <1>1, <1>2, CountOfAppend
<1> HIDE DEF AddsAtMost
<1> QED
  BY <1>3, <1>4 DEF AddsAtMost

LEMMA NodesAdd ==
    ASSUME NEW c \in CheckpointsOver(Trails)
    PROVE  /\ AddsAtMost(c, Received(c), {"application_received"})
           /\ \A fin : AddsAtMost(c, Extracted(c, fin), {"financials_extracted"})
           /\ AddsAtMost(c, Scored(c), {"risk_scored"})
           /\ AddsAtMost(c, Evaluated(c), {"policy_evaluated"})
           /\ AddsAtMost(c, Explained(c), {"rationale_generated"})
           /\ AddsAtMost(c, Finalized(c), {"decision_finalized"})
BY NodeTrails, AddsOne DEF AuditActions

LEMMA ResolvedAdds ==
    ASSUME NEW c \in CheckpointsOver(Trails), NEW resolution \in Resolutions
    PROVE  AddsAtMost(c, Resolved(c, resolution),
                      {"escalation_requested", "escalation_resolved"})
<1> DEFINE b == Advance(c, "human_escalation", "escalation_requested")
           d == Resolved(c, resolution)
<1>1. b \in CheckpointsOver(Trails)
  BY CheckpointsAre, AdvanceTyped DEF Nodes, AuditActions
<1>2. b.earlier = c.earlier /\ b.trail = Append(c.trail, "escalation_requested")
  BY DEF Advance, CheckpointsOver
<1>3. AddsAtMost(c, b, {"escalation_requested"})
  BY <1>2, AddsOne DEF AuditActions
<1>4. d = [Advance(b, "explainability_agent", "escalation_resolved")
             EXCEPT !.interrupted = FALSE, !.status = "escalation_resolved",
                    !.resolution = resolution]
  BY DEF Resolved
<1> HIDE DEF b, d
<1>5. d.earlier = b.earlier /\ d.trail = Append(b.trail, "escalation_resolved")
  BY <1>1, <1>4 DEF Advance, CheckpointsOver
<1>6. AddsAtMost(b, d, {"escalation_resolved"})
  BY <1>1, <1>5, AddsOne DEF AuditActions
<1>7. AddsAtMost(c, d, {"escalation_requested", "escalation_resolved"})
  BY <1>3, <1>6 DEF AddsAtMost
<1> QED
  BY <1>7 DEF d

\* The log's counts of one id are not behind a trail.
Covers(row, trail) ==
    \A x \in AuditActions : row[x] >= Occurrences(x, trail) \/ row[x] = LogCap

LogInv ==
    /\ \A a \in Apps : Covers(logged[a], AuditTrail(store[a]))
    /\ \A s \in Servers : unsaved[s] => pc[s] \in AtWork
    /\ \A s \in Servers : pc[s] \in AtWork => Covers(logged[target[s]], AuditTrail(work[s]))

LEMMA LogGrows ==
    ASSUME NEW a \in Apps, NEW events, Log(a, events),
           logged \in [Apps -> [AuditActions -> 0..LogCap]]
    PROVE  /\ \A b \in Apps, x \in AuditActions :
                 /\ logged[b][x] \in 0..LogCap /\ logged'[b][x] \in 0..LogCap
                 /\ logged'[b][x] >= logged[b][x]
           /\ \A x \in AuditActions :
                 x \in events => logged'[a][x] >= logged[a][x] + 1 \/ logged'[a][x] = LogCap
<1> DEFINE row == [x \in AuditActions |->
                     IF x \in events /\ logged[a][x] < LogCap
                     THEN logged[a][x] + 1 ELSE logged[a][x]]
<1>1. LogCap \in Nat
  BY BoundsAssumption
<1>2. \A b \in Apps, x \in AuditActions : logged[b][x] \in 0..LogCap
  OBVIOUS
<1>3. \A x \in AuditActions :
         /\ row[x] \in 0..LogCap /\ row[x] >= logged[a][x]
         /\ x \in events => row[x] >= logged[a][x] + 1 \/ row[x] = LogCap
  BY <1>1, <1>2
<1>4. logged' = [logged EXCEPT ![a] = row]
  BY DEF Log
<1> HIDE DEF row
<1>5. logged'[a] = row /\ \A b \in Apps : b # a => logged'[b] = logged[b]
  BY <1>4
<1>6. ASSUME NEW b \in Apps, NEW x \in AuditActions
      PROVE  /\ logged[b][x] \in 0..LogCap /\ logged'[b][x] \in 0..LogCap
             /\ logged'[b][x] >= logged[b][x]
  <2>1. CASE b = a
    BY <1>2, <1>3, <1>5, <2>1
  <2>2. CASE b # a
    BY <1>1, <1>2, <1>5, <2>2
  <2> QED
    BY <2>1, <2>2
<1> QED
  BY <1>3, <1>5, <1>6

\* Cover outlives more lines, and a trail that grew by lines that were written.
LEMMA CoverKept ==
    ASSUME NEW row, NEW row2, NEW c, NEW d, NEW events, Covers(row, AuditTrail(c)),
           AddsAtMost(c, d, events),
           \A x \in AuditActions :
              /\ row[x] \in 0..LogCap /\ row2[x] \in 0..LogCap /\ row2[x] >= row[x]
              /\ x \in events => row2[x] >= row[x] + 1 \/ row2[x] = LogCap
    PROVE  Covers(row2, AuditTrail(d))
<1> SUFFICES ASSUME NEW x \in AuditActions
             PROVE  row2[x] >= Occurrences(x, AuditTrail(d)) \/ row2[x] = LogCap
  BY DEF Covers
<1>1. LogCap \in Nat
  BY BoundsAssumption
<1>2. row[x] >= Occurrences(x, AuditTrail(c)) \/ row[x] = LogCap
  BY DEF Covers
<1>3. /\ Occurrences(x, AuditTrail(c)) \in Nat /\ Occurrences(x, AuditTrail(d)) \in Nat
      /\ Occurrences(x, AuditTrail(d))
           <= Occurrences(x, AuditTrail(c)) + (IF x \in events THEN 1 ELSE 0)
  BY DEF AddsAtMost
<1>4. /\ row[x] \in 0..LogCap /\ row2[x] \in 0..LogCap /\ row2[x] >= row[x]
      /\ x \in events => row2[x] >= row[x] + 1 \/ row2[x] = LogCap
  OBVIOUS
<1> DEFINE before == Occurrences(x, AuditTrail(c))
           after  == Occurrences(x, AuditTrail(d))
<1> HIDE DEF before, after
<1>5. row2[x] >= after \/ row2[x] = LogCap
  BY <1>1, <1>2, <1>3, <1>4 DEF before, after
<1> QED
  BY <1>5 DEF after

LEMMA NoThreadCovered ==
    ASSUME NEW row \in [AuditActions -> 0..LogCap]
    PROVE  Covers(row, AuditTrail(NoThread))
<1>1. AuditTrail(NoThread) = <<>> \o <<>>
  BY DEF AuditTrail, NoThread
<1>2. <<>> \in Trails /\ Len(<<>>) = 0
  BY DEF Trails
<1>3. <<>> \o <<>> \in Trails /\ Len(<<>> \o <<>>) = 0
  BY <1>2, ConcatProperties DEF Trails
<1> DEFINE trail == AuditTrail(NoThread)
<1>4. \A x : {i \in 1..Len(trail) : trail[i] = x} = {}
  BY <1>1, <1>3
<1> HIDE DEF trail
<1>5. \A x : Occurrences(x, trail) = 0
  BY <1>4, FS_EmptySet DEF Occurrences
<1>6. LogCap \in Nat
  BY BoundsAssumption
<1> QED
  BY <1>5, <1>6 DEF Covers, trail

LEMMA InitLogged == Init => LogInv
<1> SUFFICES ASSUME Init PROVE LogInv
  OBVIOUS
<1>1. LogCap \in Nat
  BY BoundsAssumption
<1>2. \A a \in Apps : logged[a] \in [AuditActions -> 0..LogCap] /\ store[a] = NoThread
  BY <1>1 DEF Init
<1> QED
  BY <1>2, NoThreadCovered DEF Init, LogInv, AtWork

\* A node writes its lines before its events can be stored.
LEMMA NodeLogged ==
    ASSUME TypeInv, LogInv, NEW s \in Servers, pc[s] = "running",
           NEW c, NEW events, Log(target[s], events), AddsAtMost(work[s], c, events),
           UNCHANGED <<store, target>>, work' = [work EXCEPT ![s] = c],
           unsaved' = [unsaved EXCEPT ![s] = TRUE],
           NEW where \in AtWork, pc' = [pc EXCEPT ![s] = where]
    PROVE  LogInv'
<1>1. /\ target[s] \in Apps /\ \A t \in Servers : pc[t] \in AtWork => target[t] \in Apps
      /\ logged \in [Apps -> [AuditActions -> 0..LogCap]]
      /\ DOMAIN work = Servers /\ DOMAIN pc = Servers /\ DOMAIN unsaved = Servers
  BY DEF TypeInv, TypeOK, AtWork
<1>2. /\ \A b \in Apps, x \in AuditActions :
             /\ logged[b][x] \in 0..LogCap /\ logged'[b][x] \in 0..LogCap
             /\ logged'[b][x] >= logged[b][x]
      /\ \A x \in AuditActions :
             x \in events =>
               logged'[target[s]][x] >= logged[target[s]][x] + 1 \/ logged'[target[s]][x] = LogCap
  BY <1>1, LogGrows
<1>3. \A c2 : Typed(c2) => AddsAtMost(c2, c2, {})
  BY AddsNothing, CheckpointsAre DEF Typed
<1>4. ASSUME NEW a \in Apps PROVE Covers(logged'[a], AuditTrail(store'[a]))
  <2>1. Typed(store[a]) /\ Covers(logged[a], AuditTrail(store[a]))
    BY DEF TypeInv, TypeOK, Typed, LogInv
  <2> QED
    BY <1>2, <1>3, <2>1, CoverKept
<1>5. ASSUME NEW t \in Servers, pc'[t] \in AtWork
      PROVE  Covers(logged'[target'[t]], AuditTrail(work'[t]))
  <2>1. CASE t = s
    <3>1. Covers(logged[target[s]], AuditTrail(work[s]))
      BY DEF LogInv, AtWork
    <3>2. Covers(logged'[target[s]], AuditTrail(c))
      BY <1>1, <1>2, <3>1, CoverKept
    <3> QED
      BY <1>1, <2>1, <3>2
  <2>2. CASE t # s
    <3>1. pc[t] \in AtWork /\ target[t] \in Apps /\ work'[t] = work[t]
      BY <1>1, <1>5, <2>2
    <3>2. Typed(work[t]) /\ Covers(logged[target[t]], AuditTrail(work[t]))
      BY <3>1 DEF TypeInv, TypeOK, Typed, LogInv
    <3>3. Covers(logged'[target[t]], AuditTrail(work[t]))
      BY <1>2, <1>3, <3>1, <3>2, CoverKept
    <3> QED
      BY <3>1, <3>3
  <2> QED
    BY <2>1, <2>2
<1>6. \A t \in Servers : unsaved'[t] => pc'[t] \in AtWork
  BY <1>1 DEF LogInv
<1> QED
  BY <1>4, <1>5, <1>6 DEF LogInv

LEMMA CommitLogged ==
    ASSUME TypeInv, LogInv, NEW s \in Servers, pc[s] = "running",
           NEW c, NEW events, Commit(s, c, events), AddsAtMost(work[s], c, events)
    PROVE  LogInv'
<1> DEFINE where == IF c.next = "end" THEN "returning" ELSE "running"
<1>1. /\ Log(target[s], events) /\ UNCHANGED <<store, target>>
      /\ work' = [work EXCEPT ![s] = c] /\ unsaved' = [unsaved EXCEPT ![s] = TRUE]
      /\ pc' = [pc EXCEPT ![s] = where]
  BY DEF Commit
<1>2. where \in AtWork
  BY DEF AtWork
<1> HIDE DEF where
<1> QED
  BY <1>1, <1>2, NodeLogged

LEMMA StepLogged == TypeInv /\ LogInv /\ [Next]_vars => LogInv'
<1> SUFFICES ASSUME TypeInv, LogInv, [Next]_vars PROVE LogInv'
  OBVIOUS
<1>1. /\ \A a \in Apps : store[a] \in CheckpointsOver(Trails)
      /\ \A s \in Servers : Typed(work[s]) /\ work[s] \in CheckpointsOver(Trails)
  BY CheckpointsAre DEF TypeInv, TypeOK, Typed
<1>2. /\ DOMAIN work = Servers /\ DOMAIN store = Apps /\ DOMAIN pc = Servers
      /\ DOMAIN unsaved = Servers /\ DOMAIN target = Servers
      /\ \A s \in Servers : pc[s] # "idle" => target[s] \in Apps
      /\ \A a \in Apps : logged[a] \in [AuditActions -> 0..LogCap]
  BY DEF TypeInv, TypeOK
<1>3. ASSUME NEW s \in Servers, NEW a \in Apps, NEW payload \in Payloads,
             StartApplication(s, a, payload)
      PROVE  LogInv'
  <2>1. AuditTrail(Submitted(store[a], payload)) = AuditTrail(store[a])
    BY <1>1, SubmittedTrail
  <2>2. /\ work' = [work EXCEPT ![s] = Submitted(store[a], payload)] /\ store' = store
        /\ pc' = [pc EXCEPT ![s] = "running"] /\ target' = [target EXCEPT ![s] = a]
        /\ unsaved' = [unsaved EXCEPT ![s] = TRUE] /\ logged' = logged
    BY <1>3 DEF StartApplication
  <2> QED
    BY <1>2, <2>1, <2>2 DEF LogInv, AtWork
<1>4. ASSUME NEW s \in Servers, NEW a \in Apps, NEW resolution \in Resolutions,
             CheckResolve(s, a, resolution)
      PROVE  LogInv'
  <2>1. /\ UNCHANGED <<store, work, unsaved, logged>> /\ pc[s] = "idle"
        /\ pc' = [pc EXCEPT ![s] = "checked"] /\ target' = [target EXCEPT ![s] = a]
    BY <1>4 DEF CheckResolve
  <2> QED
    BY <1>2, <2>1 DEF LogInv, AtWork
<1>5. ASSUME NEW s \in Servers, Resume(s) PROVE LogInv'
  <2>1. /\ work' = [work EXCEPT ![s] = store[target[s]]]
        /\ UNCHANGED <<store, target, unsaved, logged>>
        /\ pc[s] = "checked" /\ pc'[s] \in AtWork
        /\ \A t \in Servers : t # s => pc'[t] = pc[t]
    BY <1>2, <1>5 DEF Resume, AtWork
  <2>2. target[s] \in Apps
    BY <1>2, <2>1
  <2> QED
    BY <1>2, <2>1, <2>2 DEF LogInv
<1>6. ASSUME NEW s \in Servers,
             IntakeNode(s) \/ RiskNode(s) \/ PolicyNode(s) \/ ExplainabilityNode(s) \/ OutputNode(s)
      PROVE  LogInv'
  BY <1>1, <1>6, NodesAdd, CommitLogged
     DEF IntakeNode, RiskNode, PolicyNode, ExplainabilityNode, OutputNode, AtNode
<1>7. ASSUME NEW s \in Servers, ExtractionNode(s) PROVE LogInv'
  <2>1. PICK fin : Commit(s, Extracted(work[s], fin), {"financials_extracted"})
    BY <1>7 DEF ExtractionNode
  <2>2. pc[s] = "running"
    BY <1>7 DEF ExtractionNode, AtNode
  <2> QED
    BY <1>1, <2>1, <2>2, NodesAdd, CommitLogged
<1>8. ASSUME NEW s \in Servers, EscalationPauses(s) PROVE LogInv'
  <2>1. AuditTrail(Paused(work[s])) = AuditTrail(work[s])
    BY <1>1 DEF Paused, AuditTrail, CheckpointsOver
  <2>2. AddsAtMost(work[s], Paused(work[s]), {"escalation_requested"})
    BY <1>1, <2>1, AddsNothing
  <2>3. /\ work' = [work EXCEPT ![s] = Paused(work[s])] /\ UNCHANGED <<store, target>>
        /\ pc[s] = "running" /\ pc' = [pc EXCEPT ![s] = "returning"]
        /\ unsaved' = [unsaved EXCEPT ![s] = TRUE]
        /\ Log(target[s], {"escalation_requested"})
    BY <1>8 DEF EscalationPauses, AtNode
  <2>4. "returning" \in AtWork
    BY DEF AtWork
  <2> QED
    BY <2>2, <2>3, <2>4, NodeLogged
<1>9. ASSUME NEW s \in Servers, EscalationResumes(s) PROVE LogInv'
  <2>1. resume[s] \in Resolutions
    BY <1>9 DEF TypeInv, TypeOK, EscalationResumes
  <2> QED
    BY <1>1, <1>9, <2>1, ResolvedAdds, CommitLogged DEF EscalationResumes, AtNode
<1>10. ASSUME NEW s \in Servers, NodeFails(s) PROVE LogInv'
  <2>1. /\ UNCHANGED <<store, target, work, unsaved, logged>> /\ pc[s] = "running"
        /\ pc' = [pc EXCEPT ![s] = "raising"]
    BY <1>10 DEF NodeFails, AtNode
  <2> QED
    BY <1>2, <2>1 DEF LogInv, AtWork
<1>11. ASSUME NEW s \in Servers, Flush(s) PROVE LogInv'
  <2>1. pc[s] \in AtWork
    BY <1>11 DEF LogInv, Flush
  <2>2. /\ store' = [store EXCEPT ![target[s]] = work[s]]
        /\ UNCHANGED <<work, target, pc, logged>>
        /\ unsaved' = [unsaved EXCEPT ![s] = FALSE]
    BY <1>11 DEF Flush
  <2> QED
    BY <1>2, <2>1, <2>2 DEF LogInv
<1>12. ASSUME NEW s \in Servers, Return(s) \/ Raise(s) \/ Crash(s) PROVE LogInv'
  <2>1. Release(s) /\ UNCHANGED <<store, logged>>
    BY <1>12 DEF Return, Raise, Crash
  <2>2. /\ pc' = [pc EXCEPT ![s] = "idle"] /\ unsaved' = [unsaved EXCEPT ![s] = FALSE]
        /\ \A t \in Servers : t # s => work'[t] = work[t] /\ target'[t] = target[t]
    BY <2>1 DEF Release
  <2> QED
    BY <1>2, <2>1, <2>2 DEF LogInv, AtWork
<1>13. CASE UNCHANGED vars
  BY <1>13 DEF vars, LogInv
<1> QED
  BY <1>3, <1>4, <1>5, <1>6, <1>7, <1>8, <1>9, <1>10, <1>11, <1>12, <1>13 DEF Next, HandlerStep

\* However many processes share the store, and whatever crashes, fails or is
\* submitted again: every event of a stored audit trail is in the audit log.
THEOREM LogCoversTrailCorrect == Spec => []LogCoversTrail
<1>1. LogInv => LogCoversTrail
  BY DEF LogInv, Covers, LogCoversTrail
<1> QED
  BY <1>1, InitLogged, StepLogged, InitTyped, StepTyped, PTL DEF Spec

=============================================================================
