-------------------------- MODULE UnderwritingCases --------------------------
(***************************************************************************)
(* UnderwritingGraph implements CaseLifecycle: the checkpoint that the     *)
(* store holds of a thread is the state of a case.                         *)
(***************************************************************************)
EXTENDS UnderwritingGraph

\* The stage a checkpoint shows (snapshot.next, application_status).
StageOf(c) ==
    IF c.status = "none" THEN "none"
    ELSE CASE c.next = "end"              -> "completed"
           [] c.next = "decision_output"  -> "decided"
           [] c.next = "human_escalation" -> "in_review"
           [] c.next = "explainability_agent" /\ IsReviewCase(c) -> "answered"
           [] OTHER                       -> "processing"

\* The verdict is the decision of this submission: an older one that the thread
\* still holds is none.
CaseOf(c) ==
    [began    |-> Len(c.earlier),
     stage    |-> StageOf(c),
     referred |-> \/ StageOf(c) \in {"in_review", "answered"}
                  \/ StageOf(c) \in {"decided", "completed"} /\ IsReviewCase(c),
     answer   |-> c.resolution,
     verdict  |-> IF StageOf(c) \in {"decided", "completed"}
                  THEN [by |-> c.decision.decidedBy,
                        approved |-> c.decision.outcome = "approved"]
                  ELSE None]

Lifecycle == INSTANCE CaseLifecycle
    WITH case  <- [a \in Apps |-> CaseOf(store[a])],
         Rules <- "explainability_agent"

\* Every step of one process, over crashes, failed nodes and retries, is to its
\* clients a step of a case that only moves forward: no stored verdict is taken
\* back, no reviewer asked twice, no answer lost, except by a new submission
\* (the checkpoints behind application_service.py).
ImplementsLifecycle == Lifecycle!Spec

=============================================================================
