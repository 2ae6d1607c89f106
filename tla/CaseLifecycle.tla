---------------------------- MODULE CaseLifecycle ----------------------------
(***************************************************************************)
(* What the service promises about the stored state of a case, whatever    *)
(* nodes, checkpoints, writers and crashes lie behind it: a case moves     *)
(* forward through its stages, a reviewer is asked and answers at most     *)
(* once, a verdict follows the answer and stays, and only a new submission *)
(* under the same id opens the case again.                                 *)
(***************************************************************************)
EXTENDS Naturals

CONSTANTS
    Apps,    \* application ids
    Rules,   \* who decides a case that no reviewer has answered
    None     \* no answer, no verdict

VARIABLE case   \* per id: began (how much history it has from earlier
                \* submissions), stage, referred, answer and verdict

-----------------------------------------------------------------------------

Stages == {"none", "processing", "in_review", "answered", "decided", "completed"}

\* How far a stage is along the way of a case.
Rank(stage) ==
    CASE stage = "none"       -> 0
      [] stage = "processing" -> 1
      [] stage = "in_review"  -> 2
      [] stage = "answered"   -> 3
      [] stage = "decided"    -> 4
      [] stage = "completed"  -> 5

Settled(c) == Rank(c.stage) >= Rank("decided")

PastReview(c) == Rank(c.stage) >= Rank("answered")

NewCase ==
    [began |-> 0, stage |-> "none", referred |-> FALSE, answer |-> None, verdict |-> None]

\* A verdict is the reviewer's, if one has answered under this id, and else the
\* rules'; a case referred to a reviewer has no verdict before the answer.
Coherent(c) ==
    /\ c.stage \in {"in_review", "answered"} => c.referred
    /\ c.referred /\ PastReview(c) => c.answer # None
    /\ ~Settled(c) => c.verdict = None
    /\ Settled(c) /\ c.answer = None => c.verdict.by = Rules
    /\ Settled(c) /\ c.answer # None =>
         c.verdict = [by |-> c.answer.reviewer, approved |-> c.answer.approve]

\* d is c, some way further on.  An answer enters by the review or not at all.
Onward(c, d) ==
    /\ d.began = c.began
    /\ Rank(c.stage) <= Rank(d.stage)
    /\ c.referred => d.referred
    /\ d.answer # c.answer => d.referred /\ ~PastReview(c) /\ PastReview(d)
    /\ Settled(c) => d.referred = c.referred /\ d.verdict = c.verdict

\* d is the case of a later submission under the id of c.
Reopened(c, d) ==
    /\ d.began > c.began
    /\ d.stage # "none"
    /\ d.answer # c.answer => d.referred /\ PastReview(d)

-----------------------------------------------------------------------------

Init == case = [a \in Apps |-> NewCase]

Proceed(a) ==
    /\ case' = [case EXCEPT ![a] = case'[a]]
    /\ Coherent(case'[a])
    /\ Onward(case[a], case'[a])

Reopen(a) ==
    /\ case' = [case EXCEPT ![a] = case'[a]]
    /\ Coherent(case'[a])
    /\ Reopened(case[a], case'[a])

Next == \E a \in Apps : Proceed(a) \/ Reopen(a)

Spec == Init /\ [][Next]_case

=============================================================================
