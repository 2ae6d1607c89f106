--------------------------- MODULE LendingRulesMC ---------------------------
(***************************************************************************)
(* LendingRules over small inputs.  A state is one case: an application,   *)
(* its document and what the rules make of it.  A step changes one field   *)
(* of the input, so that an action property compares two applicants who    *)
(* differ in that field only.                                              *)
(***************************************************************************)
EXTENDS LendingRules, FiniteSets

CONSTANTS
    Frequencies,      \* PAY_FREQUENCY lines, "absent" among them
    GrossFigures,     \* GROSS_PAY_PER_PERIOD, in cents; the line may also be absent
    DebtFigures,      \* EXISTING_MONTHLY_DEBT, in cents; the line may also be absent
    StatedIncomes,    \* stated_annual_income, in cents
    StatedDebts,      \* stated_monthly_debt, in cents
    Requests,         \* requested_amount, in cents
    Scores,           \* bureau scores
    EmploymentCases,  \* employment_status
    Answers           \* what the reviewer may say

ASSUME LendingRulesMCAssumption ==
    /\ UNION {GrossFigures, DebtFigures, StatedIncomes, StatedDebts, Requests, Scores}
         \subseteq Nat
    /\ Answers \subseteq BOOLEAN
    /\ EmploymentCases \subseteq Employments

VARIABLES app, doc
vars == <<app, doc>>

Init ==
    /\ app \in [statedAnnualIncome : StatedIncomes, statedMonthlyDebt : StatedDebts,
                requested : Requests, creditScore : Scores, employment : EmploymentCases]
    /\ doc \in [frequency : Frequencies, gross : GrossFigures \union {Absent},
                net : {Absent}, debt : DebtFigures \union {Absent}]

OtherScore == /\ \E s \in Scores : app' = [app EXCEPT !.creditScore = s]
              /\ UNCHANGED doc

OtherExtractedDebt == /\ \E d \in DebtFigures \union {Absent} : doc' = [doc EXCEPT !.debt = d]
                      /\ UNCHANGED app

Next == OtherScore \/ OtherExtractedDebt

Spec == Init /\ [][Next]_vars

-----------------------------------------------------------------------------
fin   == MockExtraction(doc)
risk  == AssessRisk(app, fin)
flags == EvaluatePolicy(app, fin)
route == RouteAfterPolicy(risk, flags)

\* What becomes of the case without anybody's help.
Disposition ==
    IF route = "human_escalation" THEN "review" ELSE StraightThrough(risk, flags).outcome

\* How good a disposition is for the applicant.
Standing == [denied |-> 0, review |-> 1, approved |-> 2]

-----------------------------------------------------------------------------
\* Whoever denies, the rules or a reviewer, at least one reason goes with the
\* denial: models.py promises adverse_action_reasons whenever the outcome is a
\* denial, and only the reviewer's branch of determine_outcome has a fallback.
DenialNamesAReason ==
    /\ Disposition = "denied" => StraightThrough(risk, flags).reasons # {}
    /\ \A approve \in Answers :
          LET o == ReviewerOutcome(approve, risk, flags)
          IN  o.outcome = "denied" => o.reasons # {}

\* A higher bureau score, everything else equal, never makes the disposition
\* worse: the precedence of the tier rules and the band table agree.
BetterScoreNeverHurts ==
    [][ (app' = [app EXCEPT !.creditScore = app'.creditScore] /\ doc' = doc
           /\ app'.creditScore >= app.creditScore)
        => Standing[Disposition'] >= Standing[Disposition] ]_vars

\* A document that says nothing of a debt the applicant did state (of more
\* than 25 cents) is flagged: the missing line is read as no debt at all, and
\* the consistency check is the only thing that notices.
MissingDebtLineIsFlagged ==
    doc.debt = Absent /\ app.statedMonthlyDebt > 25
      => "DEBT_STATEMENT_INCONSISTENCY" \in flags

\* The rules decide a case alone only on a settled tier and with no blocking
\* flag, whichever order the rules are read in (GOVERNANCE.md, section 4).
AutomaticOnlyWhenSettled ==
    Disposition # "review" =>
        /\ ~OverLeveraged(app)
        /\ \/ risk.dti >= DtiHardDecline
           \/ risk.band = "poor"
           \/ risk.band # "fair" /\ risk.dti \notin DtiBorderlineLow .. (DtiBorderlineHigh - 1)

-----------------------------------------------------------------------------
(* What the repository says, and the code does not do.                      *)

\* config.py: a ratio at or above the upper threshold leaves the borderline
\* band "toward decline", so more debt never improves a disposition.
MoreDebtNeverHelps ==
    [][ (doc' = [doc EXCEPT !.debt = doc'.debt] /\ app' = app
           /\ OrZero(doc'.debt) >= OrZero(doc.debt))
        => Standing[Disposition'] <= Standing[Disposition] ]_vars

=============================================================================
