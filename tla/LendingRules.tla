---------------------------- MODULE LendingRules ----------------------------
(***************************************************************************)
(* The deterministic lending rules: what an application, the financials    *)
(* extracted from its document and a bureau score lead to.                 *)
(* domain/policy.py, domain/risk.py, domain/decisioning.py, the bands of   *)
(* infrastructure/credit_bureau.py and the offline extraction of           *)
(* infrastructure/llm.py.                                                  *)
(*                                                                         *)
(* Money is counted in whole cents, a ratio in basis points (the four      *)
(* decimals the code rounds to) and a confidence in hundredths.  A tie in  *)
(* a rounding, which binary floating point breaks either way, goes up.     *)
(***************************************************************************)
EXTENDS Integers

CONSTANTS
    DtiBorderlineLow,    \* Settings.dti_borderline_low, in basis points
    DtiBorderlineHigh,   \* Settings.dti_borderline_high
    DtiHardDecline       \* Settings.dti_hard_decline

\* The settings are plain floats: nothing orders or bounds them.
ASSUME DtiThresholdsAssumption ==
    {DtiBorderlineLow, DtiBorderlineHigh, DtiHardDecline} \subseteq Int

Tiers       == {"low", "medium", "borderline", "high"}
Bands       == {"excellent", "good", "fair", "poor"}
Outcomes    == {"approved", "denied"}
Employments == {"employed_full_time", "employed_part_time", "self_employed",
                "unemployed", "retired"}

-----------------------------------------------------------------------------
(* The offline extraction: a pay stub is a record of labelled lines.        *)

\* A money line that is missing, and one whose figure is only commas, which
\* matches the pattern but which float("") refuses.
Absent    == -1
Malformed == -2

\* 12 times _PAY_FREQUENCY_MONTHLY_MULTIPLIER.
PayPeriods == [monthly |-> 12, semimonthly |-> 24, biweekly |-> 26, weekly |-> 52]

RoundDiv(n, d) == (n \div d) + (IF 2 * (n % d) >= d THEN 1 ELSE 0)

MoneyLines == {"gross", "net", "debt"}

X_RaisesOnMissingLine(doc) == \E line \in MoneyLines : doc[line] \in {Absent, Malformed}

\* float() raises on a malformed line, and the extraction with it.
ExtractionRaises(doc) == \E line \in MoneyLines : doc[line] = Malformed

OrZero(figure) == IF figure = Absent THEN 0 ELSE figure

\* A document with no PAY_FREQUENCY line is read as a monthly one.
FrequencyRead(doc) == IF doc.frequency = "absent" THEN "monthly" ELSE doc.frequency

FrequencyFound(doc) == FrequencyRead(doc) \in DOMAIN PayPeriods

FieldsFound(doc) ==
    (IF FrequencyFound(doc) THEN 1 ELSE 0)
      + (IF doc.gross = Absent THEN 0 ELSE 1)
      + (IF doc.net   = Absent THEN 0 ELSE 1)
      + (IF doc.debt  = Absent THEN 0 ELSE 1)

\* round((figure or 0.0) * multiplier, 2); an unknown frequency counts once.
Monthly(figure, doc) ==
    RoundDiv(OrZero(figure) * (IF FrequencyFound(doc)
                               THEN PayPeriods[FrequencyRead(doc)] ELSE 12), 12)

\* round(0.55 + 0.4 * found / 4, 2), never above 0.99 with four fields.
MockExtraction(doc) ==
    [monthlyGross |-> Monthly(doc.gross, doc),
     monthlyDebt  |-> OrZero(doc.debt),
     confidence   |-> 55 + 10 * FieldsFound(doc)]

-----------------------------------------------------------------------------
(* The credit bureau and the risk tier.                                     *)

BandFromScore(score) ==
    CASE score >= 740 -> "excellent"
      [] score >= 670 /\ score < 740 -> "good"
      [] score >= 580 /\ score < 670 -> "fair"
      [] OTHER -> "poor"

\* An income and the number of months it covers: the documented monthly one,
\* and only when that is zero a twelfth of the stated annual one.
Income(app, fin) ==
    IF fin.monthlyGross # 0
    THEN [amount |-> fin.monthlyGross, months |-> 1]
    ELSE [amount |-> app.statedAnnualIncome, months |-> 12]

ComputeDti(income, monthlyDebt) ==
    IF income.amount <= 0 THEN 10000
    ELSE RoundDiv(10000 * income.months * monthlyDebt, income.amount)

X_FairBandFirst(dti, band) ==
    IF (DtiBorderlineLow <= dti /\ dti < DtiBorderlineHigh) \/ band = "fair"
    THEN "borderline"
    ELSE IF dti >= DtiHardDecline \/ band = "poor" THEN "high"
    ELSE IF dti < DtiBorderlineLow THEN "low" ELSE "medium"

ClassifyRiskTier(dti, band) ==
    IF dti >= DtiHardDecline \/ band = "poor" THEN "high"
    ELSE IF (DtiBorderlineLow <= dti /\ dti < DtiBorderlineHigh) \/ band = "fair"
    THEN "borderline"
    ELSE IF dti < DtiBorderlineLow /\ band \in {"excellent", "good"} THEN "low"
    ELSE "medium"

AssessRisk(app, fin) ==
    LET dti  == ComputeDti(Income(app, fin), fin.monthlyDebt)
        band == BandFromScore(app.creditScore)
    IN  [dti |-> dti, band |-> band, tier |-> ClassifyRiskTier(dti, band)]

-----------------------------------------------------------------------------
(* The policy rule set: a result is the set of the flags raised.            *)

BlockFlags == {"OVER_LEVERAGED_REQUEST", "LOW_EXTRACTION_CONFIDENCE"}
WarnFlags  == {"DEBT_STATEMENT_INCONSISTENCY", "UNEMPLOYED_APPLICANT"}
InfoFlags  == {"SELF_EMPLOYED_INCOME_VARIABILITY"}
FlagCodes  == BlockFlags \union WarnFlags \union InfoFlags

MaxOf(a, b) == IF a >= b THEN a ELSE b
AbsDiff(a, b) == IF a >= b THEN a - b ELSE b - a

\* A request with no stated income is an infinite multiple of it.
OverLeveraged(app) ==
    app.statedAnnualIncome <= 0 \/ app.requested > 5 * app.statedAnnualIncome

X_SkipDebtCheckWithoutFigure(app, fin) ==
    fin.monthlyDebt # 0 /\ 4 * AbsDiff(app.statedMonthlyDebt, fin.monthlyDebt)
                             > MaxOf(app.statedMonthlyDebt, 100)

\* More than a quarter of the stated debt, or of one dollar if that is more.
DebtInconsistent(app, fin) ==
    4 * AbsDiff(app.statedMonthlyDebt, fin.monthlyDebt)
      > MaxOf(app.statedMonthlyDebt, 100)

EvaluatePolicy(app, fin) ==
    {f \in FlagCodes :
        \/ f = "OVER_LEVERAGED_REQUEST"           /\ OverLeveraged(app)
        \/ f = "LOW_EXTRACTION_CONFIDENCE"        /\ fin.confidence < 50
        \/ f = "DEBT_STATEMENT_INCONSISTENCY"     /\ DebtInconsistent(app, fin)
        \/ f = "UNEMPLOYED_APPLICANT"             /\ app.employment = "unemployed"
                                                  /\ app.requested > 0
        \/ f = "SELF_EMPLOYED_INCOME_VARIABILITY" /\ app.employment = "self_employed"}

Passed(flags) == flags \intersect BlockFlags = {}

-----------------------------------------------------------------------------
(* Routing and the outcome.                                                 *)

X_RouteOnTierOnly(risk, flags) ==
    IF risk.tier = "borderline" THEN "human_escalation" ELSE "explainability_agent"

\* requires_human_escalation is "the tier is borderline".
RouteAfterPolicy(risk, flags) ==
    IF risk.tier = "borderline" \/ ~Passed(flags)
    THEN "human_escalation" ELSE "explainability_agent"

X_OnlyPoorIsAReason(risk, flags) ==
    (IF risk.tier = "high" /\ risk.band = "poor" THEN {"POOR_CREDIT_BAND"} ELSE {})
      \union (flags \intersect (BlockFlags \union WarnFlags))

AdverseReasons(risk, flags) ==
    (IF risk.tier = "high" THEN {"DTI_EXCEEDS_THRESHOLD"} ELSE {})
      \union (IF risk.tier = "high" /\ risk.band = "poor" THEN {"POOR_CREDIT_BAND"} ELSE {})
      \union (flags \intersect (BlockFlags \union WarnFlags))

AdverseCodes == {"DTI_EXCEEDS_THRESHOLD", "POOR_CREDIT_BAND", "REVIEWER_DETERMINATION"}
                  \union BlockFlags \union WarnFlags

Approval == [outcome |-> "approved", reasons |-> {}]

Denial(reasons) == [outcome |-> "denied", reasons |-> reasons]

ReviewerDenial(risk, flags) ==
    IF AdverseReasons(risk, flags) = {} THEN Denial({"REVIEWER_DETERMINATION"})
    ELSE Denial(AdverseReasons(risk, flags))

X_WarningsDeny(risk, flags) ==
    IF risk.tier = "high" \/ flags \intersect (BlockFlags \union WarnFlags) # {}
    THEN Denial(AdverseReasons(risk, flags)) ELSE Approval

StraightThrough(risk, flags) ==
    IF risk.tier = "high" \/ ~Passed(flags)
    THEN Denial(AdverseReasons(risk, flags)) ELSE Approval

X_BlockOutranksReviewer(approve, risk, flags) ==
    IF approve /\ Passed(flags) THEN Approval ELSE ReviewerDenial(risk, flags)

\* The reviewer's word is final once there is one.
ReviewerOutcome(approve, risk, flags) ==
    IF approve THEN Approval ELSE ReviewerDenial(risk, flags)

=============================================================================
