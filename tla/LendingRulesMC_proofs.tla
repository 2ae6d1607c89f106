------------------------ MODULE LendingRulesMC_proofs ------------------------
(***************************************************************************)
(* The properties of LendingRulesMC, for any thresholds and any amounts.   *)
(***************************************************************************)
EXTENDS LendingRulesMC, LendingRules_proofs

Applicants ==
    [statedAnnualIncome : StatedIncomes, statedMonthlyDebt : StatedDebts,
     requested : Requests, creditScore : Scores, employment : EmploymentCases]

Stubs ==
    [frequency : Frequencies, gross : GrossFigures \union {Absent},
     net : {Absent}, debt : DebtFigures \union {Absent}]

CaseInv == app \in Applicants /\ doc \in Stubs

LEMMA CaseInvariant == Spec => []CaseInv
<1>1. Init => CaseInv
  BY DEF Init, CaseInv, Applicants, Stubs
<1>2. CaseInv /\ [Next]_vars => CaseInv'
  BY DEF CaseInv, Applicants, Stubs, Next, OtherScore, OtherExtractedDebt, vars
<1> QED
  BY <1>1, <1>2, PTL DEF Spec

\* What the rules compute for a case is of its type.
LEMMA CaseTypes ==
    ASSUME CaseInv
    PROVE  /\ fin.monthlyGross \in Nat /\ fin.monthlyDebt \in Nat
           /\ app.statedAnnualIncome \in Nat /\ app.statedMonthlyDebt \in Nat
           /\ app.creditScore \in Int
           /\ risk \in [dti : Nat, band : Bands, tier : Tiers]
<1>1. /\ app.statedAnnualIncome \in Nat /\ app.statedMonthlyDebt \in Nat
      /\ app.creditScore \in Int
  BY LendingRulesMCAssumption DEF CaseInv, Applicants
<1>2. doc.gross \in Nat \union {Absent} /\ doc.debt \in Nat \union {Absent} /\ doc.net = Absent
  BY LendingRulesMCAssumption DEF CaseInv, Stubs
<1>3. ~ExtractionRaises(doc)
  BY <1>2 DEF ExtractionRaises, MoneyLines, Absent, Malformed
<1>4. fin \in [monthlyGross : Nat, monthlyDebt : Nat, confidence : 0..100]
  BY <1>2, <1>3, MockExtractionRange DEF fin
<1>5. fin.monthlyGross \in Nat /\ fin.monthlyDebt \in Nat
  BY <1>4
<1> HIDE DEF fin
<1>6. risk \in [dti : Nat, band : Bands, tier : Tiers]
  BY <1>1, <1>5, AssessRiskRange DEF risk
<1> QED
  BY <1>1, <1>5, <1>6

\* For any thresholds and amounts, a denial has a reason (determine_outcome).
THEOREM DenialNamesAReasonCorrect == Spec => []DenialNamesAReason
<1>1. DenialNamesAReason
  BY DenialHasReason DEF DenialNamesAReason, Disposition
<1> QED
  BY <1>1, PTL

\* For any amounts, a missing debt line is flagged (evaluate_policy).
THEOREM MissingDebtLineIsFlaggedCorrect == Spec => []MissingDebtLineIsFlagged
<1>1. CaseInv => MissingDebtLineIsFlagged
  <2> SUFFICES ASSUME CaseInv, doc.debt = Absent, app.statedMonthlyDebt > 25
               PROVE  "DEBT_STATEMENT_INCONSISTENCY" \in flags
    BY DEF MissingDebtLineIsFlagged
  <2>1. app.statedMonthlyDebt \in Nat
    BY CaseTypes
  <2>2. fin.monthlyDebt = 0
    BY DEF fin, MockExtraction, OrZero
  <2>3. DebtInconsistent(app, fin)
    BY <2>1, <2>2 DEF DebtInconsistent, AbsDiff, MaxOf
  <2> QED
    BY <2>3 DEF flags, EvaluatePolicy, FlagCodes, WarnFlags
<1> QED
  BY <1>1, CaseInvariant, PTL

\* For any thresholds and amounts, the rules decide settled cases only
\* (classify_risk_tier, route_after_policy).
THEOREM AutomaticOnlyWhenSettledCorrect == Spec => []AutomaticOnlyWhenSettled
<1>1. CaseInv => AutomaticOnlyWhenSettled
  <2> SUFFICES ASSUME CaseInv, Disposition # "review"
               PROVE  /\ ~OverLeveraged(app)
                      /\ \/ risk.dti >= DtiHardDecline
                         \/ risk.band = "poor"
                         \/ /\ risk.band # "fair"
                            /\ risk.dti \notin DtiBorderlineLow .. (DtiBorderlineHigh - 1)
    BY DEF AutomaticOnlyWhenSettled
  <2>1. risk.tier # "borderline" /\ Passed(flags)
    BY DEF Disposition, route, RouteAfterPolicy
  <2>2. ~OverLeveraged(app)
    BY <2>1 DEF Passed, flags, EvaluatePolicy, FlagCodes, BlockFlags
  <2>3. risk.dti \in Int /\ risk.tier = ClassifyRiskTier(risk.dti, risk.band)
    BY CaseTypes DEF risk, AssessRisk
  <2> HIDE DEF risk
  <2>4. \/ risk.dti >= DtiHardDecline
        \/ risk.band = "poor"
        \/ /\ risk.band # "fair"
           /\ risk.dti \notin DtiBorderlineLow .. (DtiBorderlineHigh - 1)
    BY <2>1, <2>3, DtiThresholdsAssumption DEF ClassifyRiskTier
  <2> QED
    BY <2>2, <2>4
<1> QED
  BY <1>1, CaseInvariant, PTL

\* The standing of a case, from its tier and its flags.
StandingOf(r, f) == IF Passed(f) THEN TierRank(r.tier) ELSE 1

LEMMA StandingIs ==
    /\ Standing[Disposition] = StandingOf(risk, flags)
    /\ Standing[Disposition'] = StandingOf(risk', flags')
<1> HIDE DEF risk, flags
<1>1. Standing[Disposition] = StandingOf(risk, flags)
  BY DEF Standing, Disposition, route, StandingOf, TierRank, RouteAfterPolicy,
         StraightThrough, Denial, Approval
<1>2. Standing[Disposition'] = StandingOf(risk', flags')
  BY DEF Standing, Disposition, route, StandingOf, TierRank, RouteAfterPolicy,
         StraightThrough, Denial, Approval
<1> QED
  BY <1>1, <1>2

\* For any thresholds, however they are ordered, and any amounts, a better score
\* never makes a disposition worse (classify_risk_tier, _band_from_score).
THEOREM BetterScoreNeverHurtsCorrect == Spec => BetterScoreNeverHurts
<1>1. ASSUME CaseInv, CaseInv', doc' = doc,
             app' = [app EXCEPT !.creditScore = app'.creditScore],
             app'.creditScore >= app.creditScore
      PROVE  Standing[Disposition'] >= Standing[Disposition]
  <2>1. /\ app'.statedAnnualIncome = app.statedAnnualIncome
        /\ app'.statedMonthlyDebt = app.statedMonthlyDebt
        /\ app'.requested = app.requested /\ app'.employment = app.employment
        /\ app.creditScore \in Int /\ app'.creditScore \in Int
    <3>1. /\ app'.statedAnnualIncome = app.statedAnnualIncome
          /\ app'.statedMonthlyDebt = app.statedMonthlyDebt
          /\ app'.requested = app.requested /\ app'.employment = app.employment
      BY <1>1 DEF CaseInv, Applicants
    <3>2. app.creditScore \in Int /\ app'.creditScore \in Int
      BY <1>1, LendingRulesMCAssumption DEF CaseInv, Applicants
    <3> QED
      BY <3>1, <3>2
  <2>2. fin' = fin
    BY <1>1 DEF fin
  <2>3. flags' = flags
    BY <2>1, <2>2 DEF flags, EvaluatePolicy, OverLeveraged, DebtInconsistent
  <2>4. /\ risk'.dti = risk.dti
        /\ risk.band = BandFromScore(app.creditScore)
        /\ risk'.band = BandFromScore(app'.creditScore)
        /\ risk.tier = ClassifyRiskTier(risk.dti, risk.band)
        /\ risk'.tier = ClassifyRiskTier(risk'.dti, risk'.band)
    BY <2>1, <2>2 DEF risk, AssessRisk, Income
  <2>5. risk.dti \in Int /\ risk.band \in Bands
    BY <1>1, CaseTypes
  <2> HIDE DEF risk, flags, fin
  <2>6. risk'.band \in Bands
    BY <2>1, <2>4 DEF BandFromScore, Bands
  <2>7. BandRank[risk.band] <= BandRank[risk'.band]
    BY <1>1, <2>1, <2>4, BandsGrowWithScore
  <2>8. TierRank(risk.tier) <= TierRank(risk'.tier)
    BY <2>4, <2>5, <2>6, <2>7, BetterBandBetterTier
  <2>9. StandingOf(risk, flags) <= StandingOf(risk', flags')
    BY <2>3, <2>8 DEF StandingOf, TierRank
  <2>10. StandingOf(risk, flags) \in Int /\ StandingOf(risk', flags') \in Int
    BY DEF StandingOf, TierRank
  <2> QED
    BY <2>9, <2>10, StandingIs
<1>2. CaseInv /\ CaseInv' /\ [Next]_vars
        => [ (app' = [app EXCEPT !.creditScore = app'.creditScore] /\ doc' = doc
                /\ app'.creditScore >= app.creditScore)
             => Standing[Disposition'] >= Standing[Disposition] ]_vars
  BY <1>1
<1> QED
  BY <1>2, CaseInvariant, PTL DEF Spec, BetterScoreNeverHurts

\* For any amounts, and for thresholds with no gap above the borderline band,
\* more debt never improves a disposition (compute_dti, classify_risk_tier): the
\* gap is the only thing that makes the default settings break the property.
THEOREM MoreDebtNeverHelpsCorrect ==
    ASSUME NoGap PROVE Spec => MoreDebtNeverHelps
<1>1. ASSUME CaseInv, CaseInv', app' = app,
             doc' = [doc EXCEPT !.debt = doc'.debt],
             OrZero(doc'.debt) >= OrZero(doc.debt)
      PROVE  Standing[Disposition'] <= Standing[Disposition]
  <2>1. /\ doc'.gross = doc.gross /\ doc'.net = doc.net /\ doc'.frequency = doc.frequency
        /\ doc.debt \in Nat \union {Absent} /\ doc'.debt \in Nat \union {Absent}
    BY <1>1, LendingRulesMCAssumption DEF CaseInv, Stubs
  <2>2. fin'.monthlyGross = fin.monthlyGross
    BY <2>1 DEF fin, MockExtraction, Monthly, FrequencyFound, FrequencyRead
  <2>3. /\ fin.monthlyDebt = OrZero(doc.debt) /\ fin'.monthlyDebt = OrZero(doc'.debt)
        /\ fin.monthlyDebt \in Nat /\ fin'.monthlyDebt \in Nat
    BY <2>1 DEF fin, MockExtraction, OrZero, Absent
  <2>4. fin.monthlyDebt <= fin'.monthlyDebt
    BY <1>1, <2>3
  <2>5. ~(fin.confidence < 50) /\ ~(fin'.confidence < 50)
    BY DEF fin, MockExtraction, FieldsFound
  <2>6. Passed(flags) <=> Passed(flags')
    <3> HIDE DEF fin
    <3>1. flags = EvaluatePolicy(app, fin) /\ flags' = EvaluatePolicy(app, fin')
      BY <1>1 DEF flags
    <3> QED
      BY <2>5, <3>1, OnlyLeverageBlocks
  <2>7. risk.dti <= risk'.dti
    <3>1. Income(app, fin)' = Income(app, fin)
      BY <1>1, <2>2 DEF Income
    <3>2. Income(app, fin).amount \in Nat /\ Income(app, fin).months \in {1, 12}
      BY <1>1, CaseTypes DEF Income
    <3>3. /\ risk.dti = ComputeDti(Income(app, fin), fin.monthlyDebt)
          /\ risk'.dti = ComputeDti(Income(app, fin), fin'.monthlyDebt)
      BY <3>1 DEF risk, AssessRisk
    <3> QED
      BY <2>3, <2>4, <3>2, <3>3, DtiGrowsWithDebt
  <2>8. /\ risk'.band = risk.band
        /\ risk.tier = ClassifyRiskTier(risk.dti, risk.band)
        /\ risk'.tier = ClassifyRiskTier(risk'.dti, risk.band)
    BY <1>1 DEF risk, AssessRisk
  <2>9. risk.dti \in Int /\ risk.band \in Bands
    BY <1>1, CaseTypes
  <2>10. risk'.dti \in Int
    <3>1. /\ risk' = AssessRisk(app, fin')
          /\ app.statedAnnualIncome \in Nat /\ app.creditScore \in Int
          /\ fin'.monthlyGross \in Nat
      BY <1>1, <2>2, CaseTypes DEF risk
    <3> HIDE DEF fin, risk
    <3>2. AssessRisk(app, fin') \in [dti : Nat, band : Bands, tier : Tiers]
      BY <2>3, <3>1, AssessRiskRange
    <3> QED
      BY <3>1, <3>2
  <2> HIDE DEF risk, flags, fin
  <2>11. TierRank(risk'.tier) <= TierRank(risk.tier)
    BY <2>7, <2>8, <2>9, <2>10, LargerRatioNoBetterTier
  <2>12. StandingOf(risk', flags') <= StandingOf(risk, flags)
    BY <2>6, <2>11 DEF StandingOf, TierRank
  <2>13. StandingOf(risk, flags) \in Int /\ StandingOf(risk', flags') \in Int
    BY DEF StandingOf, TierRank
  <2> QED
    BY <2>12, <2>13, StandingIs
<1>2. CaseInv /\ CaseInv' /\ [Next]_vars
        => [ (doc' = [doc EXCEPT !.debt = doc'.debt] /\ app' = app
                /\ OrZero(doc'.debt) >= OrZero(doc.debt))
             => Standing[Disposition'] <= Standing[Disposition] ]_vars
  BY <1>1
<1> QED
  BY <1>2, CaseInvariant, PTL DEF Spec, MoreDebtNeverHelps
=============================================================================
