------------------------- MODULE LendingRules_proofs -------------------------
(***************************************************************************)
(* Lemmas about the operators of LendingRules, for any thresholds: what    *)
(* they return, and what they never do.                                    *)
(***************************************************************************)
EXTENDS LendingRules, TLAPS

-----------------------------------------------------------------------------
(* The rules return values of their types.                                  *)

LEMMA RoundDivNat ==
    ASSUME NEW n \in Nat, NEW d \in Nat, d > 0
    PROVE  RoundDiv(n, d) \in Nat
BY DEF RoundDiv

LEMMA AssessRiskRange ==
    ASSUME NEW app, NEW fin,
           app.statedAnnualIncome \in Nat, app.creditScore \in Int,
           fin.monthlyGross \in Nat, fin.monthlyDebt \in Nat
    PROVE  AssessRisk(app, fin) \in [dti : Nat, band : Bands, tier : Tiers]
<1> DEFINE income == Income(app, fin)
           dti    == ComputeDti(income, fin.monthlyDebt)
           band   == BandFromScore(app.creditScore)
<1>1. income.amount \in Nat /\ income.months \in {1, 12}
  BY DEF Income
<1>2. dti \in Nat
  <2>1. CASE income.amount <= 0
    BY <2>1 DEF ComputeDti
  <2>2. CASE ~(income.amount <= 0)
    <3>1. income.amount > 0
      BY <1>1, <2>2
    <3>2. 10000 * income.months * fin.monthlyDebt \in Nat
      BY <1>1
    <3> HIDE DEF income
    <3>3. RoundDiv(10000 * income.months * fin.monthlyDebt, income.amount) \in Nat
      BY <1>1, <3>1, <3>2, RoundDivNat
    <3> QED
      BY <2>2, <3>3 DEF ComputeDti
  <2> QED
    BY <2>1, <2>2
<1>3. band \in Bands
  BY DEF BandFromScore, Bands
<1>4. ClassifyRiskTier(dti, band) \in Tiers
  BY DEF ClassifyRiskTier, Tiers
<1> HIDE DEF dti, band
<1> QED
  BY <1>2, <1>3, <1>4 DEF AssessRisk, dti, band

LEMMA MockExtractionRange ==
    ASSUME NEW doc,
           doc.gross \in Nat \union {Absent, Malformed},
           doc.debt \in Nat \union {Absent, Malformed},
           ~ExtractionRaises(doc)
    PROVE  MockExtraction(doc) \in [monthlyGross : Nat, monthlyDebt : Nat, confidence : 0..100]
<1>1. doc.gross \in Nat \union {Absent} /\ doc.debt \in Nat \union {Absent}
  BY DEF ExtractionRaises, MoneyLines
<1>2. OrZero(doc.gross) \in Nat /\ OrZero(doc.debt) \in Nat
  BY <1>1 DEF OrZero, Absent
<1>3. Monthly(doc.gross, doc) \in Nat
  <2> DEFINE k == IF FrequencyFound(doc) THEN PayPeriods[FrequencyRead(doc)] ELSE 12
  <2>1. k \in Nat
    BY DEF FrequencyFound, PayPeriods
  <2>2. OrZero(doc.gross) * k \in Nat
    BY <1>2, <2>1
  <2> HIDE DEF k
  <2>3. RoundDiv(OrZero(doc.gross) * k, 12) \in Nat
    BY <2>2, RoundDivNat
  <2> QED
    BY <2>3 DEF Monthly, k
<1>4. 55 + 10 * FieldsFound(doc) \in 0..100
  BY DEF FieldsFound
<1> QED
  BY <1>2, <1>3, <1>4 DEF MockExtraction

LEMMA OutcomeType ==
    ASSUME NEW risk, NEW flags, NEW approve \in BOOLEAN
    PROVE  /\ StraightThrough(risk, flags).outcome \in Outcomes
           /\ StraightThrough(risk, flags).reasons \subseteq AdverseCodes
           /\ ReviewerOutcome(approve, risk, flags).outcome \in Outcomes
           /\ ReviewerOutcome(approve, risk, flags).reasons \subseteq AdverseCodes
           /\ ReviewerOutcome(approve, risk, flags).outcome = "approved" <=> approve
<1>1. AdverseReasons(risk, flags) \subseteq AdverseCodes
  BY DEF AdverseReasons, AdverseCodes
<1> HIDE DEF AdverseReasons, AdverseCodes
<1>2. {"REVIEWER_DETERMINATION"} \subseteq AdverseCodes
  BY DEF AdverseCodes
<1> QED
  BY <1>1, <1>2 DEF StraightThrough, ReviewerOutcome, ReviewerDenial, Approval, Denial, Outcomes

-----------------------------------------------------------------------------
(* What a denial, a route and a better band amount to.                      *)

LEMMA DenialHasReason ==
    ASSUME NEW risk, NEW flags, NEW approve
    PROVE  /\ StraightThrough(risk, flags).outcome = "denied"
                => StraightThrough(risk, flags).reasons # {}
           /\ ReviewerOutcome(approve, risk, flags).outcome = "denied"
                => ReviewerOutcome(approve, risk, flags).reasons # {}
<1>1. risk.tier = "high" \/ ~Passed(flags) => AdverseReasons(risk, flags) # {}
  BY DEF Passed, AdverseReasons
<1> HIDE DEF AdverseReasons
<1> QED
  BY <1>1 DEF StraightThrough, ReviewerOutcome, ReviewerDenial, Approval, Denial

\* The band of a score, as a rank that grows with it.
BandRank == [poor |-> 0, fair |-> 1, good |-> 2, excellent |-> 3]

LEMMA BandsGrowWithScore ==
    ASSUME NEW low \in Int, NEW high \in Int, low <= high
    PROVE  BandRank[BandFromScore(low)] <= BandRank[BandFromScore(high)]
BY DEF BandFromScore, BandRank

\* How a tier is decided without flags: review lies between the two outcomes.
TierRank(tier) == IF tier = "high" THEN 0 ELSE IF tier = "borderline" THEN 1 ELSE 2

LEMMA BetterBandBetterTier ==
    ASSUME NEW dti \in Int, NEW low \in Bands, NEW high \in Bands,
           BandRank[low] <= BandRank[high]
    PROVE  TierRank(ClassifyRiskTier(dti, low)) <= TierRank(ClassifyRiskTier(dti, high))
BY DtiThresholdsAssumption DEF Bands, BandRank, TierRank, ClassifyRiskTier

-----------------------------------------------------------------------------
(* What a larger debt does to the ratio and to the tier.                    *)

\* A rounded quotient grows with its dividend.
LEMMA RoundDivGrows ==
    ASSUME NEW a \in Nat, NEW b \in Nat, NEW d \in Nat, d > 0, a <= b
    PROVE  RoundDiv(a, d) <= RoundDiv(b, d)
<1> DEFINE qa == a \div d  ra == a % d  qb == b \div d  rb == b % d
<1>1. /\ qa \in Int /\ ra \in 0..(d - 1) /\ a = d * qa + ra
      /\ qb \in Int /\ rb \in 0..(d - 1) /\ b = d * qb + rb
  OBVIOUS
<1> HIDE DEF qa, ra, qb, rb
<1>2. qa <= qb
  <2> SUFFICES ASSUME qb + 1 <= qa PROVE FALSE
    BY <1>1
  <2>1. d * (qb + 1) <= d * qa
    BY <1>1
  <2>2. d * (qb + 1) = d * qb + d
    BY <1>1
  <2> QED
    BY <1>1, <2>1, <2>2
<1>3. CASE qa = qb
  <2>1. ra <= rb
    BY <1>1, <1>3
  <2> QED
    BY <1>1, <1>3, <2>1 DEF RoundDiv, qa, ra, qb, rb
<1>4. CASE qa < qb
  <2>1. RoundDiv(a, d) <= qa + 1
    BY <1>1 DEF RoundDiv, qa, ra
  <2>2. qb <= RoundDiv(b, d)
    BY <1>1 DEF RoundDiv, qb, rb
  <2>3. RoundDiv(a, d) \in Int /\ RoundDiv(b, d) \in Int
    BY RoundDivNat
  <2> QED
    BY <1>1, <1>4, <2>1, <2>2, <2>3
<1> QED
  BY <1>1, <1>2, <1>3, <1>4

\* More debt over the same income is no smaller a ratio.
LEMMA DtiGrowsWithDebt ==
    ASSUME NEW income, income.amount \in Nat, income.months \in {1, 12},
           NEW less \in Nat, NEW more \in Nat, less <= more
    PROVE  ComputeDti(income, less) <= ComputeDti(income, more)
<1> DEFINE n(debt) == 10000 * income.months * debt
<1>1. n(less) \in Nat /\ n(more) \in Nat /\ n(less) <= n(more)
  BY SMT
<1>2. CASE income.amount <= 0
  BY <1>2 DEF ComputeDti
<1>3. CASE ~(income.amount <= 0)
  <2>1. income.amount > 0
    BY <1>3
  <2>2. ComputeDti(income, less) = RoundDiv(n(less), income.amount)
    BY <1>3 DEF ComputeDti
  <2>3. ComputeDti(income, more) = RoundDiv(n(more), income.amount)
    BY <1>3 DEF ComputeDti
  <2> HIDE DEF n
  <2> QED
    BY <1>1, <2>1, <2>2, <2>3, RoundDivGrows
<1> QED
  BY <1>2, <1>3

\* With a readable document the request's size is the only thing that blocks.
LEMMA OnlyLeverageBlocks ==
    ASSUME NEW app, NEW fin, ~(fin.confidence < 50)
    PROVE  Passed(EvaluatePolicy(app, fin)) <=> ~OverLeveraged(app)
<1>1. EvaluatePolicy(app, fin) \intersect BlockFlags
        = {f \in {"OVER_LEVERAGED_REQUEST"} : OverLeveraged(app)}
  <2> HIDE DEF OverLeveraged, DebtInconsistent
  <2> QED
    BY DEF EvaluatePolicy, FlagCodes, BlockFlags
<1> QED
  BY <1>1 DEF Passed

\* Thresholds that leave no gap between the borderline band and the decline.
NoGap == DtiHardDecline <= DtiBorderlineHigh \/ DtiBorderlineHigh <= DtiBorderlineLow

LEMMA LargerRatioNoBetterTier ==
    ASSUME NoGap, NEW less \in Int, NEW more \in Int, less <= more, NEW band \in Bands
    PROVE  TierRank(ClassifyRiskTier(more, band)) <= TierRank(ClassifyRiskTier(less, band))
BY DtiThresholdsAssumption DEF NoGap, Bands, TierRank, ClassifyRiskTier

\* With a gap, the ratio at its lower end has a better tier than a smaller one.
LEMMA GapRewardsARatio ==
    ASSUME ~NoGap, NEW band \in {"good", "excellent"}
    PROVE  \E less \in Int, more \in Int :
              /\ less < more
              /\ TierRank(ClassifyRiskTier(less, band)) < TierRank(ClassifyRiskTier(more, band))
<1>1. DtiBorderlineLow < DtiBorderlineHigh /\ DtiBorderlineHigh < DtiHardDecline
  BY DtiThresholdsAssumption DEF NoGap
<1>2. TierRank(ClassifyRiskTier(DtiBorderlineLow, band)) = 1
  BY <1>1, DtiThresholdsAssumption DEF TierRank, ClassifyRiskTier
<1>3. TierRank(ClassifyRiskTier(DtiBorderlineHigh, band)) = 2
  BY <1>1, DtiThresholdsAssumption DEF TierRank, ClassifyRiskTier
<1>4. DtiBorderlineLow \in Int /\ DtiBorderlineHigh \in Int
  BY DtiThresholdsAssumption
<1> QED
  BY <1>1, <1>2, <1>3, <1>4
=============================================================================
