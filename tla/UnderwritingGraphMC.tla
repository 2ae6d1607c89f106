------------------------- MODULE UnderwritingGraphMC -------------------------
(***************************************************************************)
(* Values for the constants of UnderwritingGraph: one application for each *)
(* way a case can go, and reviewers of both minds.                         *)
(***************************************************************************)
EXTENDS UnderwritingCases

Stub(gross, debt) == [frequency |-> "monthly", gross |-> gross, net |-> 0, debt |-> debt]

Case(requested, score, document) ==
    [statedAnnualIncome |-> 240000, statedMonthlyDebt |-> 2000, requested |-> requested,
     creditScore |-> score, employment |-> "employed_full_time", document |-> document]

\* Low tier: approved by the rules, with a WARN flag for its debt figure.
Clean == Case(600000, 760, Stub(20000, 4000))
\* High tier and no blocking flag: denied by the rules.
Poor == Case(600000, 500, Stub(20000, 2000))
\* Borderline ratio: goes to a reviewer.
Borderline == Case(600000, 760, Stub(20000, 8000))
\* Low tier, but the request is more than five stated incomes.
Leveraged == Case(1200001, 760, Stub(20000, 2000))
\* A figure of only commas: extraction raises every time.
Commas == Case(600000, 760, Stub(20000, Malformed))

FourCases == {Clean, Poor, Borderline, Leveraged}
AllCases  == {Clean, Poor, Borderline, Leveraged, Commas}
TwoCases  == {Clean, Borderline}
OneCase   == {Clean}

Approve == [reviewer |-> "human_reviewer:ann", approve |-> TRUE]
Refuse  == [reviewer |-> "human_reviewer:bob", approve |-> FALSE]
BothAnswers == {Approve, Refuse}
OneAnswer   == {Approve}

Offline == {}

\* What a hosted model may report: good, doubtful, borderline and bad financials.
Hosted == {[monthlyGross |-> 20000, monthlyDebt |-> 4000, confidence |-> 90],
           [monthlyGross |-> 20000, monthlyDebt |-> 2000, confidence |-> 49],
           [monthlyGross |-> 20000, monthlyDebt |-> 8000, confidence |-> 90],
           [monthlyGross |-> 20000, monthlyDebt |-> 12000, confidence |-> 90]}
=============================================================================
