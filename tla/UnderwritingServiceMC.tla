----------------------- MODULE UnderwritingServiceMC -----------------------
(***************************************************************************)
(* UnderwritingService on the cases of UnderwritingGraphMC: a readable     *)
(* document, one that lacks a line, one that goes to a reviewer and one    *)
(* that cannot be read.                                                    *)
(***************************************************************************)
EXTENDS UnderwritingService, UnderwritingGraphMC

\* No EXISTING_MONTHLY_DEBT line.
NoDebtLine == Case(600000, 760, Stub(20000, Absent))

ServiceCases == {NoDebtLine, Borderline, Commas}
=============================================================================
