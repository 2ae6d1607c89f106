SPECIFICATION Spec
CONSTANTS
    DtiBorderlineLow = 3600
    DtiBorderlineHigh = 4500
    DtiHardDecline = 5500
    Frequencies = {"monthly", "biweekly", "unrecognised", "absent"}
    GrossFigures = {0, 30000}
    DebtFigures = {0, 10798, 10799, 13498, 13499, 16498, 16499, 17400}
    StatedIncomes = {0, 120000, 360000}
    StatedDebts = {0, 26, 14000}
    Requests = {600000, 600001}
    Scores = {579, 580, 670, 740}
    EmploymentCases = {"employed_full_time", "unemployed"}
    Answers = {TRUE, FALSE}
PROPERTIES MoreDebtNeverHelps
