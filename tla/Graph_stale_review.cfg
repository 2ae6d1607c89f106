SPECIFICATION Spec
CONSTANTS
    DtiBorderlineLow = 3600
    DtiBorderlineHigh = 4500
    DtiHardDecline = 5500
    None = None
    Apps = {a1}
    Servers = {s1}
    Payloads <- AllCases
    Resolutions <- BothAnswers
    ProviderAnswers <- Offline
    LlmFaults = FALSE
    MaxRuns = 2
    MaxCrashes = 0
    LogCap = 3
INVARIANTS OtherCasesAreAutomatic
CHECK_DEADLOCK FALSE
