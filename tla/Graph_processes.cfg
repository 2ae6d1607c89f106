SPECIFICATION Spec
CONSTANTS
    DtiBorderlineLow = 3600
    DtiBorderlineHigh = 4500
    DtiHardDecline = 5500
    None = None
    Apps = {a1}
    Servers = {s1, s2}
    Payloads <- OneCase
    Resolutions <- OneAnswer
    ProviderAnswers <- Hosted
    LlmFaults = TRUE
    MaxRuns = 1
    MaxCrashes = 1
    LogCap = 2
INVARIANTS TrailTellsThePath ReviewCasesAreReviewed OtherCasesAreAutomatic LogCoversTrail
CHECK_DEADLOCK FALSE
