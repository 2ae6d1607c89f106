    SPECIFICATION FairSpec
CONSTANTS
    DtiBorderlineLow = 3600
    DtiBorderlineHigh = 4500
    DtiHardDecline = 5500
    None = None
    Apps = {a1}
    Servers = {s1}
    Payloads <- AllCases
    Resolutions <- BothAnswers
    ProviderAnswers <- Offline
    LlmFaults = FALSE
    MaxRuns = 2
    MaxCrashes = 0
    LogCap = 1
PROPERTIES SubmissionsSettle ReviewsComplete HandlersEnd
CHECK_DEADLOCK FALSE
