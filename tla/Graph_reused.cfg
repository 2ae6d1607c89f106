SPECIFICATION Spec
CONSTANTS
    DtiBorderlineLow = 3600
    DtiBorderlineHigh = 4500
    DtiHardDecline = 5500
    None = None
    Apps = {a1}
    Servers = {s1}
    Payloads <- AllCases
    Resolutions <- BothAnswers
    ProviderAnswers <- Offline
    LlmFaults = TRUE
    MaxRuns = 2
    MaxCrashes = 1
    LogCap = 3
INVARIANTS TypeOK TrailTellsThePath ReviewCasesAreReviewed AnswersAreDurable LogCoversTrail
PROPERTIES TrailOnlyGrows CompletedIsFinal ImplementsLifecycle
CHECK_DEADLOCK FALSE
