SPECIFICATION FairServiceSpec
CONSTANTS
    DtiBorderlineLow = 3600
    DtiBorderlineHigh = 4500
    DtiHardDecline = 5500
    None = None
    Apps = {a1, a2}
    Servers = {s1}
    Payloads <- ServiceCases
    Resolutions <- OneAnswer
    ProviderAnswers <- Offline
    LlmFaults = TRUE
    MaxRuns = 1
    MaxCrashes = 1
    LogCap = 0
    FailureThreshold = 3
    RecoveryTimeout = 2
    MaxAttempts = 3
INVARIANTS ServiceTypeOK FailureOpensBreaker FailsOnlyForCause ReadableFailsByRefusalOnly
PROPERTIES ServedOnceCooledDown RequestsEnd
CHECK_DEADLOCK FALSE
