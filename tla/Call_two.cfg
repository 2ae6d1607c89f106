SPECIFICATION FairSpec
CONSTANTS
    Threads = {t1, t2}
    FailureThreshold = 3
    RecoveryTimeout = 2
    MaxAttempts = 3
INVARIANTS TypeOK ClosedIffBelowThreshold
PROPERTIES TripsOnlyOnFailure StaysOpenForTimeout CallsEnd
