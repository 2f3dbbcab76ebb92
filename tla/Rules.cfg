CONSTANTS
    Calendars <- NineDays
    Moments <- NineDaysLong
    Caches <- Left
    Baskets <- Candidates
SPECIFICATION Spec
INVARIANT UnlockIsNextOpening
INVARIANT RestartFindsASession
INVARIANT MaxLossIsWorst
