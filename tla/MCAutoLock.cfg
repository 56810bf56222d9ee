\* Periods in the order of the code's, poll < watchdog < TTL.  A window of 9 is
\* one past MAX_WINDOW_MINUTES.
SPECIFICATION Spec
CONSTANTS
    WatchdogPeriod = 2
    PollPeriod = 1
    ProbeMax = 1
    PendingTTL = 3
    MaxWindow = 4
    Minutes = {0, 2, 9}
    Horizon = 3
    None = None
INVARIANTS
    TypeOK
    AbandonedPromptIsWiped
    IdleLockIsTimely
    ScreenLockIsTimely
    SwitchStartsAfresh
    StaleObservationIsDropped
