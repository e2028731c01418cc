\* Three callers: two can close the lock cycle while a third is behind it.
CONSTANTS
    None = None
    Callers = {c1, c2, c3}
    Configs <- MCConfigs
    MaxFailures = 3
SPECIFICATION FairSpec
INVARIANTS StuckOnlyByLockInversion
PROPERTIES BreakerImplemented CallsReturn
\* The two lock orders really deadlock.
CHECK_DEADLOCK FALSE
