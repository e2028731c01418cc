\* Two requests are enough for two scans at once.
CONSTANTS
    Requests = {r1, r2}
    None = None
    MaxFindings = 1
    MaxCrashes = 0
SPECIFICATION Spec
INVARIANT OneScanAtATime
CHECK_DEADLOCK FALSE
