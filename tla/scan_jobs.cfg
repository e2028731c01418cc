\* Two scans can meet, overlap and displace one another, and a reader of their
\* reports comes between any two steps, before or after a crash.
CONSTANTS
    Requests = {r1, r2}
    Readers = {q1}
    None = None
    MaxFindings = 1
    MaxCrashes = 1
SPECIFICATION RFairSpec
INVARIANTS OnlyDisplacedScansOverlap RunningRowIsWorkedOn CompletedScanHasFindings ReportsAreComplete StatsMixOnlyByNewScan
PROPERTIES SlotIsFreed
\* Every request has been answered.
CHECK_DEADLOCK FALSE
