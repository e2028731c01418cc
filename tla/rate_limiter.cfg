\* A burst of 2 and half a token per tick: a bucket is empty, part full, full
\* and capped within 5 ticks, and the two keys are at different points.
CONSTANTS
    Keys = {k1, k2}
    Burst = 2
    Cost = 2
    Refill = 1
    Absent = Absent
    MaxTime = 5
SPECIFICATION Spec
INVARIANTS AdmissionsBounded NothingOvercharged
CHECK_DEADLOCK TRUE
SYMMETRY KeySymmetry
