\* Two writers, a reader of all pages and one that lists the blacklist beside
\* it, two kinds of incident, one address; at most three of writers that came,
\* busy readers and faults.
CONSTANTS
    Writers = {w1, w2}
    r1 = r1
    r2 = r2
    Readers = {r1, r2}
    Asks <- TwoAsks
    Bodies <- Reported
    IPs = {"10.0.0.9"}
    None = None
    MaxLoad = 3
SPECIFICATION FairSpec
INVARIANTS FiguresWereTrue SeveritiesCoverTotal CounterMatchesTable BlacklistAnswersAddUp
PROPERTIES EveryRequestAnswered
\* The load is used up, and every request has been answered.
CHECK_DEADLOCK FALSE
