\* Fleet: two ids and two registrations are two agents, or one that is replaced
\* while an answer is being encoded.  SSE: three clients, as it takes a client
\* that leaves between two others to have a name drawn twice without a race, and
\* channels of one event, so that two events can fill one.  WebSocket: two
\* broadcasts over two connections.  Configuration: two changes and a reader.
CONSTANTS
    Ids = {i1, i2}
    Readers = {g1}
    Limit = 1
    Period = 2
    MaxTime = 4
    MaxRegistrations = 2
    MaxCommands = 1
    Conns = {k1, k2, k3}
    Events = {e1, e2}
    Capacity = 1
    Sockets = {k1, k2}
    Broadcasts = {b1, b2}
    None = None
    Calls = {m1, m2}
    Upstreams = {"u"}
    Strays = {"attack"}
    MaxRestarts = 1
SPECIFICATION MCSpec
INVARIANTS OfflineIfSilent OfflineIsShownWithCause OpenClientsHear CrashNeedsTwoBroadcasts ListedWhileServed StringsTearOnlyByOverlap
PROPERTIES HandlersGetTheLock
\* Every request has been answered, and the clock has run out.
CHECK_DEADLOCK FALSE
