\* One request against two management calls, the dashboard and a restart.
CONSTANTS
    attack = attack
    post = post
    get = get
    c1 = c1
    c2 = c2
    Requests = {post}
    Clients = {c1, c2}
    ClientOf <- OneRequest
    Attacks = {}
    Writes = {post}
    Simulations = {}
    Calls = {m1, m2}
    Updates <- ConfigUpdates
    FileConfigs <- ConfigFiles
    None = None
    MaxRestarts = 1
SPECIFICATION FairSpec
INVARIANTS PersistedIsInForce UnderAttackHolds
PROPERTIES RequestsAreDecided
