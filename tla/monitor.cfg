\* One request that a rule matches, under the posture Monitor.
CONSTANTS
    attack = attack
    post = post
    get = get
    c1 = c1
    c2 = c2
    Requests = {post}
    Clients = {c1, c2}
    ClientOf <- OneRequest
    Attacks = {post}
    Writes = {post}
    Simulations = {}
    Calls = {}
    Updates = {}
    FileConfigs <- MonitorFile
    None = None
    MaxRestarts = 0
SPECIFICATION FairSpec
PROPERTY MonitorOnlyLogs
