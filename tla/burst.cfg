\* Three requests of one client whose burst is 1.
CONSTANTS
    attack = attack
    post = post
    get = get
    c1 = c1
    c2 = c2
    Requests = {attack, post, get}
    Clients = {c1, c2}
    ClientOf <- OneClient
    Attacks = {}
    Writes = {post}
    Simulations = {}
    Calls = {}
    Updates = {}
    FileConfigs <- BurstOf1
    None = None
    MaxRestarts = 0
SPECIFICATION Spec
INVARIANT BurstPerClient
