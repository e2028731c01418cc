\* Two requests of one client, a simulated attack and the dashboard; the configuration only
\* changes at a restart.
CONSTANTS
    attack = attack
    post = post
    get = get
    c1 = c1
    c2 = c2
    Requests = {attack, get}
    Clients = {c1, c2}
    ClientOf <- TwoRequests
    Attacks = {attack}
    Writes = {}
    Simulations = {s1}
    Calls = {}
    Updates = {}
    FileConfigs <- RecordFiles
    None = None
    MaxRestarts = 1
SPECIFICATION Spec
INVARIANTS RecordsMatchAnswers DashboardAgrees
