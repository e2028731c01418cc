\* One backend that is installed and one that is not.
CONSTANTS
    Backends = {api, cmon}
    Installed = {api}
    MAX_RETRIES = 3
    MaxRequests = 1
    MaxQuits = 1
SPECIFICATION FairSpec
INVARIANTS OnlyHastyRestartsLoseChildren OthersAreStopped
PROPERTIES FailedIsStartedAgain
\* Every child has exited and the application has ended.
CHECK_DEADLOCK FALSE
