SPECIFICATION FairSpec
CONSTANTS
    Configs <- MCConfigs
    Replicas = {w1, w2}
    Accounts = {a, b}
    AdminEmails = {a}
    MaxAttempts = 2
    MaxRequests = 2
    MaxVisits = 2
    None = None
INVARIANTS TypeOK AppOnlyAfterSuccess
PROPERTIES SignedOutIsTold NavigationEnds
CHECK_DEADLOCK FALSE
