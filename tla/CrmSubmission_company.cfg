SPECIFICATION Spec
CONSTANTS
    Leads = {l1, l2}
    Companies = {acme}
    CompanyOf <- OneCompany
    Workers = {w1, w2}
    Commands = {"submit", "confirm"}
    Legacy = {l1}
    MaxVer = 1
    MaxGen = 1
    MaxAttempts = 2
    RetryCount = 2
    Spare = 0
    MaxFaults = 0
    None = None
SYMMETRY WorkerSymmetry
INVARIANTS OneCreatorPerCompany
CHECK_DEADLOCK FALSE
