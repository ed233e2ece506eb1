SPECIFICATION Spec
CONSTANTS
    Leads = {l1}
    Companies = {acme}
    CompanyOf <- OneCompany
    Workers = {w1, w2}
    Commands = {"target", "update"}
    Legacy = {}
    MaxVer = 3
    MaxGen = 1
    MaxAttempts = 1
    RetryCount = 1
    Spare = 0
    MaxFaults = 0
    None = None
SYMMETRY WorkerSymmetry
INVARIANTS OneUnfinishedUpdate
CHECK_DEADLOCK FALSE
