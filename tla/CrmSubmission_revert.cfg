SPECIFICATION Spec
CONSTANTS
    Leads = {l1}
    Companies = {acme}
    CompanyOf <- OneCompany
    Workers = {w1}
    Commands = {"target", "update"}
    Legacy = {}
    MaxVer = 2
    MaxGen = 1
    MaxAttempts = 1
    RetryCount = 1
    Spare = 0
    MaxFaults = 0
    None = None
PROPERTIES ChangedRowIsSent
CHECK_DEADLOCK FALSE
