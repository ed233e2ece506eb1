SPECIFICATION FairSpec
CONSTANTS
    Leads = {l1}
    Companies = {acme}
    CompanyOf <- OneCompany
    Workers = {w1}
    Commands = {"target", "submit", "again", "confirm"}
    Legacy = {l1}
    MaxVer = 1
    MaxGen = 2
    MaxAttempts = 3
    RetryCount = 2
    Spare = 1
    MaxFaults = 1
    None = None
PROPERTIES  SuccessShown
CHECK_DEADLOCK FALSE
