SPECIFICATION Spec
CONSTANTS
    Leads = {l1}
    Companies = {acme}
    CompanyOf <- OneCompany
    Workers = {w1, w2}
    Commands = {"target", "update"}
    Legacy = {}
    MaxVer = 2
    MaxGen = 1
    MaxAttempts = 2
    RetryCount = 2
    Spare = 0
    MaxFaults = 1
    None = None
SYMMETRY WorkerSymmetry
INVARIANTS TypeOK OnePayloadPerKey OneCurrentClaim CrmFactBeatsDiscard
PROPERTIES SucceededIsFinal
CHECK_DEADLOCK FALSE
