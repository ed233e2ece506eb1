SPECIFICATION FairSpec
CONSTANTS
    Leads = {1, 2, 3}
    Messages = {1, 2, 3}
    About <- MCAbout
    Plain = {2}
    BatchSize = 2
    RetryCount = 1
    Flushers = {f1, f2}
    MaxFaults = 2
INVARIANTS OneRowPerLead 
 
CHECK_DEADLOCK FALSE
