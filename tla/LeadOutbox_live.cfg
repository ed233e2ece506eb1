SPECIFICATION FairSpec
CONSTANTS
    Sales = {s1}
    MaxSeq = 2
    Workers = {w1}
    MaxInFlight = 1
    RetryLimit = 1
    Stamps = {1, 2}
    MaxFaults = 1
    Kinds = {"lead", "command", "intent", "action"}
    MediaInputs = {"none", "awaiting"}
    Quotes = TRUE
    LockLoss = FALSE
    NoStamp = NoStamp
    Taken = Taken
    NoWorker = NoWorker
INVARIANTS TypeOK
PROPERTIES EventuallySettled
CHECK_DEADLOCK FALSE
