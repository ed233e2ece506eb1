SPECIFICATION Spec
CONSTANTS
    Sales = {s1}
    MaxSeq = 2
    Workers = {w1, w2}
    MaxInFlight = 2
    RetryLimit = 1
    Stamps = {1, 2}
    MaxFaults = 2
    Kinds = {"lead"}
    MediaInputs = {"none"}
    Quotes = FALSE
    LockLoss = TRUE
    NoStamp = NoStamp
    Taken = Taken
    NoWorker = NoWorker
SYMMETRY WorkerSymmetry
INVARIANTS OneWorkerPerSales SingleRunner FirstVerdictsInOrder 
PROPERTIES NoReplayAfterLostRun 
CHECK_DEADLOCK FALSE
