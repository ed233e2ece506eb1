SPECIFICATION FairSpec
CONSTANTS
    Bots = {"b1", "b2"}
    NMsg = 2
    Interval = 2
    Schedulers = {w1}
    MaxTime = 5
    Scenarios <- MCScenarios
    Coalesce = 1
    DayLength = 4
    Evening = 3
    Pages = 2
    LastArrival = 1
INVARIANTS OneReportPerMessage DeliveredInOrder
PROPERTIES ChainIsFrozen EverythingEnds EveryMessageAcknowledged
CHECK_DEADLOCK FALSE
