SPECIFICATION FairSpec
CONSTANTS
    Bot = bot
    Workers = {w1, w2}
    Pollers = {w1}
    Exempt = TRUE
    MaxScans = 2
    MaxFaults = 1
INVARIANTS TombstoneMeansGone RecognisedOnce
PROPERTIES   MediaIsDecided
CHECK_DEADLOCK FALSE
