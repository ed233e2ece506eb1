SPECIFICATION FairSpec
CONSTANTS
    Kinds = {"field", "duplicate", "batch", "company", "discard", "reassign"}
    Leads = {"l1", "l2"}
    Target = "l1"
    Workers = {w1, w2}
    MaxClicks = 2
    MaxTasks = 2
    MaxFaults = 1
INVARIANTS OneDomainRun RefusedHasNoEffect SuccessCoversSelection
PROPERTIES ClicksAreDecided KeepsPromise
CHECK_DEADLOCK FALSE
