SPECIFICATION Spec
CONSTANTS
    Clerks = {c1, c2}
    Requests = {r1, r2, r3, r4}
    Leads = {x, y}
    Menus <- MCMenus
    Quota <- MCQuota
    MaxFaults = 2
    Sales = {ann, bob}
    FirstOwner = ann
    Twins = {}
    Elsewhere = Elsewhere
    Moved = x
    Made = x
    MaxAttempts = 3
    Pipeline = Pipeline
    Old = old
    First = first
    Later = {new, None}
    Hand = Hand
    Blank = Blank
    Gone = Gone
    None = None
SYMMETRY Interchangeable
INVARIANTS  CreatedLeadHasItsRow SeenValueKept EditsAreHuman
 
CHECK_DEADLOCK FALSE
