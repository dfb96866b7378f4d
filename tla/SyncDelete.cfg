CONSTANTS
    Orgs = {o1}
    Subs = {s1, s2}
    Workers = {w1}
    NoJob = NoJob
    CodeHolders = {}
    Leavers = {o1}
    MaxChanges = 2
    MaxCrashes = 1
    Subscribed = {"subscription"}
SYMMETRY Symmetry
SPECIFICATION Spec
INVARIANTS DeletedOrgStopsWhatItListed NothingOutlivesItsOrg
CHECK_DEADLOCK FALSE
