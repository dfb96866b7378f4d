CONSTANTS
    Orgs = {o1}
    Subs = {s1}
    Workers = {w1}
    NoJob = NoJob
    CodeHolders = {}
    Leavers = {}
    MaxChanges = 2
    MaxCrashes = 1
    Subscribed = {"subscription", "session", "invoice"}
SPECIFICATION Spec
INVARIANTS AckedIsApplied
CHECK_DEADLOCK FALSE
