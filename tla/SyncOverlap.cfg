CONSTANTS
    Orgs = {o1}
    Subs = {s1}
    Workers = {w1, w2}
    NoJob = NoJob
    CodeHolders = {o1}
    Leavers = {}
    MaxChanges = 2
    MaxCrashes = 1
    Subscribed = {"subscription", "session", "invoice"}
SYMMETRY Symmetry
SPECIFICATION Spec
INVARIANTS TypeOK RowsMirrorStripe AppliedAtMostOnce LossesAreCounted HandledLeavesARow RowsAreBounded
PROPERTIES FreePeriodPromise TakeOverKeepsAccess
CHECK_DEADLOCK FALSE
