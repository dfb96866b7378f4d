CONSTANTS
    Orgs = {o1, o2, o3}
    Codes = {c1, c2}
    OpenCode = c1
    Launch = Launch
    Cap <- CapOf
    Requests = {r1, r2, r3}
SYMMETRY Symmetry
SPECIFICATION Spec
INVARIANTS TypeOK OneFreePeriodPerOrg OvershootIsBounded
PROPERTIES FreePeriodPromise
CHECK_DEADLOCK FALSE
