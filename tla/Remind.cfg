CONSTANTS
    Orgs = {o1}
    Leavers = {o1}
    Lengths = {"far", "7"}
    Jobs = {j1, j2}
    Hooks = {h1}
    MaxAborts = 1
    MaxFailures = 1
SPECIFICATION FairSpec
INVARIANTS TypeOK DuplicatesAreBounded
PROPERTIES NoYearCutShort FreePeriodPromise EndedYearIsTold
CHECK_DEADLOCK FALSE
