CONSTANTS
    Emails = {e1, e2, e3}
    Requests = {r1, r2}
    Jobs = {}
    MaxPerDay = 1
    MaxPerWeek = 2
    MaxInvites = 3
    MaxReports = 0
    MaxOverlaps = 0
    MaxAborts = 0
SYMMETRY Symmetry
SPECIFICATION Spec
INVARIANTS QuotasAreBounded
CHECK_DEADLOCK FALSE
