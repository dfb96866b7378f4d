CONSTANTS
    Emails = {e1}
    Requests = {r1}
    Jobs = {j1, j2}
    MaxPerDay = 1
    MaxPerWeek = 1
    MaxInvites = 2
    MaxReports = 1
    MaxOverlaps = 1
    MaxAborts = 1
SPECIFICATION FairSpec
INVARIANTS TypeOK VerifiedByConsent ReportBlocks RemindersAreBounded
PROPERTIES InvitationPromise OptOutIsFinal EveryAddressForgotten
CHECK_DEADLOCK FALSE
