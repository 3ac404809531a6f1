CONSTANTS
  MaxCalls = 2
  Endpoint = {p1, p2}
  MaxAttempts = 2
  MaxChanges = 2
  MaxEdits = 1
  MaxFaults = 2
SPECIFICATION FairSpec
INVARIANTS WebhooksTypeOK PayloadNotOlder CopiesBounded
PROPERTIES ReportsKept ReportIsTaken LatestIsKnown
CHECK_DEADLOCK FALSE
