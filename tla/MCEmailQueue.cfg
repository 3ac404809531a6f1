CONSTANTS
  confirmation = confirmation
  shipping = shipping
  welcome = welcome
  Mail = {confirmation, welcome}
  Lifecycle = {welcome}
  Confirmation = {confirmation}
  Priority <- MailsPriority
  MaxAttempts = 2
  BatchSize = 2
  Concurrency = 1
  MaxErrors = 1
  MaxCrashes = 1
  Reports = {"OPENED"}
SPECIFICATION FairSpec
INVARIANTS EmailTypeOK SentOncePerRun RunLeavesVerdict
PROPERTIES NeverSentWhileCancelled MailsKept EveryMailIsRun
CHECK_DEADLOCK FALSE
