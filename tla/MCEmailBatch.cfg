CONSTANTS
  confirmation = confirmation
  shipping = shipping
  welcome = welcome
  Mail = {confirmation, shipping}
  Lifecycle = {}
  Confirmation = {confirmation}
  Priority <- MailsPriority
  MaxAttempts = 3
  BatchSize = 1
  Concurrency = 1
  MaxErrors = 0
  MaxCrashes = 0
  Reports = {"OPENED"}
SPECIFICATION FairSpec
PROPERTIES EveryMailIsRun
CHECK_DEADLOCK FALSE
