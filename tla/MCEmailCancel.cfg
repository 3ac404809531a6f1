CONSTANTS
  confirmation = confirmation
  shipping = shipping
  welcome = welcome
  Mail = {confirmation, welcome}
  Lifecycle = {welcome}
  Confirmation = {confirmation}
  Priority <- MailsPriority
  MaxAttempts = 2
  BatchSize = 2
  Concurrency = 1
  MaxErrors = 0
  MaxCrashes = 0
  Reports = {"OPENED"}
SPECIFICATION Spec
INVARIANTS ConfirmationNotCancelled
CHECK_DEADLOCK FALSE
