SPECIFICATION LiveSpec
CONSTANTS
  Mails = {"m1"}
  Expiring = {"m1"}
  Workers = {w1, w2, w3}
  BatchSize = 1
  MaxAttempts = 2
  MaxFaults = 4
CHECK_DEADLOCK FALSE
INVARIANT CopiesCostFaults
PROPERTIES ImplementsQueue MailSettles
