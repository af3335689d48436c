SPECIFICATION Spec
CONSTANTS
  w1 = w1
  w2 = w2
  i1 = i1
  i2 = i2
  None = None
  Invitations = {i1}
  Workers = {w1}
  EventTypes = {"delivered"}
  RetryLimit = 1
  MaxJobs = 2
PROPERTIES EventsKeepGeneration
\* Once every message has settled and no resend is left there is nothing to do.
CHECK_DEADLOCK FALSE
