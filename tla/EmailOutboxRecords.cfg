SPECIFICATION MCSpec
CONSTANTS
  w1 = w1
  w2 = w2
  i1 = i1
  i2 = i2
  None = None
  Invitations = {i1, i2}
  Workers = {w1, w2}
  EventTypes = {"delivered", "permanent_failure", "complained"}
  RetryLimit = 2
  MaxJobs = 2
SYMMETRY Symmetry
INVARIANTS TypeOK AttemptLedger OneHolder ProjectionIsReal
PROPERTIES AttemptsFinal StatusOrder
\* Once every message has settled and no resend is left there is nothing to do.
CHECK_DEADLOCK FALSE
