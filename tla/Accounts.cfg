SPECIFICATION MCSpec
CONSTANTS
  None = None
  Enrolled = {s1}
  Emails = {x1, x2}
  Senders = {p1, p2}
  Visits = {v1, v2}
  MaxLinks = 3
  MaxTokens = 1
  Invites = {i1, i2}
  Requests = {x1, x2}
  Self = Self
  Admins = {a1}
  Callers = {1, 2, 3, 4}
  a = a
  b = b
  all = all
  Scopes <- MCScopes
  Charges <- MCCharges
  Limit <- MCLimit
  Window = 2
  MaxTime = 4
SYMMETRY Symmetry
INVARIANTS
  TypesOK AskedOnce AccountTraced ConfirmedAfterAcceptance AcceptedIsRecoverable
  SentIsCurrent AcceptedFits
  RegisteredStays FailureLeavesNothing
  WindowKept RetryIsEnough
PROPERTIES GrantConsumesInvitation OldLinkIsDead
\* Registrations, setups and arrivals are bounded, and end.
CHECK_DEADLOCK FALSE
