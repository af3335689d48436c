SPECIFICATION Spec
CONSTANTS
  Invites = {s1}
  Emails = {x1, x2}
  Senders = {p1}
  Visits = {v1}
  MaxTokens = 2
  None = None
PROPERTIES SetupLocks
\* Setups, resends and edits are bounded, and end.
CHECK_DEADLOCK FALSE
