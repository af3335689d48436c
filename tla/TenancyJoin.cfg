SPECIFICATION FairSpec
CONSTANTS
  Requests = {r1}
  Admins = {a1}
  None = None
PROPERTIES JoinDecided
\* Registrations end, and with them everything that is left to decide.
CHECK_DEADLOCK FALSE
