SPECIFICATION Spec
CONSTANTS
  Handlers = {h1, h2}
  Wordings = {A}
  None = None
INVARIANTS DeactivatedIsHidden
\* Each request is made at most once.
CHECK_DEADLOCK FALSE
