SPECIFICATION MCSpec
CONSTANTS
  Calls = {c1, c2}
  Runs = {r1, r2}
  First = r1
  Parts = {1, 2}
  Handlers = {h1, h2, h3}
  Wordings = {A, B}
  Codes = {code1, code2}
  Sources = {s1, s2}
  Chunks = {k1, k2}
  GlobalLimit = 2
  CodeLimit = 1
  CodeOf <- MCCodeOf
  SourceOf <- MCSourceOf
  MaxChanges = 2
  code1 = code1
  s1 = s1
  s2 = s2
  k1 = k1
  k2 = k2
  None = None
SYMMETRY Symmetry
INVARIANTS
  TypesOK Settled
  CurrentWhenSerial LinearHistory FilesAccounted
  PlacesExact QuotesPublic
PROPERTIES FrozenInReview
CHECK_DEADLOCK FALSE
