SPECIFICATION FairSpec
CONSTANTS
  t1 = t1  t2 = t2  c1 = c1  q1 = q1  q2 = q2  s1 = s1  a1 = a1  h1 = h1  h2 = h2
  Null = Null
  Insufficient = Insufficient
  Turns = {t1, t2}
  Convs = {c1}
  Queries = {q1, q2}
  Sources = {s1}
  Answers = {Insufficient}
  Handlers = {h1, h2}
  Tokens = {1, 2, 3, 4, 5, 6}
  Requests <- TwoTurns
  MaxFaults = 1
  MaxChanges = 1
  MaxRaw = 0
PROPERTY Recovers
