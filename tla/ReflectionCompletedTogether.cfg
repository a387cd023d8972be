CONSTANTS
  Requests = {r1, r2}
  Drafters = {d1, d2}
  Markdowns = {m1, m2}
  Axes = {x}
  Answers = {a}
  r1 = r1
  r2 = r2
  d1 = d1
  d2 = d2
  x = x
  a = a
  m1 = m1
  m2 = m2
  None = None
  SoftStopAnswers = 1
  NormalCap = 2
  AbsoluteCap = 3
  MaxConfirmed = 3
SPECIFICATION ReflectionSpec
SYMMETRY Symmetry
INVARIANT CompletedTogether
CHECK_DEADLOCK FALSE
