CONSTANTS
  Requests = {r1}
  Drafters = {d1}
  Markdowns = {m1}
  Axes = {x, y}
  Answers = {a}
  r1 = r1
  d1 = d1
  x = x
  y = y
  a = a
  m1 = m1
  None = None
  SoftStopAnswers = 4
  NormalCap = 8
  AbsoluteCap = 10
  MaxConfirmed = 10
SPECIFICATION ReflectionSpec
SYMMETRY Symmetry
INVARIANTS PageLeadsOn OffersAccepted ResponsesLeadOn HomeLabelTrue
CHECK_DEADLOCK FALSE
