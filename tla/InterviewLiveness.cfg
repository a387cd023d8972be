CONSTANTS
  Requests = {r1, r2}
  Axes = {x}
  Answers = {a}
  r1 = r1
  r2 = r2
  x = x
  y = y
  a = a
  b = b
  None = None
  SoftStopAnswers = 1
  NormalCap = 2
  AbsoluteCap = 4
SPECIFICATION FairSpec
PROPERTIES FollowedUpEventually ConcludesIfAnswered

CHECK_DEADLOCK FALSE
