CONSTANTS
  Requests = {r1, r2}
  Axes = {x, y}
  Answers = {a}
  r1 = r1
  r2 = r2
  x = x
  y = y
  a = a
  b = b
  None = None
  SoftStopAnswers = 1
  NormalCap = 2
  AbsoluteCap = 4
SPECIFICATION Spec
SYMMETRY Symmetry
INVARIANTS TypeOK OneResultEach QuestionsBounded AnswersBeyondCapGranted ExtraQuestionsMakeUpForSkips ClosedOnEvidence DecisionsConsistent
PROPERTIES HistoryKept CoverageMonotone AnalysisAppliedOnce RefinesLifecycle
CHECK_DEADLOCK FALSE
