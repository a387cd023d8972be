CONSTANTS
  Descriptors <- MCDescriptors
  LimitedBook = b2
  SeedClaims <- MCSeedClaims
  OtherClaims <- MCOtherClaims
  Searched = {b1}
  Sources = {s1}
  Tasks = {t1, t2}
  Interviews = {v1}
  MaxSearches = 3
  b1 = b1
  b2 = b2
  s1 = s1
  t1 = t1
  t2 = t2
  v1 = v1
  None = None
SPECIFICATION SelectionSpec
SYMMETRY Symmetry
INVARIANTS KnowledgeTypeOK SelectionTypeOK ReadyMeansClaims NoWaitCycle ReportTrue EarlierCandidatesGone
PROPERTIES BooksKept ApprovedClaimsTogether
CHECK_DEADLOCK FALSE
