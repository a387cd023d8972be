--------------------------- MODULE InterviewStepProofs ---------------------------
(***************************************************************************)
(* What no step of the Interview does, for every value of the constants:   *)
(* undo what was written, lower Coverage, apply an analysis twice, or ask  *)
(* past the normal cap without the user's choice more than skips make up   *)
(* for.                                                                    *)
(***************************************************************************)
EXTENDS InterviewProofs

-------------------------------------------------------------------------------
(* History *)

\* What a step leaves of the turns and of the decisions.
TurnsKept ==
    \A n \in DOMAIN turns :
        /\ n \in DOMAIN turns'
        /\ turns[n].answer # None => turns'[n].answer = turns[n].answer
        /\ turns[n].skipped => turns'[n].skipped

ChoicesKept ==
    \A n \in DOMAIN decisions :
        /\ n \in DOMAIN decisions'
        /\ decisions'[n].kind = decisions[n].kind
        /\ decisions'[n].axis = decisions[n].axis
        /\ decisions[n].selection # None => decisions'[n] = decisions[n]

\* A new turn or choice has a key of its own.
LEMMA InsertKeeps ==
    /\ \A n : n \notin DOMAIN turns /\ turns' = Insert(turns, n, NewTurn) => TurnsKept
    /\ \A n, d : n \notin DOMAIN decisions /\ decisions' = Insert(decisions, n, d) => ChoicesKept
    /\ turns' = turns => TurnsKept
    /\ decisions' = decisions => ChoicesKept
BY DEF Insert, TurnsKept, ChoicesKept

\* A choice is made where none had been.
LEMMA SelectionKeeps ==
    ASSUME TypeOK, NEW n \in DOMAIN decisions, decisions[n].selection = None, NEW sel,
           decisions' = [decisions EXCEPT ![n].selection = sel]
    PROVE  ChoicesKept
<1>1. \A k \in DOMAIN decisions : decisions[k] \in Decision
  BY DEF TypeOK
<1>2. \A k \in DOMAIN decisions \ {n} : k \in DOMAIN decisions' /\ decisions'[k] = decisions[k]
  OBVIOUS
<1>3. /\ n \in DOMAIN decisions' /\ decisions'[n].kind = decisions[n].kind
      /\ decisions'[n].axis = decisions[n].axis
  BY <1>1 DEF Decision
<1> QED BY <1>2, <1>3 DEF ChoicesKept

\* A turn is changed in place: its answer given, its skip or its mark set.
LEMMA ResultKeeps ==
    ASSUME TypeOK, NEW n \in DOMAIN turns
    PROVE  /\ \A text : turns[n].answer = None /\ turns' = [turns EXCEPT ![n].answer = text] => TurnsKept
           /\ turns' = [turns EXCEPT ![n].skipped = TRUE] => TurnsKept
           /\ \A mark : turns' = [turns EXCEPT ![n].omitted = mark] => TurnsKept
<1>1. turns \in [1..Len(turns) -> Turn]
  BY TurnsDomain DEF TypeOK
<1>2. ASSUME NEW text, turns[n].answer = None, turns' = [turns EXCEPT ![n].answer = text]
      PROVE  TurnsKept
  BY <1>1, <1>2 DEF Turn, TurnsKept
<1>3. ASSUME turns' = [turns EXCEPT ![n].skipped = TRUE] PROVE TurnsKept
  BY <1>1, <1>3 DEF Turn, TurnsKept
<1>4. ASSUME NEW mark, turns' = [turns EXCEPT ![n].omitted = mark] PROVE TurnsKept
  BY <1>1, <1>4 DEF Turn, TurnsKept
<1> QED BY <1>2, <1>3, <1>4

LEMMA HistoryStep == IInv /\ [Next]_vars => TurnsKept /\ ChoicesKept
<1> SUFFICES ASSUME IInv, [Next]_vars PROVE TurnsKept /\ ChoicesKept
  OBVIOUS
<1> USE DEF IInv
<1>1. CASE turns' = turns /\ decisions' = decisions
  BY <1>1, InsertKeeps
<1>2. ASSUME NEW r \in Requests, FirstCommit(r) PROVE TurnsKept /\ ChoicesKept
  BY <1>2, InsertKeeps DEF FirstCommit
<1>3. ASSUME NEW r \in Requests, NextCommit(r) PROVE TurnsKept /\ ChoicesKept
  <2>1. /\ request[r].turn \in DOMAIN turns /\ request[r].turn \notin DOMAIN decisions
        /\ request[r].turn + 1 \notin DOMAIN turns
    BY <1>3, NextUnmovedFacts DEF NextCommit, NextUnmoved, FollowedUp
  <2> QED BY <1>3, <2>1, InsertKeeps, ResultKeeps DEF NextCommit
<1>4. ASSUME NEW r \in Requests, SkipCommit(r) PROVE TurnsKept /\ ChoicesKept
  BY <1>4, InsertKeeps DEF SkipCommit, SkipUnmoved
<1>5. ASSUME NEW n \in DOMAIN turns, NEW text \in Answers, SaveTurnAnswer(n, text)
      PROVE  TurnsKept /\ ChoicesKept
  BY <1>5, InsertKeeps, ResultKeeps DEF SaveTurnAnswer, Answerable
<1>6. ASSUME NEW n \in DOMAIN turns, SkipClose(n) \/ \E r \in Requests : SkipBegin(r, n)
      PROVE  TurnsKept /\ ChoicesKept
  BY <1>6, InsertKeeps, ResultKeeps DEF SkipClose, SkipBegin, Skipping
<1>7. ASSUME NEW n \in DOMAIN turns, DecideEnd(n) PROVE TurnsKept /\ ChoicesKept
  BY <1>7, InsertKeeps, SelectionKeeps DEF DecideEnd, Decidable
<1>8. ASSUME NEW n \in DOMAIN turns, DecideContinue(n) PROVE TurnsKept /\ ChoicesKept
  <2>1. n + 1 \notin DOMAIN turns
    BY <1>8, LastTurn DEF DecideContinue, Decidable
  <2> QED BY <1>8, <2>1, InsertKeeps, SelectionKeeps DEF DecideContinue, Decidable
<1> QED
  BY <1>1, <1>2, <1>3, <1>4, <1>5, <1>6, <1>7, <1>8
     DEF Next, vars, rows, StartInterview, FirstRead, NextRead, NextAnalyze, RequestFails,
         LegacySkip, ApplyCoveragePatch

\* No request undoes what another one wrote.
THEOREM NothingUndone == Spec => HistoryKept
<1>1. IInv /\ [Next]_vars =>
        [/\ \A n \in DOMAIN turns :
              /\ n \in DOMAIN turns'
              /\ turns[n].answer # None => turns'[n].answer = turns[n].answer
              /\ turns[n].skipped => turns'[n].skipped
         /\ \A n \in DOMAIN decisions :
              /\ n \in DOMAIN decisions'
              /\ decisions'[n].kind = decisions[n].kind
              /\ decisions'[n].axis = decisions[n].axis
              /\ decisions[n].selection # None => decisions'[n] = decisions[n]]_vars
  BY HistoryStep DEF TurnsKept, ChoicesKept
<1> QED BY <1>1, Inductive, PTL DEF Spec, HistoryKept

-------------------------------------------------------------------------------
(* Coverage *)

\* Coverage has not fallen below what a request read, nor its analysis below
\* what it was applied to.
CoverageRead ==
    /\ status = "ABSENT" => \A a \in Axes : coverage[a] = UNCOVERED
    /\ \A r \in Requests :
         LET q == request[r] IN
         /\ q.step = "analyze" => \A a \in Axes : coverage[a] >= q.before[a]
         /\ q.step = "commit" => \A a \in Axes : q.projected[a] >= q.before[a]

CoverageRises == \A a \in Axes : coverage'[a] >= coverage[a]

\* The ranks of Coverage are numbers.
LEMMA Ranks ==
    ASSUME NEW cov \in Coverages, NEW a \in Axes
    PROVE  cov[a] \in Nat
BY DEF Coverages, UNCOVERED, PARTIAL, COVERED

LEMMA CoverageStep == IInv /\ CoverageRead /\ [Next]_vars => CoverageRises
<1> SUFFICES ASSUME IInv, CoverageRead, [Next]_vars PROVE CoverageRises
  OBVIOUS
<1>1. \A a \in Axes : coverage[a] \in Nat
  BY Ranks DEF IInv, TypeOK
<1>2. CASE coverage' = coverage
  BY <1>1, <1>2 DEF CoverageRises
<1>3. ASSUME NEW r \in Requests, NextCommit(r) PROVE CoverageRises
  BY <1>3 DEF NextCommit, NextUnmoved, CoverageRead, CoverageRises
<1>4. CASE StartInterview
  BY <1>1, <1>4 DEF StartInterview, CoverageRead, CoverageRises, UNCOVERED
<1> QED
  BY <1>2, <1>3, <1>4
     DEF Next, vars, rows, FirstRead, FirstCommit, NextRead, NextAnalyze, RequestFails, SkipBegin,
         SkipCommit, SaveTurnAnswer, LegacySkip, SkipClose, DecideEnd, DecideContinue,
         ApplyCoveragePatch, CoverageRises

LEMMA CoverageReadNext == IInv /\ CoverageRead /\ [Next]_vars => CoverageRead'
<1> SUFFICES ASSUME IInv, CoverageRead, [Next]_vars PROVE CoverageRead'
  OBVIOUS
<1> DEFINE Knows(q) ==
      /\ q.step = "analyze" => \A a \in Axes : coverage'[a] >= q.before[a]
      /\ q.step = "commit" => \A a \in Axes : q.projected[a] >= q.before[a]
<1>1. TypeOK /\ CoverageRises /\ request \in [Requests -> RequestState]
  BY CoverageStep DEF IInv, TypeOK
<1>2. \A a \in Axes : coverage[a] \in Nat /\ coverage'[a] \in Nat
  BY <1>1, TypeOKNext, Ranks DEF TypeOK
<1>3. status' = "ABSENT" => \A a \in Axes : coverage'[a] = UNCOVERED
  <2>1. status' = "ABSENT" => status = "ABSENT" /\ coverage' = coverage
    BY DEF Next, vars, rows, StartInterview, FirstRead, FirstCommit, NextRead, NextAnalyze,
           NextCommit, RequestFails, SkipBegin, SkipCommit, ClosedStatus, SaveTurnAnswer, LegacySkip,
           SkipClose, DecideEnd, DecideContinue, ApplyCoveragePatch, Skippable, Decidable, Answerable,
           NextUnmoved
  <2> QED BY <2>1 DEF CoverageRead
<1>4. \A r \in Requests : request[r].step = "analyze" => request[r].before \in Coverages
  BY <1>1 DEF RequestState
<1>5. \A r \in Requests : Knows(request[r])
  <2> SUFFICES ASSUME NEW r \in Requests, request[r].step = "analyze", NEW a \in Axes
               PROVE  coverage'[a] >= request[r].before[a]
    BY DEF CoverageRead
  <2>1. coverage[a] >= request[r].before[a] /\ coverage'[a] >= coverage[a]
    BY <1>1 DEF CoverageRead, CoverageRises
  <2>2. request[r].before[a] \in Nat
    BY <1>4, Ranks
  <2> QED BY <1>2, <2>1, <2>2
<1>6. ASSUME NEW r \in Requests, NEW new, Knows(new), request' = [request EXCEPT ![r] = new]
      PROVE  \A s \in Requests : Knows(request'[s])
  BY <1>1, <1>5, <1>6
<1>7. Knows(Idle)
  BY DEF Idle
<1>8. ASSUME NEW r \in Requests, NEW n \in DOMAIN turns, NextRead(r, n)
      PROVE  \A s \in Requests : Knows(request'[s])
  <2> DEFINE new == [step |-> "analyze", turn |-> n, answer |-> turns[n].answer,
                     before |-> coverage, budget |-> BudgetOf(turns)]
  <2>1. Knows(new)
    BY <1>1 DEF CoverageRises
  <2>2. request' = [request EXCEPT ![r] = new]
    BY <1>8 DEF NextRead
  <2> HIDE DEF new, Knows
  <2> QED BY <1>6, <2>1, <2>2
<1>9. ASSUME NEW r \in Requests, NextAnalyze(r)
      PROVE  \A s \in Requests : Knows(request'[s])
  <2> DEFINE q == request[r]
  <2>1. q.step = "analyze" /\ q.before \in Coverages
    BY <1>4, <1>9 DEF NextAnalyze
  <2>2. PICK projected \in Coverages :
          /\ ValidAnalysis(q.before, projected)
          /\ LET action == BudgetAction(q.budget, projected)
                 beyond == action = "cap" /\ q.budget.answered > NormalCap
             IN  request' = [request EXCEPT ![r] =
                   IF beyond /\ ~ExtensionGranted THEN Idle
                   ELSE [step |-> "commit", turn |-> q.turn, answer |-> q.answer,
                         before |-> q.before, budget |-> q.budget, projected |-> projected,
                         action |-> IF beyond THEN "extended" ELSE action]]
    BY <1>9 DEF NextAnalyze
  <2>3. \A a \in Axes : projected[a] >= q.before[a]
    <3> TAKE a \in Axes
    <3>1. projected[a] \in Nat /\ q.before[a] \in Nat /\ coverage[a] \in Nat
      BY <1>2, <2>1, Ranks
    <3>2. coverage[a] >= q.before[a]
      BY <2>1 DEF CoverageRead
    <3>3. projected[a] # q.before[a] => projected[a] > coverage[a]
      BY <2>2 DEF ValidAnalysis
    <3> QED BY <3>1, <3>2, <3>3
  <2> DEFINE action == BudgetAction(q.budget, projected)
             beyond == action = "cap" /\ q.budget.answered > NormalCap
             new == [step |-> "commit", turn |-> q.turn, answer |-> q.answer,
                     before |-> q.before, budget |-> q.budget, projected |-> projected,
                     action |-> IF beyond THEN "extended" ELSE action]
  <2>4. Knows(new)
    BY <2>3
  <2>5. request' = [request EXCEPT ![r] = Idle] \/ request' = [request EXCEPT ![r] = new]
    BY <2>2
  <2> HIDE DEF new, Knows
  <2> QED BY <1>6, <1>7, <2>4, <2>5
<1>10. ASSUME NEW r \in Requests, NEW n \in DOMAIN turns, SkipBegin(r, n)
       PROVE  \A s \in Requests : Knows(request'[s])
  <2> DEFINE b == BudgetOf(Skipping(n))
             new == [step |-> "skip", turn |-> n, before |-> coverage,
                     budget |-> b, action |-> SkipAction(b, coverage)]
  <2>1. Knows(new)
    OBVIOUS
  <2>2. request' = [request EXCEPT ![r] = new]
    BY <1>10 DEF SkipBegin
  <2> HIDE DEF new, Knows
  <2> QED BY <1>6, <2>1, <2>2
<1>11. ASSUME NEW r \in Requests, FirstRead(r) PROVE \A s \in Requests : Knows(request'[s])
  <2>1. Knows([step |-> "first"])
    OBVIOUS
  <2> HIDE DEF Knows
  <2> QED BY <1>6, <1>11, <2>1 DEF FirstRead
<1>12. ASSUME NEW r \in Requests, request' = [request EXCEPT ![r] = Idle]
       PROVE  \A s \in Requests : Knows(request'[s])
  <2> HIDE DEF Knows
  <2> QED BY <1>6, <1>7, <1>12
<1>13. ASSUME request' = request PROVE \A s \in Requests : Knows(request'[s])
  <2> HIDE DEF Knows
  <2> QED BY <1>5, <1>13
<1>14. \A s \in Requests : Knows(request'[s])
  <2> HIDE DEF Knows
  <2> QED
    BY <1>8, <1>9, <1>10, <1>11, <1>12, <1>13
       DEF Next, vars, StartInterview, FirstCommit, NextCommit, SkipCommit, RequestFails,
           SaveTurnAnswer, LegacySkip, SkipClose, DecideEnd, DecideContinue, ApplyCoveragePatch
<1>15. ASSUME NEW r \in Requests PROVE Knows(request'[r])
  BY <1>14
<1> QED BY <1>3, <1>15 DEF CoverageRead

LEMMA CoverageReadAlways == Spec => []CoverageRead
<1>1. Init => CoverageRead
  <2> SUFFICES ASSUME Init PROVE CoverageRead
    OBVIOUS
  <2>1. status = "ABSENT" => \A a \in Axes : coverage[a] = UNCOVERED
    BY DEF Init
  <2>2. \A r \in Requests : request[r].step = "idle"
    BY DEF Init, Idle
  <2> QED BY <2>1, <2>2 DEF CoverageRead
<1> QED BY <1>1, CoverageReadNext, Inductive, PTL DEF Spec

\* Coverage only grows, although an analysis is applied to the Coverage that was
\* read before the provider was called.
THEOREM CoverageNeverFalls == Spec => CoverageMonotone
<1>1. IInv /\ CoverageRead /\ [Next]_vars => [\A a \in Axes : coverage'[a] >= coverage[a]]_vars
  BY CoverageStep DEF CoverageRises
<1> QED BY <1>1, CoverageReadAlways, Inductive, PTL DEF Spec, CoverageMonotone

-------------------------------------------------------------------------------
(* The analysis of an answer *)

LEMMA AnalysisStep ==
    ASSUME IInv, NEW r \in Requests, NextCommit(r), NEW n, n = request[r].turn
    PROVE  n \in DOMAIN turns /\ ~FollowedUp(n) /\ FollowedUp(n)'
<1>1. n \in DOMAIN turns /\ n \in Nat /\ ~FollowedUp(n)
  BY NextUnmovedFacts DEF IInv, NextCommit, NextUnmoved
<1>2. \/ status' = "REFLECTION_READY"
      \/ \E d : decisions' = Insert(decisions, n, d)
      \/ turns' = Insert(turns, n + 1, NewTurn)
  BY DEF NextCommit
<1>3. FollowedUp(n)'
  BY <1>2 DEF FollowedUp, Insert
<1> QED BY <1>1, <1>3

\* The step that applies an analysis is the one that gives the answer its
\* follow-up, so no answer's analysis is applied twice.
THEOREM AnalysedOnce == Spec => AnalysisAppliedOnce
<1>1. IInv /\ [Next]_vars =>
        [\A r \in Requests :
           request[r].step = "commit" /\ coverage' # coverage /\ request'[r] # request[r]
             => \E n \in DOMAIN turns :
                  n = request[r].turn /\ ~FollowedUp(n) /\ FollowedUp(n)']_vars
  <2> SUFFICES ASSUME IInv, [Next]_vars, NEW r \in Requests,
                      request[r].step = "commit", coverage' # coverage, request'[r] # request[r]
               PROVE  \E n \in DOMAIN turns :
                        n = request[r].turn /\ ~FollowedUp(n) /\ FollowedUp(n)'
    OBVIOUS
  <2>1. PICK s \in Requests : NextCommit(s)
    BY DEF Next, vars, rows, StartInterview, FirstRead, FirstCommit, NextRead, NextAnalyze,
           RequestFails, SkipBegin, SkipCommit, SaveTurnAnswer, LegacySkip, SkipClose, DecideEnd,
           DecideContinue, ApplyCoveragePatch
  <2>2. s = r
    BY <2>1 DEF NextCommit, IInv, TypeOK
  <2>3. \A n : n = request[r].turn => n \in DOMAIN turns /\ ~FollowedUp(n) /\ FollowedUp(n)'
    BY <2>1, <2>2, AnalysisStep
  <2> QED BY <2>3
<1> QED BY <1>1, Inductive, PTL DEF Spec, AnalysisAppliedOnce

-------------------------------------------------------------------------------
(* Questions past the normal cap *)

\* A step that asks a question finds fewer answers than the normal cap, or the
\* user's choice to go on.
LEMMA AskingStep ==
    IInv /\ [Next]_vars =>
      \/ DOMAIN turns' = DOMAIN turns
      \/ /\ turns' = Insert(turns, Len(turns) + 1, NewTurn)
         /\ \/ turns = <<>>
            \/ ValidBudget(turns, Len(turns)) /\ AnswerCount < NormalCap
            \/ ExtensionGranted'
<1> SUFFICES ASSUME IInv, [Next]_vars
             PROVE  \/ DOMAIN turns' = DOMAIN turns
                    \/ /\ turns' = Insert(turns, Len(turns) + 1, NewTurn)
                       /\ \/ turns = <<>>
                          \/ ValidBudget(turns, Len(turns)) /\ AnswerCount < NormalCap
                          \/ ExtensionGranted'
  OBVIOUS
<1> USE DEF IInv
<1>1. CASE turns' = turns
  BY <1>1
<1>2. CASE \E n, e : turns' = [turns EXCEPT ![n].answer = e] \/ turns' = [turns EXCEPT ![n].omitted = e]
                     \/ turns' = [turns EXCEPT ![n].skipped = e]
  BY <1>2
<1>3. ASSUME NEW r \in Requests, FirstCommit(r)
      PROVE  turns' = Insert(turns, Len(turns) + 1, NewTurn) /\ turns = <<>>
  <2>1. Len(turns) = 0
    BY <1>3, LastTurn DEF FirstCommit
  <2>2. turns = <<>>
    BY <2>1, EmptySeq DEF TypeOK
  <2> QED BY <1>3, <2>1, <2>2 DEF FirstCommit
<1>4. ASSUME NEW r \in Requests, NextCommit(r), turns' = Insert(turns, request[r].turn + 1, NewTurn),
             request[r].action \in {"normal", "extended"}
      PROVE  /\ turns' = Insert(turns, Len(turns) + 1, NewTurn)
             /\ (ValidBudget(turns, Len(turns)) /\ AnswerCount < NormalCap) \/ ExtensionGranted'
  <2>1. request[r].turn = Len(turns) /\ request[r].budget.answered = AnswerCount
    BY <1>4, NextUnmovedFacts DEF NextCommit
  <2>2. ValidBudget(turns, request[r].turn)
    BY <1>4 DEF NextCommit, NextUnmoved
  <2>3. CASE request[r].action = "normal"
    BY <1>4, <2>1, <2>2, <2>3 DEF NextCommit, RequestInv
  <2>4. CASE request[r].action = "extended"
    BY <1>4, <2>1, <2>4, GrantKept DEF NextCommit, RequestInv
  <2> QED BY <1>4, <2>3, <2>4
<1>5. ASSUME NEW r \in Requests, SkipCommit(r), turns' = Insert(turns, request[r].turn + 1, NewTurn),
             request[r].action = "normal"
      PROVE  /\ turns' = Insert(turns, Len(turns) + 1, NewTurn)
             /\ ValidBudget(turns, Len(turns)) /\ AnswerCount < NormalCap
  <2>1. request[r].turn = Len(turns) /\ request[r].budget.answered = AnswerCount
    BY <1>5, SkipUnmovedFacts DEF SkipCommit
  <2>2. ValidBudget(turns, request[r].turn) /\ request[r].budget = BudgetOf(turns)
    BY <1>5 DEF SkipCommit, SkipUnmoved
  <2>3. Resolved(request[r].budget) < NormalCap
    BY <1>5 DEF SkipCommit, RequestInv
  <2>4. AnswerCount < NormalCap
    BY <2>1, <2>2, <2>3, BudgetCounts, CapsAssumption DEF Resolved, Budget, TypeOK
  <2> QED BY <1>5, <2>1, <2>2, <2>4
<1>6. ASSUME NEW n \in DOMAIN turns, DecideContinue(n)
      PROVE  /\ turns' = Insert(turns, Len(turns) + 1, NewTurn)
             /\ (ValidBudget(turns, Len(turns)) /\ AnswerCount < NormalCap) \/ ExtensionGranted'
  <2>1. n = Len(turns) /\ ValidBudget(turns, n) /\ n \in DOMAIN decisions
        /\ decisions[n].selection = None /\ decisions[n] \in Decision
    BY <1>6, LastTurn DEF DecideContinue, Decidable, MayContinue, TypeOK
  <2>2. CASE decisions[n].kind = "SOFT_STOP"
    BY <1>6, <2>1, <2>2 DEF DecideContinue, RowInv, DecisionsGrounded
  <2>3. CASE decisions[n].kind = "CAP_EXTENSION"
    <3>1. n = NormalCap
      BY <1>6, <2>3 DEF DecideContinue, Decidable
    <3>2. /\ n \in DOMAIN decisions' /\ decisions'[n].kind = "CAP_EXTENSION"
          /\ decisions'[n].selection = "CONTINUE"
      BY <1>6, <2>1, <2>3 DEF DecideContinue, Decision
    <3> QED BY <1>6, <2>1, <3>1, <3>2 DEF DecideContinue, ExtensionGranted
  <2> QED BY <2>1, <2>2, <2>3 DEF Decision
<1> QED
  BY <1>1, <1>2, <1>3, <1>4, <1>5, <1>6
     DEF Next, vars, rows, StartInterview, FirstRead, NextRead, NextAnalyze, NextCommit, SkipCommit,
         RequestFails, SkipBegin, SkipClose, Skipping, SaveTurnAnswer, LegacySkip, DecideEnd,
         ApplyCoveragePatch

LEMMA ExtraStep ==
    IInv /\ ExtraQuestionsMakeUpForSkips /\ [Next]_vars => ExtraQuestionsMakeUpForSkips'
<1> SUFFICES ASSUME IInv, ExtraQuestionsMakeUpForSkips, [Next]_vars, ~ExtensionGranted'
             PROVE  Cardinality(DOMAIN turns') <= NormalCap + Cardinality(SkippedTurns(turns'))
  BY DEF ExtraQuestionsMakeUpForSkips
<1>1. turns \in Seq(Turn) /\ turns' \in Seq(Turn)
  BY TypeOKNext DEF IInv, TypeOK
<1>2. /\ Len(turns) \in Nat /\ Cardinality(DOMAIN turns) = Len(turns)
      /\ Len(turns') \in Nat /\ Cardinality(DOMAIN turns') = Len(turns')
      /\ Cardinality(SkippedTurns(turns)) \in Nat /\ Cardinality(SkippedTurns(turns')) \in Nat
      /\ IsFiniteSet(SkippedTurns(turns'))
  BY <1>1, TurnsDomain, BudgetCounts, FS_CardinalityType
<1>3. Cardinality(SkippedTurns(turns)) <= Cardinality(SkippedTurns(turns'))
  <2>1. SkippedTurns(turns) \subseteq SkippedTurns(turns')
    BY HistoryStep DEF TurnsKept, SkippedTurns
  <2> QED BY <1>2, <2>1, FS_Subset
<1>4. Cardinality(DOMAIN turns) <= NormalCap + Cardinality(SkippedTurns(turns))
  BY GrantKept DEF IInv, ExtraQuestionsMakeUpForSkips
<1>5. CASE DOMAIN turns' = DOMAIN turns
  BY <1>2, <1>3, <1>4, <1>5, CapsAssumption
<1>6. CASE /\ turns' = Insert(turns, Len(turns) + 1, NewTurn)
           /\ turns = <<>> \/ (ValidBudget(turns, Len(turns)) /\ AnswerCount < NormalCap)
  <2>1. Len(turns') = Len(turns) + 1
    BY <1>6, QuestionAsked DEF IInv
  <2>2. CASE turns = <<>>
    BY <1>2, <2>1, <2>2, CapsAssumption
  <2>3. CASE ValidBudget(turns, Len(turns)) /\ AnswerCount < NormalCap
    <3>1. AnswerCount + Cardinality(SkippedTurns(turns)) = Len(turns) /\ AnswerCount \in Nat
      BY <1>2, <2>3, CountsFinite DEF ValidBudget, BudgetOf, Resolved, AnswerCount, IInv
    <3> QED BY <1>2, <1>3, <2>1, <2>3, <3>1, CapsAssumption
  <2> QED BY <1>6, <2>2, <2>3
<1> QED BY <1>5, <1>6, AskingStep

LEMMA ExtraInit == Init => ExtraQuestionsMakeUpForSkips
<1> SUFFICES ASSUME Init PROVE ExtraQuestionsMakeUpForSkips
  OBVIOUS
<1>1. IInv
  BY TypeOKInit, RowInvInit, RequestInvInit DEF IInv
<1>2. Len(turns) <= NormalCap
  <2>1. CASE turns = <<>>
    BY <2>1, CapsAssumption
  <2>2. ASSUME NEW n \in 1..NormalCap, NEW text \in Answers,
               turns = [i \in 1..n |-> [answer |-> text, skipped |-> FALSE, omitted |-> i = n]]
        PROVE  Len(turns) <= NormalCap
    BY <2>2, CapsAssumption
  <2> QED BY <2>1, <2>2 DEF Init
<1>3. Cardinality(DOMAIN turns) = Len(turns) /\ Len(turns) \in Nat
      /\ Cardinality(SkippedTurns(turns)) \in Nat
  BY <1>1, TurnsDomain, BudgetCounts, FS_CardinalityType DEF IInv, TypeOK
<1> QED BY <1>2, <1>3, CapsAssumption DEF ExtraQuestionsMakeUpForSkips

\* Without the user's choice, a question past the normal cap makes up for one
\* that was skipped, for all caps settings.py accepts.
THEOREM ExtrasMakeUpForSkips == Spec => []ExtraQuestionsMakeUpForSkips
BY ExtraInit, ExtraStep, Inductive, PTL DEF Spec

-------------------------------------------------------------------------------
(* The lifecycle *)

\* What the lifecycle sees of the turns.
LEMMA Outcomes ==
    ASSUME IInv
    PROVE  /\ Len(turns) \in Nat /\ Len(turns) <= AbsoluteCap /\ DOMAIN turns = 1..Len(turns)
           /\ Lifecycle!Asked = 1..Len(turns)
           /\ Lifecycle!NothingOpen <=> \A n \in DOMAIN turns : IsResolved(turns[n])
           /\ Lifecycle!SomeAnswer <=> AnsweredTurns(turns) # {}
           /\ (turns # <<>> => IsResolved(turns[Len(turns)])) => Lifecycle!NothingOpen
<1>1. turns \in Seq(Turn) /\ Len(turns) \in Nat /\ DOMAIN turns = 1..Len(turns)
      /\ Cardinality(DOMAIN turns) = Len(turns)
  BY TurnsDomain DEF IInv, TypeOK
<1>2. Len(turns) <= AbsoluteCap
  BY <1>1 DEF IInv, RowInv, QuestionsBounded
<1>3. Lifecycle!Asked = 1..Len(turns)
  BY <1>1 DEF Lifecycle!Asked, outcomeOf
<1>4. \A n \in DOMAIN turns :
        /\ (outcomeOf[n] # "OPEN") <=> IsResolved(turns[n])
        /\ (outcomeOf[n] = "ANSWERED") <=> turns[n].answer # None
  BY DEF outcomeOf, IsResolved
<1>5. Lifecycle!NothingOpen <=> \A n \in DOMAIN turns : IsResolved(turns[n])
  BY <1>1, <1>3, <1>4 DEF Lifecycle!NothingOpen
<1>6. Lifecycle!SomeAnswer <=> AnsweredTurns(turns) # {}
  BY <1>1, <1>3, <1>4 DEF Lifecycle!SomeAnswer, AnsweredTurns
<1>7. (turns # <<>> => IsResolved(turns[Len(turns)])) => \A n \in DOMAIN turns : IsResolved(turns[n])
  <2>1. \A n : IsLast(n) <=> n = Len(turns) /\ n \in DOMAIN turns
    BY LastTurn DEF IInv
  <2>2. \A n \in DOMAIN turns : n # Len(turns) => IsResolved(turns[n])
    BY <2>1 DEF IInv, RowInv, OneResultEach
  <2>3. turns = <<>> => DOMAIN turns = {}
    OBVIOUS
  <2> QED BY <2>2, <2>3
<1> QED BY <1>1, <1>2, <1>3, <1>5, <1>6, <1>7

\* Asking a question, with or without the choice that lets it be asked.
LEMMA AskSimulated ==
    ASSUME IInv, status = "IN_PROGRESS", UNCHANGED status,
           turns' = Insert(turns, Len(turns) + 1, NewTurn), Len(turns) < AbsoluteCap,
           turns # <<>> => IsResolved(turns[Len(turns)])
    PROVE  Lifecycle!Ask
<1>1. /\ Len(turns) \in Nat /\ DOMAIN turns = 1..Len(turns)
      /\ Lifecycle!Asked = 1..Len(turns) /\ Lifecycle!NothingOpen
  BY Outcomes
<1>2. Len(turns) \in 0..(AbsoluteCap - 1)
  BY <1>1, CapsAssumption
<1>3. outcomeOf' = [i \in 1..(Len(turns) + 1) |-> IF i \in Lifecycle!Asked THEN outcomeOf[i] ELSE "OPEN"]
  <2>1. DOMAIN turns' = 1..(Len(turns) + 1)
    BY QuestionAsked DEF IInv
  <2>2. \A i \in 1..(Len(turns) + 1) :
          turns'[i] = IF i = Len(turns) + 1 THEN NewTurn ELSE turns[i]
    BY <1>1 DEF Insert
  <2>3. ASSUME NEW i \in 1..(Len(turns) + 1)
        PROVE  outcomeOf'[i] = IF i \in Lifecycle!Asked THEN outcomeOf[i] ELSE "OPEN"
    <3>1. i \in DOMAIN turns' /\ turns'[i] = IF i = Len(turns) + 1 THEN NewTurn ELSE turns[i]
      BY <2>1, <2>2
    <3>2. outcomeOf'[i] = IF turns'[i].answer # None THEN "ANSWERED"
                          ELSE IF turns'[i].skipped THEN "SKIPPED" ELSE "OPEN"
      BY <3>1 DEF outcomeOf
    <3>3. CASE i = Len(turns) + 1
      <4>1. i \notin Lifecycle!Asked
        BY <1>1, <3>3
      <4> QED BY <3>1, <3>2, <3>3, <4>1 DEF NewTurn
    <3>4. CASE i # Len(turns) + 1
      <4>1. i \in DOMAIN turns /\ i \in Lifecycle!Asked
        BY <1>1, <3>4
      <4> QED BY <3>1, <3>2, <3>4, <4>1 DEF outcomeOf
    <3> QED BY <3>3, <3>4
  <2> QED BY <2>1, <2>3 DEF outcomeOf
<1> QED BY <1>1, <1>2, <1>3 DEF Lifecycle!Ask

\* Concluding once nothing is open.
LEMMA ConcludeSimulated ==
    ASSUME IInv, status = "IN_PROGRESS", outcomeOf' = outcomeOf,
           turns # <<>>, IsResolved(turns[Len(turns)]),
           status' = IF AnsweredTurns(turns) # {} THEN "REFLECTION_READY" ELSE "ENDED_NO_REFLECTION"
    PROVE  Lifecycle!Conclude
<1>1. Lifecycle!NothingOpen /\ (Lifecycle!SomeAnswer <=> AnsweredTurns(turns) # {})
  BY Outcomes
<1>2. Lifecycle!Asked # {}
  <2>1. Len(turns) # 0
    BY EmptySeq DEF IInv, TypeOK
  <2> QED BY <2>1, Outcomes
<1> QED BY <1>1, <1>2 DEF Lifecycle!Conclude

\* The status a conclusion gives is that of the answers.
LEMMA ClosedStatusIs ==
    ASSUME NEW ts \in Seq(Turn)
    PROVE  ClosedStatus(BudgetOf(ts)) =
             IF AnsweredTurns(ts) # {} THEN "REFLECTION_READY" ELSE "ENDED_NO_REFLECTION"
<1>1. /\ IsFiniteSet(AnsweredTurns(ts)) /\ BudgetOf(ts).answered = Cardinality(AnsweredTurns(ts))
  BY BudgetCounts
<1>2. BudgetOf(ts).answered \in Nat /\ (BudgetOf(ts).answered = 0 <=> AnsweredTurns(ts) = {})
  BY <1>1, FS_CardinalityType, FS_EmptySet
<1> QED BY <1>2 DEF ClosedStatus

\* What becomes of the questions when no result is given.
LEMMA OutcomesKept ==
    ASSUME DOMAIN turns' = DOMAIN turns,
           \A i \in DOMAIN turns : /\ turns'[i].answer = turns[i].answer
                                   /\ turns'[i].skipped = turns[i].skipped
    PROVE  outcomeOf' = outcomeOf
BY DEF outcomeOf

\* What becomes of the questions when one of them gets its result.
LEMMA ResultGiven ==
    ASSUME NEW n \in DOMAIN turns, ~IsResolved(turns[n]), NEW result,
           DOMAIN turns' = DOMAIN turns,
           \A i \in DOMAIN turns \ {n} : /\ turns'[i].answer = turns[i].answer
                                         /\ turns'[i].skipped = turns[i].skipped,
           \/ result = "ANSWERED" /\ turns'[n].answer # None
           \/ result = "SKIPPED" /\ turns'[n].answer = None /\ turns'[n].skipped
    PROVE  /\ outcomeOf[n] = "OPEN"
           /\ outcomeOf' = [outcomeOf EXCEPT ![n] = result]
<1>1. outcomeOf[n] = "OPEN"
  BY DEF outcomeOf, IsResolved
<1>2. \A i \in DOMAIN turns : outcomeOf'[i] = IF i = n THEN result ELSE outcomeOf[i]
  BY DEF outcomeOf
<1>3. DOMAIN outcomeOf' = DOMAIN turns /\ DOMAIN outcomeOf = DOMAIN turns
  BY DEF outcomeOf
<1>4. outcomeOf' = [i \in DOMAIN turns |-> outcomeOf'[i]]
  BY DEF outcomeOf
<1> QED BY <1>1, <1>2, <1>3, <1>4

\* A result without a conclusion.
LEMMA ResolveSimulated ==
    ASSUME IInv, status = "IN_PROGRESS", UNCHANGED status, NEW n \in DOMAIN turns,
           NEW result \in {"ANSWERED", "SKIPPED"}, outcomeOf[n] = "OPEN",
           outcomeOf' = [outcomeOf EXCEPT ![n] = result]
    PROVE  Lifecycle!Resolve
<1>1. n \in Lifecycle!Asked
  BY Outcomes
<1> QED BY <1>1 DEF Lifecycle!Resolve

\* A skip asked for is the result of its question, or the one it has already.
LEMMA SkipOutcome ==
    ASSUME IInv, NEW n \in DOMAIN turns, Skippable(n), turns' = Skipping(n)
    PROVE  /\ \/ turns[n].skipped /\ outcomeOf' = outcomeOf
              \/ outcomeOf[n] = "OPEN" /\ outcomeOf' = [outcomeOf EXCEPT ![n] = "SKIPPED"]
           /\ AnsweredTurns(turns') = AnsweredTurns(turns)
           /\ \A i \in DOMAIN turns : outcomeOf'[i] # "OPEN"
           /\ turns' \in Seq(Turn) /\ n = Len(turns) /\ turns # <<>>
<1>1. /\ turns' \in Seq(Turn) /\ DOMAIN turns' = DOMAIN turns
      /\ \A i \in DOMAIN turns : /\ turns'[i].answer = turns[i].answer
                                 /\ turns'[i].skipped = (i = n \/ turns[i].skipped)
  BY SkippingTurns DEF IInv
<1>2. turns[n].answer = None /\ n = Len(turns) /\ turns # <<>>
  BY LastTurn DEF Skippable, IInv
<1>3. turns \in [1..Len(turns) -> Turn] /\ DOMAIN turns = 1..Len(turns)
  BY TurnsDomain DEF IInv, TypeOK
<1>4. AnsweredTurns(turns') = AnsweredTurns(turns)
  BY <1>1 DEF AnsweredTurns
<1>5. \A i \in DOMAIN turns : outcomeOf'[i] # "OPEN"
  <2> SUFFICES ASSUME NEW i \in DOMAIN turns PROVE IsResolved(turns'[i])
    BY <1>1 DEF outcomeOf, IsResolved
  <2>1. i # n => IsResolved(turns[i])
    BY <1>2, LastTurn DEF IInv, RowInv, OneResultEach
  <2> QED BY <1>1, <2>1 DEF IsResolved
<1>6. CASE turns[n].skipped
  <2>1. \A i \in DOMAIN turns : turns'[i].skipped = turns[i].skipped
    BY <1>1, <1>3, <1>6 DEF Turn
  <2> QED BY <1>1, <1>2, <1>4, <1>5, <1>6, <2>1, OutcomesKept
<1>7. CASE ~turns[n].skipped
  <2>1. ~IsResolved(turns[n])
    BY <1>2, <1>7 DEF IsResolved
  <2>2. \A i \in DOMAIN turns \ {n} : /\ turns'[i].answer = turns[i].answer
                                       /\ turns'[i].skipped = turns[i].skipped
    BY <1>1, <1>3 DEF Turn
  <2>3. turns'[n].answer = None /\ turns'[n].skipped
    BY <1>1, <1>2
  <2>4. DOMAIN turns' = DOMAIN turns
    BY <1>1
  <2> DEFINE result == "SKIPPED"
  <2>5. result = "SKIPPED"
    OBVIOUS
  <2> HIDE DEF result
  <2>6. outcomeOf[n] = "OPEN" /\ outcomeOf' = [outcomeOf EXCEPT ![n] = result]
    BY <2>1, <2>2, <2>3, <2>4, <2>5, ResultGiven
  <2> QED BY <1>1, <1>2, <1>4, <1>5, <2>5, <2>6
<1> QED BY <1>6, <1>7

\* The last question gets its answer.
LEMMA AnswerOutcome ==
    ASSUME IInv, NEW n \in DOMAIN turns, NEW text \in Answers, SaveTurnAnswer(n, text)
    PROVE  outcomeOf[n] = "OPEN" /\ outcomeOf' = [outcomeOf EXCEPT ![n] = "ANSWERED"]
<1>1. turns \in [1..Len(turns) -> Turn] /\ n \in 1..Len(turns)
  BY TurnsDomain DEF IInv, TypeOK
<1>2. ~IsResolved(turns[n])
  BY DEF SaveTurnAnswer, Answerable, IsResolved
<1>3. turns' = [turns EXCEPT ![n].answer = text]
  BY DEF SaveTurnAnswer
<1>4. DOMAIN turns' = DOMAIN turns /\ \A i \in DOMAIN turns \ {n} : turns'[i] = turns[i]
  BY <1>3
<1>5. turns'[n].answer = text /\ text # None
  BY <1>1, <1>3, DataAssumption DEF Turn
<1> QED BY <1>2, <1>4, <1>5, ResultGiven

LEMMA LifecycleBegins == Init => Lifecycle!LifecycleInit
<1> SUFFICES ASSUME Init PROVE Lifecycle!LifecycleInit
  OBVIOUS
<1>1. CASE status = "ABSENT" /\ turns = <<>>
  <2>1. outcomeOf = <<>>
    BY <1>1 DEF outcomeOf
  <2> QED BY <1>1, <2>1 DEF Lifecycle!LifecycleInit
<1>2. ASSUME status = "IN_PROGRESS", NEW n \in 1..NormalCap, NEW text \in Answers,
             turns = [i \in 1..n |-> [answer |-> text, skipped |-> FALSE, omitted |-> i = n]]
      PROVE  Lifecycle!LifecycleInit
  <2>1. DOMAIN turns = 1..n /\ \A i \in 1..n : turns[i].answer # None
    BY <1>2, DataAssumption
  <2>2. outcomeOf = [i \in 1..n |-> "ANSWERED"]
    BY <2>1 DEF outcomeOf
  <2>3. n \in 1..AbsoluteCap
    BY <1>2, CapsAssumption
  <2> QED BY <1>2, <2>2, <2>3 DEF Lifecycle!LifecycleInit
<1> QED BY <1>1, <1>2 DEF Init

\* Every step is a step of the lifecycle, or leaves what it shows as it was.
LEMMA LifecycleStep == IInv /\ [Next]_vars => [Lifecycle!LifecycleNext]_(Lifecycle!lifecycleVars)
<1> DEFINE Shown == Lifecycle!LifecycleNext \/ UNCHANGED <<status, outcomeOf>>
<1> SUFFICES ASSUME IInv, [Next]_vars PROVE Shown
  BY DEF Lifecycle!lifecycleVars
<1>1. CASE UNCHANGED <<status, turns>>
  BY <1>1 DEF outcomeOf
<1>2. CASE StartInterview
  <2>1. UNCHANGED outcomeOf
    BY <1>2 DEF StartInterview, outcomeOf
  <2> QED BY <1>2, <2>1 DEF StartInterview, Lifecycle!LifecycleNext, Lifecycle!Begin
<1>3. CASE /\ status = "IN_PROGRESS" /\ UNCHANGED status
           /\ turns' = Insert(turns, Len(turns) + 1, NewTurn) /\ Len(turns) < AbsoluteCap
           /\ turns # <<>> => IsResolved(turns[Len(turns)])
  BY <1>3, AskSimulated DEF Lifecycle!LifecycleNext
<1>4. CASE /\ status = "IN_PROGRESS" /\ outcomeOf' = outcomeOf
           /\ turns # <<>> /\ IsResolved(turns[Len(turns)])
           /\ status' = IF AnsweredTurns(turns) # {} THEN "REFLECTION_READY"
                        ELSE "ENDED_NO_REFLECTION"
  BY <1>4, ConcludeSimulated DEF Lifecycle!LifecycleNext
<1>5. ASSUME NEW n \in DOMAIN turns, NEW text \in Answers, SaveTurnAnswer(n, text)
      PROVE  Shown
  <2>1. outcomeOf[n] = "OPEN" /\ outcomeOf' = [outcomeOf EXCEPT ![n] = "ANSWERED"]
    BY <1>5, AnswerOutcome
  <2>2. status = "IN_PROGRESS" /\ UNCHANGED status
    BY <1>5 DEF SaveTurnAnswer, Answerable
  <2> QED BY <2>1, <2>2, ResolveSimulated DEF Lifecycle!LifecycleNext
<1>6. ASSUME NEW r \in Requests, NEW n \in DOMAIN turns, SkipBegin(r, n)
      PROVE  Shown
  <2>1. Skippable(n) /\ turns' = Skipping(n) /\ UNCHANGED status /\ status = "IN_PROGRESS"
    BY <1>6 DEF SkipBegin, Skippable
  <2>2. CASE outcomeOf' = outcomeOf
    BY <2>1, <2>2
  <2>3. CASE outcomeOf[n] = "OPEN" /\ outcomeOf' = [outcomeOf EXCEPT ![n] = "SKIPPED"]
    BY <2>1, <2>3, ResolveSimulated DEF Lifecycle!LifecycleNext
  <2> QED BY <2>1, <2>2, <2>3, SkipOutcome
<1>7. ASSUME NEW n \in DOMAIN turns, SkipClose(n)
      PROVE  Shown
  <2>1. Skippable(n) /\ turns' = Skipping(n) /\ status = "IN_PROGRESS"
    BY <1>7 DEF SkipClose, Skippable
  <2>2. /\ AnsweredTurns(turns') = AnsweredTurns(turns) /\ turns' \in Seq(Turn)
        /\ \A i \in DOMAIN turns : outcomeOf'[i] # "OPEN"
        /\ n = Len(turns) /\ turns # <<>>
    BY <2>1, SkipOutcome
  <2>3. status' = IF AnsweredTurns(turns) # {} THEN "REFLECTION_READY" ELSE "ENDED_NO_REFLECTION"
    BY <1>7, <2>1, <2>2, ClosedStatusIs DEF SkipClose
  <2>4. CASE turns[n].skipped /\ outcomeOf' = outcomeOf
    BY <1>4, <2>1, <2>2, <2>3, <2>4 DEF IsResolved
  <2>5. CASE outcomeOf[n] = "OPEN" /\ outcomeOf' = [outcomeOf EXCEPT ![n] = "SKIPPED"]
    <3>1. Lifecycle!Asked = DOMAIN turns /\ Lifecycle!Asked' = DOMAIN turns
      BY <2>5 DEF Lifecycle!Asked, outcomeOf
    <3>2. Lifecycle!NothingOpen'
      BY <2>2, <3>1 DEF Lifecycle!NothingOpen
    <3>3. status' = IF Lifecycle!SomeAnswer THEN "REFLECTION_READY" ELSE "ENDED_NO_REFLECTION"
      BY <2>3, Outcomes
    <3> QED BY <2>1, <2>5, <3>1, <3>2, <3>3 DEF Lifecycle!LifecycleNext, Lifecycle!Resolve
  <2> QED BY <2>1, <2>4, <2>5, SkipOutcome
<1>8. ASSUME NEW r \in Requests, FirstCommit(r) PROVE Shown
  <2>1. turns = <<>> /\ Len(turns) = 0
    <3>1. turns \in Seq(Turn) /\ Len(turns) \in Nat /\ DOMAIN turns = 1..Len(turns)
      BY TurnsDomain DEF IInv, TypeOK
    <3>2. Len(turns) = 0
      BY <1>8, <3>1 DEF FirstCommit
    <3> QED BY <3>1, <3>2, EmptySeq
  <2> QED BY <1>3, <1>8, <2>1, CapsAssumption DEF FirstCommit
<1>9. ASSUME NEW r \in Requests, NextCommit(r) PROVE Shown
  <2> DEFINE n == request[r].turn
  <2>1. /\ n = Len(turns) /\ n \in DOMAIN turns /\ status = "IN_PROGRESS"
        /\ turns[n].answer # None /\ n \in AnsweredTurns(turns)
    BY <1>9, NextUnmovedFacts DEF NextCommit, IInv
  <2>2. turns # <<>> /\ IsResolved(turns[n]) /\ AnsweredTurns(turns) # {}
    BY <2>1 DEF IsResolved
  <2>3. CASE UNCHANGED <<status, turns>>
    BY <1>1, <2>3
  <2>4. CASE /\ status' = "REFLECTION_READY"
             /\ turns' = [turns EXCEPT ![n].omitted = request[r].action # "ready"]
    <3>1. turns \in [1..Len(turns) -> Turn]
      BY TurnsDomain DEF IInv, TypeOK
    <3>2. outcomeOf' = outcomeOf
      BY <2>1, <2>4, <3>1, OutcomesKept DEF Turn
    <3> QED BY <1>4, <2>1, <2>2, <2>4, <3>2
  <2>5. CASE /\ UNCHANGED status /\ turns' = Insert(turns, n + 1, NewTurn)
             /\ BudgetOf(turns).questions < AbsoluteCap
    <3>1. BudgetOf(turns).questions = Len(turns)
      BY BudgetCounts DEF IInv, TypeOK
    <3> QED BY <1>3, <2>1, <2>2, <2>5, <3>1
  <2> QED BY <1>9, <2>3, <2>4, <2>5 DEF NextCommit
<1>10. ASSUME NEW n \in DOMAIN turns, LegacySkip(n) PROVE Shown
  <2>1. n = Len(turns) /\ turns # <<>> /\ IsResolved(turns[n]) /\ n \in AnsweredTurns(turns)
    <3>1. Len(turns) \in Nat /\ DOMAIN turns = 1..Len(turns)
      BY LastTurn DEF IInv
    <3> QED BY <1>10, <3>1 DEF LegacySkip, IsResolved, AnsweredTurns
  <2>2. UNCHANGED outcomeOf
    BY <1>10 DEF LegacySkip, outcomeOf
  <2> QED BY <1>4, <1>10, <2>1, <2>2 DEF LegacySkip
<1>11. ASSUME NEW r \in Requests, SkipCommit(r) PROVE Shown
  <2> DEFINE n == request[r].turn
  <2>1. /\ n = Len(turns) /\ n \in DOMAIN turns /\ status = "IN_PROGRESS"
        /\ turns[n].skipped /\ request[r].budget = BudgetOf(turns)
    BY <1>11, SkipUnmovedFacts DEF SkipCommit, SkipUnmoved, IInv
  <2>2. turns # <<>> /\ IsResolved(turns[n])
    BY <2>1 DEF IsResolved
  <2>3. CASE UNCHANGED <<status, turns>>
    BY <1>1, <2>3
  <2>4. CASE status' = ClosedStatus(request[r].budget) /\ UNCHANGED turns
    <3>1. UNCHANGED outcomeOf
      BY <2>4 DEF outcomeOf
    <3> QED BY <1>4, <2>1, <2>2, <2>4, <3>1, ClosedStatusIs DEF IInv, TypeOK
  <2>5. CASE /\ request[r].action = "normal" /\ UNCHANGED status
             /\ turns' = Insert(turns, n + 1, NewTurn)
    <3>1. Len(turns) \in Nat /\ Resolved(request[r].budget) = Len(turns)
      BY <1>11, SkipUnmovedFacts, LastTurn DEF SkipCommit, IInv
    <3>2. Len(turns) < AbsoluteCap
      BY <1>11, <2>5, <3>1, CapsAssumption DEF SkipCommit, IInv, RequestInv
    <3> QED BY <1>3, <2>1, <2>2, <2>5, <3>2
  <2> QED BY <1>11, <2>3, <2>4, <2>5 DEF SkipCommit
<1>12. ASSUME NEW n \in DOMAIN turns, DecideEnd(n) PROVE Shown
  <2>1. n = Len(turns) /\ turns # <<>> /\ IsResolved(turns[n])
    BY <1>12, LastTurn DEF DecideEnd, Decidable, IInv
  <2>2. AnsweredTurns(turns) # {} /\ status = "IN_PROGRESS"
    BY <1>12 DEF DecideEnd, Decidable, IInv, RowInv, DecisionsGrounded
  <2>3. UNCHANGED outcomeOf
    BY <1>12 DEF DecideEnd, outcomeOf
  <2> QED BY <1>4, <1>12, <2>1, <2>2, <2>3 DEF DecideEnd
<1>13. ASSUME NEW n \in DOMAIN turns, DecideContinue(n) PROVE Shown
  <2>1. n = Len(turns) /\ IsResolved(turns[n]) /\ status = "IN_PROGRESS" /\ n < AbsoluteCap
    BY <1>13, LastTurn DEF DecideContinue, Decidable, IInv
  <2> QED BY <1>3, <1>13, <2>1 DEF DecideContinue
<1> QED
  BY <1>1, <1>2, <1>5, <1>6, <1>7, <1>8, <1>9, <1>10, <1>11, <1>12, <1>13
     DEF Next, vars, rows, FirstRead, NextRead, NextAnalyze, RequestFails, ApplyCoveragePatch

\* The Interview, seen through its status and what became of each question,
\* goes through the promised lifecycle, for every value of the constants.
THEOREM ImplementsLifecycle == Spec => RefinesLifecycle
BY LifecycleBegins, LifecycleStep, Inductive, PTL
   DEF Spec, RefinesLifecycle, Lifecycle!LifecycleSpec

===============================================================================
