-------------------------- MODULE ReflectionStepProofs --------------------------
(***************************************************************************)
(* What the Reflection leaves of the Interview's promises, for every value *)
(* of the constants: the budget of questions and the one result of each    *)
(* hold for good, completed or not, and the two rows go through the        *)
(* lifecycle promised for both.                                            *)
(*                                                                         *)
(* IInv of InterviewProofs ends with the completion.  What is proved here  *)
(* of a completed Interview rests on what little a late skip does to it:   *)
(* one question at most, below the normal cap, after a skipped one.        *)
(***************************************************************************)
EXTENDS ReflectionProofs, InterviewStepProofs

\* A skip asks its question only below the normal cap.
SkipsCapped ==
    \A r \in Requests :
        request[r].step = "skip" /\ request[r].action = "normal"
          => Resolved(request[r].budget) < NormalCap

\* What holds of the questions before and after the completion.
QuestionsInv ==
    /\ OneResultEach
    /\ QuestionsBounded
    /\ AnswersBeyondCapGranted
    /\ ExtraQuestionsMakeUpForSkips
    /\ SkipsCapped

-------------------------------------------------------------------------------
(* The late skip *)

LEMMA SkipsCappedNext ==
    ASSUME TypeOK, SkipsCapped, [Next]_vars
    PROVE  SkipsCapped'
<1> DEFINE Capped(q) == q.step = "skip" /\ q.action = "normal" => Resolved(q.budget) < NormalCap
<1>1. \A r \in Requests : Capped(request[r])
  BY DEF SkipsCapped
<1>2. CASE UNCHANGED request
  BY <1>2 DEF SkipsCapped
<1>3. ASSUME NEW r \in Requests, NEW q, Capped(q), request' = [request EXCEPT ![r] = q]
      PROVE  SkipsCapped'
  <2>1. \A s \in Requests : request'[s] = q \/ request'[s] = request[s]
    BY <1>3 DEF TypeOK
  <2>2. \A s \in Requests : Capped(request'[s])
    <3> HIDE DEF Capped
    <3> QED BY <1>1, <1>3, <2>1
  <2> QED BY <2>2 DEF SkipsCapped
<1>4. Capped(Idle) /\ Capped([step |-> "first"])
  BY DEF Idle
<1>5. ASSUME NEW r \in Requests, NEW n \in DOMAIN turns, NextRead(r, n) PROVE SkipsCapped'
  <2>1. Capped([step |-> "analyze", turn |-> n, answer |-> turns[n].answer,
                before |-> coverage, budget |-> BudgetOf(turns)])
    OBVIOUS
  <2> HIDE DEF Capped
  <2> QED BY <1>3, <1>5, <2>1 DEF NextRead
<1>6. ASSUME NEW r \in Requests, NextAnalyze(r) PROVE SkipsCapped'
  <2>1. PICK q : /\ request' = [request EXCEPT ![r] = q]
                 /\ q = Idle \/ q.step = "commit"
    <3> DEFINE action(projected) == BudgetAction(request[r].budget, projected)
               beyond(projected) ==
                 action(projected) = "cap" /\ request[r].budget.answered > NormalCap
               next(projected) ==
                 IF beyond(projected) /\ ~ExtensionGranted THEN Idle
                 ELSE [step |-> "commit", turn |-> request[r].turn, answer |-> request[r].answer,
                       before |-> request[r].before, budget |-> request[r].budget,
                       projected |-> projected,
                       action |-> IF beyond(projected) THEN "extended" ELSE action(projected)]
    <3>1. PICK projected \in Coverages : request' = [request EXCEPT ![r] = next(projected)]
      BY <1>6 DEF NextAnalyze
    <3>2. next(projected) = Idle \/ next(projected).step = "commit"
      <4> HIDE DEF action, beyond
      <4> QED OBVIOUS
    <3> HIDE DEF next
    <3> QED BY <3>1, <3>2
  <2>2. Capped(q)
    BY <1>4, <2>1
  <2> HIDE DEF Capped
  <2> QED BY <1>3, <2>1, <2>2
<1>7. ASSUME NEW r \in Requests, NEW n \in DOMAIN turns, SkipBegin(r, n) PROVE SkipsCapped'
  <2> DEFINE budget == BudgetOf(Skipping(n))
             action == SkipAction(budget, coverage)
             q == [step |-> "skip", turn |-> n, before |-> coverage, budget |-> budget,
                   action |-> action]
  <2>1. action = "normal" => ~(Resolved(budget) >= NormalCap)
    BY DEF SkipAction
  <2>2. Resolved(budget) \in Nat
    <3>1. Skipping(n) \in Seq(Turn)
      BY SkippingTurns
    <3>2. budget \in Budget
      BY <3>1, BudgetCounts
    <3> QED BY <3>2 DEF Budget, Resolved
  <2>3. action = "normal" => Resolved(budget) < NormalCap
    BY <2>1, <2>2, CapsAssumption
  <2>4. Capped(q)
    BY <2>3
  <2>5. request' = [request EXCEPT ![r] = q]
    BY <1>7 DEF SkipBegin
  <2> HIDE DEF Capped, q
  <2> QED BY <1>3, <2>4, <2>5
<1>8. ASSUME NEW r \in Requests, request' = [request EXCEPT ![r] = Idle] PROVE SkipsCapped'
  <2> HIDE DEF Capped
  <2> QED BY <1>3, <1>4, <1>8
<1>9. ASSUME NEW r \in Requests, FirstRead(r) PROVE SkipsCapped'
  <2> HIDE DEF Capped
  <2> QED BY <1>3, <1>4, <1>9 DEF FirstRead
<1> HIDE DEF Capped
<1>10. ASSUME NEW r \in Requests, FirstCommit(r) \/ NextCommit(r) \/ SkipCommit(r) \/ RequestFails(r)
      PROVE  SkipsCapped'
  BY <1>8, <1>10 DEF FirstCommit, NextCommit, SkipCommit, RequestFails
<1>11. ASSUME \/ StartInterview
              \/ \E n \in DOMAIN turns :
                   \/ \E text \in Answers : SaveTurnAnswer(n, text)
                   \/ LegacySkip(n) \/ SkipClose(n) \/ DecideEnd(n) \/ DecideContinue(n)
              \/ \E updated \in Coverages : ApplyCoveragePatch(updated)
       PROVE  SkipsCapped'
  BY <1>2, <1>11 DEF StartInterview, SaveTurnAnswer, LegacySkip, SkipClose, DecideEnd,
                     DecideContinue, ApplyCoveragePatch
<1> QED BY <1>2, <1>5, <1>6, <1>7, <1>9, <1>10, <1>11 DEF Next, vars

\* What a skip finds when its provider has answered, whatever the status is.
LEMMA LateSkipFinds ==
    ASSUME TypeOK, QuestionsInv, NEW r \in Requests, SkipCommit(r)
    PROVE  /\ Len(turns) \in Nat \ {0} /\ DOMAIN turns = 1..Len(turns)
           /\ turns[Len(turns)].skipped /\ turns[Len(turns)].answer = None
           /\ \A i \in DOMAIN turns : IsResolved(turns[i])
           /\ \/ UNCHANGED turns
              \/ /\ turns' = Insert(turns, Len(turns) + 1, NewTurn)
                 /\ UNCHANGED status /\ Len(turns) < NormalCap
           /\ ExtensionGranted => ExtensionGranted'
<1> DEFINE n == request[r].turn
<1>1. /\ n \in Nat \ {0} /\ ValidBudget(turns, n) /\ BudgetOf(turns) = request[r].budget
      /\ turns[n].skipped /\ n \notin DOMAIN decisions
  BY RequestFields DEF TypeOK, SkipCommit, SkipUnmoved
<1>2. n = Len(turns) /\ n \in DOMAIN turns
  BY <1>1, ValidBudgetLast DEF TypeOK
<1>3. /\ DOMAIN turns = 1..Len(turns)
      /\ \A i : IsLast(i) <=> i = Len(turns) /\ i \in DOMAIN turns
  BY LastTurn
<1>4. turns[n].answer = None /\ \A i \in DOMAIN turns : IsResolved(turns[i])
  BY <1>1, <1>2, <1>3 DEF QuestionsInv, OneResultEach, IsResolved
<1>5. \/ UNCHANGED turns
      \/ turns' = Insert(turns, n + 1, NewTurn) /\ UNCHANGED status /\ request[r].action = "normal"
  BY DEF SkipCommit
<1>6. request[r].action = "normal" => Len(turns) < NormalCap
  <2>1. request[r].step = "skip"
    BY DEF SkipCommit
  <2>2. Resolved(BudgetOf(turns)) = Len(turns)
    BY <1>1, <1>2 DEF ValidBudget
  <2> QED BY <1>1, <2>1, <2>2 DEF QuestionsInv, SkipsCapped
<1>7. ExtensionGranted => ExtensionGranted'
  <2>1. UNCHANGED decisions \/ \E d : decisions' = Insert(decisions, n, d)
    BY DEF SkipCommit
  <2> QED BY <1>1, <2>1 DEF Insert, ExtensionGranted
<1> QED BY <1>1, <1>2, <1>3, <1>4, <1>5, <1>6, <1>7

\* It leaves the questions within their budget.
LEMMA LateSkipInv ==
    ASSUME TypeOK, QuestionsInv, NEW r \in Requests, SkipCommit(r)
    PROVE  /\ OneResultEach' /\ QuestionsBounded' /\ AnswersBeyondCapGranted'
           /\ ExtraQuestionsMakeUpForSkips'
<1>1. /\ Len(turns) \in Nat /\ DOMAIN turns = 1..Len(turns)
      /\ \A i \in DOMAIN turns : IsResolved(turns[i])
      /\ ExtensionGranted => ExtensionGranted'
  BY LateSkipFinds
<1>2. CASE UNCHANGED turns
  BY <1>1, <1>2
     DEF QuestionsInv, OneResultEach, QuestionsBounded, AnswersBeyondCapGranted,
         ExtraQuestionsMakeUpForSkips, IsLast
<1>3. CASE turns' = Insert(turns, Len(turns) + 1, NewTurn) /\ Len(turns) < NormalCap
  <2>1. /\ turns' \in Seq(Turn) /\ Len(turns') = Len(turns) + 1
        /\ DOMAIN turns' = 1..(Len(turns) + 1)
        /\ \A i \in DOMAIN turns : turns'[i] = turns[i]
        /\ turns'[Len(turns) + 1] = NewTurn
        /\ AnsweredTurns(turns') = AnsweredTurns(turns)
        /\ SkippedTurns(turns') = SkippedTurns(turns)
    BY <1>3, QuestionAsked
  <2>2. Cardinality(DOMAIN turns') = Len(turns) + 1
    BY <2>1, TurnsDomain
  <2>3. Cardinality(SkippedTurns(turns')) \in Nat
    BY <2>1, BudgetCounts, FS_CardinalityType
  <2>4. QuestionsBounded' /\ ExtraQuestionsMakeUpForSkips'
    BY <1>1, <1>3, <2>2, <2>3, CapsAssumption DEF QuestionsBounded, ExtraQuestionsMakeUpForSkips
  <2>5. AnswersBeyondCapGranted'
    BY <1>1, <2>1 DEF QuestionsInv, AnswersBeyondCapGranted
  <2>6. OneResultEach'
    <3> SUFFICES ASSUME NEW i \in DOMAIN turns'
                 PROVE  /\ ~(turns'[i].answer # None /\ turns'[i].skipped)
                        /\ ~IsLast(i)' => IsResolved(turns'[i])
      BY DEF OneResultEach
    <3>1. CASE i \in DOMAIN turns
      BY <1>1, <2>1, <3>1 DEF QuestionsInv, OneResultEach
    <3>2. CASE i = Len(turns) + 1
      <4>1. IsLast(i)'
        BY <1>1, <2>1, <3>2 DEF IsLast
      <4> QED BY <2>1, <3>2, <4>1 DEF NewTurn
    <3> QED BY <1>1, <2>1, <3>1, <3>2
  <2> QED BY <2>4, <2>5, <2>6
<1> QED BY <1>2, <1>3, LateSkipFinds

-------------------------------------------------------------------------------
(* The budget of questions *)

\* Steps for the Reflection leave the questions alone.
LEMMA OwnStep ==
    ASSUME [ReflectionNext]_allVars, ~([Next]_vars /\ UNCHANGED reflection)
    PROVE  UNCHANGED <<coverage, turns, decisions, request>>
BY DEF ReflectionNext, allVars, reflectionVars, vars, GenerateRead, GenerateSave, GenerateRefused,
       RevisionRead, RevisionSave, DraftingFails, DraftingEnds, CompleteReflection

LEMMA QuestionsInvNext ==
    ReflectionInv /\ QuestionsInv /\ [ReflectionNext]_allVars => QuestionsInv'
<1> SUFFICES ASSUME ReflectionInv, QuestionsInv, [ReflectionNext]_allVars PROVE QuestionsInv'
  OBVIOUS
<1>1. CASE UNCHANGED <<turns, decisions, request>>
  BY <1>1 DEF QuestionsInv, OneResultEach, QuestionsBounded, AnswersBeyondCapGranted,
              ExtraQuestionsMakeUpForSkips, SkipsCapped, ExtensionGranted, IsLast
<1>2. CASE [Next]_vars /\ UNCHANGED reflection
  <2>1. TypeOK /\ SkipsCapped'
    BY <1>2, SkipsCappedNext DEF ReflectionInv, QuestionsInv
  <2>2. CASE ~IsCompleted
    <3>1. IInv /\ IInv'
      BY <1>2, <2>2, InterviewStep DEF ReflectionInv
    <3>2. ExtraQuestionsMakeUpForSkips'
      BY <1>2, <3>1, ExtraStep DEF QuestionsInv
    <3> QED BY <2>1, <3>1, <3>2 DEF QuestionsInv, IInv, RowInv
  <2>3. CASE IsCompleted
    <3>1. status \in {"REFLECTION_READY", "COMPLETED"}
      BY <2>3 DEF ReflectionInv, ReflectionAfterInterview, IsCompleted
    <3>2. UNCHANGED <<turns, decisions>> \/ \E r \in Requests : SkipCommit(r)
      BY <1>2, <3>1, StatusSteps
    <3>3. CASE UNCHANGED <<turns, decisions>>
      BY <2>1, <3>3 DEF QuestionsInv, OneResultEach, QuestionsBounded, AnswersBeyondCapGranted,
                        ExtraQuestionsMakeUpForSkips, ExtensionGranted, IsLast
    <3> QED BY <2>1, <3>2, <3>3, LateSkipInv DEF QuestionsInv
  <2> QED BY <2>2, <2>3
<1> QED BY <1>1, <1>2, OwnStep

LEMMA QuestionsInvInit == ReflectionInit => QuestionsInv
<1> SUFFICES ASSUME ReflectionInit PROVE QuestionsInv
  OBVIOUS
<1>1. Init /\ IInv
  BY TypeOKInit, RowInvInit, RequestInvInit DEF ReflectionInit, IInv
<1>2. ExtraQuestionsMakeUpForSkips
  BY <1>1, ExtraInit
<1>3. SkipsCapped
  BY <1>1 DEF Init, SkipsCapped, Idle
<1> QED BY <1>1, <1>2, <1>3 DEF QuestionsInv, IInv, RowInv

LEMMA QuestionsInductive == ReflectionSpec => [](ReflectionInv /\ QuestionsInv)
BY QuestionsInvInit, QuestionsInvNext, ReflectionInvInit, ReflectionInvNext, PTL DEF ReflectionSpec

\* No request that outlives the completion asks a question past the absolute cap.
THEOREM CapRespectedForGood == ReflectionSpec => []QuestionsBounded
<1>1. QuestionsInv => QuestionsBounded
  BY DEF QuestionsInv
<1> QED BY <1>1, QuestionsInductive, PTL

\* Nor takes away the choice that the answers past the normal cap rest on.
THEOREM NoUngrantedAnswerForGood == ReflectionSpec => []AnswersBeyondCapGranted
<1>1. QuestionsInv => AnswersBeyondCapGranted
  BY DEF QuestionsInv
<1> QED BY <1>1, QuestionsInductive, PTL

\* A question asked late is below the normal cap, or makes up for a skip.
THEOREM ExtrasMakeUpForGood == ReflectionSpec => []ExtraQuestionsMakeUpForSkips
<1>1. QuestionsInv => ExtraQuestionsMakeUpForSkips
  BY DEF QuestionsInv
<1> QED BY <1>1, QuestionsInductive, PTL

-------------------------------------------------------------------------------
(* The lifecycle of both rows *)

\* The Interview's lifecycle is the same, seen with its Reflection.
LEMMA SameLifecycle ==
    /\ Promise!LifecycleInit <=> Lifecycle!LifecycleInit
    /\ Promise!LifecycleNext <=> Lifecycle!LifecycleNext
BY DEF Promise!LifecycleInit, Lifecycle!LifecycleInit, Promise!LifecycleNext, Lifecycle!LifecycleNext,
       Promise!Begin, Lifecycle!Begin, Promise!Ask, Lifecycle!Ask, Promise!Resolve, Lifecycle!Resolve,
       Promise!Conclude, Lifecycle!Conclude, Promise!NothingOpen, Lifecycle!NothingOpen,
       Promise!SomeAnswer, Lifecycle!SomeAnswer, Promise!Asked, Lifecycle!Asked

LEMMA LateSkipSimulated ==
    ASSUME TypeOK, QuestionsInv, AnsweredTurns(turns) # {}, status = "COMPLETED",
           UNCHANGED noteOf, NEW r \in Requests, SkipCommit(r)
    PROVE  Promise!LateSkip \/ UNCHANGED <<status, outcomeOf>>
<1>1. /\ Len(turns) \in Nat \ {0} /\ DOMAIN turns = 1..Len(turns)
      /\ turns[Len(turns)].skipped /\ turns[Len(turns)].answer = None
      /\ \A i \in DOMAIN turns : IsResolved(turns[i])
  BY LateSkipFinds
<1>2. Promise!Asked = 1..Len(turns) /\ Len(turns) \in Promise!Asked
  BY <1>1 DEF Promise!Asked, outcomeOf
<1>3. Promise!NothingOpen
  BY <1>1, <1>2 DEF Promise!NothingOpen, outcomeOf, IsResolved
<1>4. outcomeOf[Len(turns)] = "SKIPPED"
  BY <1>1 DEF outcomeOf
<1>5. CASE UNCHANGED turns
  <2>1. UNCHANGED outcomeOf
    BY <1>5 DEF outcomeOf
  <2>2. status' = status \/ status' = "REFLECTION_READY"
    BY LateSkip
  <2> QED BY <1>2, <1>3, <1>4, <2>1, <2>2 DEF Promise!LateSkip
<1>6. CASE /\ turns' = Insert(turns, Len(turns) + 1, NewTurn)
           /\ UNCHANGED status /\ Len(turns) < NormalCap
  <2>1. /\ DOMAIN turns' = 1..(Len(turns) + 1)
        /\ \A i \in DOMAIN turns : turns'[i] = turns[i]
        /\ turns'[Len(turns) + 1] = NewTurn
    BY <1>6, QuestionAsked
  <2>2. outcomeOf' = [i \in 1..(Len(turns) + 1) |->
                        IF i = Len(turns) + 1 THEN "OPEN" ELSE outcomeOf[i]]
    <3>1. ASSUME NEW i \in 1..(Len(turns) + 1)
          PROVE  outcomeOf'[i] = IF i = Len(turns) + 1 THEN "OPEN" ELSE outcomeOf[i]
      <4>1. CASE i = Len(turns) + 1
        BY <2>1, <4>1 DEF outcomeOf, NewTurn
      <4>2. CASE i # Len(turns) + 1
        <5>1. i \in DOMAIN turns
          BY <1>1, <4>2
        <5> QED BY <2>1, <4>2, <5>1 DEF outcomeOf
      <4> QED BY <4>1, <4>2
    <3> QED BY <2>1, <3>1 DEF outcomeOf
  <2>3. Len(turns) < AbsoluteCap
    BY <1>1, <1>6, CapsAssumption
  <2> QED BY <1>2, <1>3, <1>4, <1>6, <2>2, <2>3 DEF Promise!LateSkip
<1> QED BY <1>5, <1>6, LateSkipFinds

LEMMA PromiseStep ==
    ReflectionInv /\ QuestionsInv /\ [ReflectionNext]_allVars
      => [Promise!PromiseNext]_(Promise!promiseVars)
<1> DEFINE Shown == Promise!PromiseNext \/ UNCHANGED <<status, outcomeOf, noteOf>>
<1> SUFFICES ASSUME ReflectionInv, QuestionsInv, [ReflectionNext]_allVars PROVE Shown
  BY DEF Promise!promiseVars
<1>1. TypeOK /\ reflection \in ReflectionRow \cup {None}
  BY DEF ReflectionInv, ReflectionTypeOK
<1>2. CASE [Next]_vars /\ UNCHANGED reflection
  <2>1. UNCHANGED noteOf
    BY <1>2 DEF noteOf, Exists
  <2>2. CASE ~Exists
    <3>1. IInv /\ noteOf = "NONE"
      BY <2>2 DEF ReflectionInv, IsCompleted, noteOf
    <3>2. Lifecycle!LifecycleNext \/ UNCHANGED <<status, outcomeOf>>
      BY <1>2, <3>1, LifecycleStep DEF Lifecycle!lifecycleVars
    <3> QED BY <2>1, <3>1, <3>2, SameLifecycle DEF Promise!PromiseNext, Promise!Discuss
  <2>3. CASE Exists
    <3>1. /\ status \in {"REFLECTION_READY", "COMPLETED"}
          /\ AnsweredTurns(turns) # {}
      BY <2>3 DEF ReflectionInv, ReflectionAfterInterview, WrittenFromAnswers
    <3>2. CASE UNCHANGED <<status, turns, decisions>>
      BY <2>1, <3>2 DEF outcomeOf
    <3>3. ASSUME NEW r \in Requests, SkipCommit(r) PROVE Shown
      <4>1. status = "COMPLETED"
        BY <3>1, <3>3 DEF SkipCommit, SkipUnmoved
      <4> QED BY <1>1, <2>1, <3>1, <3>3, <4>1, LateSkipSimulated DEF Promise!PromiseNext
    <3> QED BY <1>2, <3>1, <3>2, <3>3, StatusSteps
  <2> QED BY <2>2, <2>3
<1>3. ASSUME UNCHANGED vars
      PROVE  UNCHANGED <<status, outcomeOf>>
  BY <1>3 DEF vars, outcomeOf
<1>4. ASSUME NEW d \in Drafters, GenerateSave(d), reflection' # reflection PROVE Shown
  <2>1. /\ ~Exists /\ status = "REFLECTION_READY" /\ UNCHANGED vars
        /\ reflection' = [state |-> "DRAFT", source |-> drafting[d].source, revised |-> None]
    BY <1>4 DEF GenerateSave, SaveAccepted, Ready
  <2>2. ReflectionTypeOK' /\ reflection'.state = "DRAFT" /\ reflection' # reflection
    BY <1>4, <2>1, ReflectionInvNext DEF ReflectionInv
  <2>3. noteOf = "NONE" /\ noteOf' = "DRAFT"
    BY <2>1, <2>2 DEF noteOf, Exists
  <2> QED BY <1>3, <2>1, <2>3 DEF Promise!PromiseNext, Promise!Draft, Promise!lifecycleVars
<1>5. ASSUME NEW d \in Drafters, RevisionSave(d) PROVE Shown
  <2>1. CASE UNCHANGED reflection
    BY <1>3, <1>5, <2>1 DEF RevisionSave, noteOf, Exists
  <2>2. CASE Exists /\ reflection' = [reflection EXCEPT !.revised = drafting[d].text]
    <3>1. reflection \in ReflectionRow
      BY <1>1, <2>2 DEF Exists
    <3>2. reflection'.state = reflection.state /\ Exists'
      BY <2>2, <3>1, ReflectionStep DEF ReflectionRow, Exists
    <3> QED BY <1>3, <1>5, <2>2, <3>2 DEF RevisionSave, noteOf
  <2> QED BY <1>5, <2>1, <2>2 DEF RevisionSave
<1>6. CASE CompleteReflection
  <2>1. Exists /\ reflection \in ReflectionRow /\ reflection.state = "DRAFT" /\ status = "REFLECTION_READY"
    BY <1>1, <1>6 DEF CompleteReflection, Exists, ReflectionInv, ReflectionAfterInterview
  <2>2. reflection'.state = "COMPLETED" /\ Exists' /\ status' = "COMPLETED" /\ UNCHANGED turns
    BY <1>6, <2>1, ReflectionStep DEF CompleteReflection, ReflectionRow, Exists
  <2>3. noteOf = "DRAFT" /\ noteOf' = "COMPLETED" /\ UNCHANGED outcomeOf
    BY <2>1, <2>2 DEF noteOf, outcomeOf
  <2> QED BY <2>1, <2>2, <2>3 DEF Promise!PromiseNext, Promise!Complete
<1>7. CASE UNCHANGED <<vars, reflection>>
  BY <1>3, <1>7 DEF noteOf, Exists
<1> HIDE DEF Shown
<1> QED
  BY <1>2, <1>4, <1>5, <1>6, <1>7
     DEF ReflectionNext, allVars, reflectionVars, GenerateRead, GenerateSave, GenerateRefused,
         RevisionRead, DraftingFails, DraftingEnds

\* The Interview and its Reflection, whatever requests for either are in flight,
\* go through the lifecycle promised for both; its one hole is the late skip.
THEOREM ImplementsPromise == ReflectionSpec => RefinesReflectionLifecycle
<1>1. ReflectionInit => Promise!PromiseInit
  BY LifecycleBegins, SameLifecycle DEF ReflectionInit, Promise!PromiseInit, noteOf, Exists
<1> QED BY <1>1, PromiseStep, QuestionsInductive, PTL
        DEF ReflectionSpec, RefinesReflectionLifecycle, Promise!PromiseSpec

===============================================================================
