---------------------------- MODULE ReflectionProofs ----------------------------
(***************************************************************************)
(* Proofs about the Reflection composed with the Interview it is written   *)
(* from, for every number of requests for it and every text: a draft       *)
(* holds all the confirmed answers however late it is saved, nothing is    *)
(* lost once it exists, and what can reopen a completed Interview.         *)
(*                                                                         *)
(* IInv of InterviewProofs does not survive completion: a skip that waited *)
(* for its provider may then write to a COMPLETED Interview.  It is kept   *)
(* up to there, and what the Reflection needs afterwards (answers settled, *)
(* one of them at least) is carried by the Reflection's own conjuncts.     *)
(***************************************************************************)
EXTENDS Reflection, InterviewProofs

IsCompleted == Exists /\ reflection.state = "COMPLETED"

ReflectionInv ==
    /\ TypeOK
    /\ ~IsCompleted => IInv
    /\ ReflectionTypeOK
    /\ WrittenFromAnswers
    /\ ReflectionAfterInterview

-------------------------------------------------------------------------------
(* What the Interview's own steps leave to the Reflection *)

LEMMA InterviewStep == IInv /\ [Next]_vars => IInv'
BY TypeOKNext, RowInvNext, RequestInvNext DEF IInv

\* Only complete_reflection gives the status COMPLETED, and an Interview in
\* progress is the only one that most steps write to.
LEMMA StatusSteps ==
    ASSUME [Next]_vars
    PROVE  /\ status' = "COMPLETED" => status = "COMPLETED"
           /\ \/ status \in {"ABSENT", "IN_PROGRESS"}
              \/ UNCHANGED <<status, turns, decisions>>
              \/ \E r \in Requests : SkipCommit(r)
BY DEF Next, vars, rows, StartInterview, FirstRead, FirstCommit, NextRead, NextAnalyze, NextCommit,
       NextUnmoved, SkipBegin, SkipClose, Skippable, SkipCommit, ClosedStatus, RequestFails,
       SaveTurnAnswer, Answerable, LegacySkip, DecideEnd, DecideContinue, Decidable,
       ApplyCoveragePatch

\* A late skip leaves the answers, and a status that fits them.
LEMMA LateSkip ==
    ASSUME TypeOK, NEW r \in Requests, SkipCommit(r), AnsweredTurns(turns) # {}
    PROVE  /\ Confirmed(turns') = Confirmed(turns)
           /\ AnsweredTurns(turns') = AnsweredTurns(turns)
           /\ status' = status \/ status' = "REFLECTION_READY"
<1>1. /\ request[r].turn \in Nat \ {0} /\ BudgetOf(turns) = request[r].budget
      /\ ValidBudget(turns, request[r].turn)
  BY RequestFields DEF TypeOK, SkipCommit, SkipUnmoved
<1>2. turns \in Seq(Turn) /\ request[r].turn = Len(turns)
  BY <1>1, ValidBudgetLast DEF TypeOK
<1>3. turns' = turns \/ turns' = Insert(turns, Len(turns) + 1, NewTurn)
  BY <1>2 DEF SkipCommit
<1>4. /\ AnsweredTurns(turns') = AnsweredTurns(turns)
      /\ \A i \in AnsweredTurns(turns) : turns'[i] = turns[i]
  <2>1. CASE turns' = turns
    BY <2>1
  <2>2. CASE turns' = Insert(turns, Len(turns) + 1, NewTurn)
    <3>1. AnsweredTurns(turns) \subseteq DOMAIN turns
      BY DEF AnsweredTurns
    <3> QED BY <2>2, <3>1, QuestionAsked
  <2> QED BY <1>3, <2>1, <2>2
<1>5. Confirmed(turns') = Confirmed(turns)
  BY <1>4 DEF Confirmed
<1>6. BudgetOf(turns).answered > 0
  <2>1. AnswerCount = BudgetOf(turns).answered /\ AnswerCount \in Nat /\ AnswerCount # 0
    BY CountsFinite
  <2> QED BY <2>1
<1>7. status' = status \/ status' = "REFLECTION_READY"
  BY <1>1, <1>6 DEF SkipCommit, ClosedStatus
<1> QED BY <1>4, <1>5, <1>7

\* Once a Reflection may be written the confirmed answers never change.
LEMMA AnswersSettled ==
    ASSUME TypeOK, [Next]_vars, status \in {"REFLECTION_READY", "COMPLETED"},
           AnsweredTurns(turns) # {}
    PROVE  /\ Confirmed(turns') = Confirmed(turns)
           /\ AnsweredTurns(turns') = AnsweredTurns(turns)
           /\ status' \in {"REFLECTION_READY", "COMPLETED"}
<1>1. CASE UNCHANGED <<status, turns, decisions>>
  BY <1>1
<1>2. ASSUME NEW r \in Requests, SkipCommit(r)
      PROVE  /\ Confirmed(turns') = Confirmed(turns)
             /\ AnsweredTurns(turns') = AnsweredTurns(turns)
             /\ status' \in {"REFLECTION_READY", "COMPLETED"}
  BY <1>2, LateSkip
<1> QED BY <1>1, <1>2, StatusSteps

\* The confirmed answers are what a draft may be written from.
LEMMA ConfirmedSources ==
    ASSUME IInv
    PROVE  Confirmed(turns) \in Sources
<1>1. /\ Len(turns) \in Nat /\ DOMAIN turns = 1..Len(turns) /\ Cardinality(DOMAIN turns) = Len(turns)
      /\ turns \in [1..Len(turns) -> Turn]
  BY TurnsDomain DEF IInv, TypeOK
<1>2. Len(turns) <= AbsoluteCap
  BY <1>1 DEF IInv, RowInv, QuestionsBounded
<1>3. AnsweredTurns(turns) \subseteq 1..Len(turns)
  BY <1>1 DEF AnsweredTurns
<1>4. AnsweredTurns(turns) \in SUBSET (1..AbsoluteCap)
  BY <1>1, <1>2, <1>3, CapsAssumption
<1>5. \A n \in AnsweredTurns(turns) : turns[n].answer \in Answers
  BY <1>1, <1>3 DEF AnsweredTurns, Turn
<1>6. Confirmed(turns) \in [AnsweredTurns(turns) -> Answers]
  BY <1>5 DEF Confirmed
<1> QED BY <1>4, <1>6 DEF Sources

-------------------------------------------------------------------------------
(* The inductive invariant *)

LEMMA ReflectionInvInit == ReflectionInit => ReflectionInv
<1> SUFFICES ASSUME ReflectionInit PROVE ReflectionInv
  OBVIOUS
<1>1. IInv
  BY TypeOKInit, RowInvInit, RequestInvInit DEF ReflectionInit, IInv
<1>2. ReflectionTypeOK
  BY DEF ReflectionInit, ReflectionTypeOK, DraftingState, Idle
<1>3. status # "COMPLETED" /\ ~Exists
  BY DEF ReflectionInit, Init, Exists
<1> QED
  BY <1>1, <1>2, <1>3
     DEF ReflectionInv, IInv, WrittenFromAnswers, ReflectionAfterInterview, IsCompleted

\* The Interview's own steps.
LEMMA ReflectionInvInterview ==
    ASSUME ReflectionInv, [Next]_vars, UNCHANGED reflection, ReflectionTypeOK'
    PROVE  ReflectionInv'
<1>1. TypeOK' /\ (~IsCompleted' => IInv')
  BY TypeOKNext, InterviewStep DEF ReflectionInv, IsCompleted, Exists
<1>2. CASE Exists
  <2>1. /\ Confirmed(turns') = Confirmed(turns)
        /\ AnsweredTurns(turns') = AnsweredTurns(turns)
        /\ status' \in {"REFLECTION_READY", "COMPLETED"}
    BY <1>2, AnswersSettled DEF ReflectionInv, WrittenFromAnswers, ReflectionAfterInterview
  <2>2. status' = "COMPLETED" => status = "COMPLETED"
    BY StatusSteps
  <2> QED
    BY <1>1, <1>2, <2>1, <2>2
       DEF ReflectionInv, WrittenFromAnswers, ReflectionAfterInterview, Exists
<1>3. CASE ~Exists
  <2>1. status' # "COMPLETED" /\ ~Exists'
    BY <1>3, StatusSteps DEF ReflectionInv, ReflectionAfterInterview, Exists
  <2> QED
    BY <1>1, <2>1 DEF ReflectionInv, WrittenFromAnswers, ReflectionAfterInterview
<1> QED BY <1>2, <1>3

\* A request that generates returns, is refused, or fails.
LEMMA DraftingStep ==
    ASSUME ReflectionTypeOK, NEW d \in Drafters, NEW s \in DraftingState,
           drafting' = [drafting EXCEPT ![d] = s], UNCHANGED reflection
    PROVE  ReflectionTypeOK'
BY DEF ReflectionTypeOK

LEMMA ReflectionInvNext == ReflectionInv /\ [ReflectionNext]_allVars => ReflectionInv'
<1> SUFFICES ASSUME ReflectionInv, [ReflectionNext]_allVars PROVE ReflectionInv'
  OBVIOUS
<1>1. ReflectionTypeOK
  BY DEF ReflectionInv
<1>2. CASE [Next]_vars /\ UNCHANGED reflectionVars
  <2>1. ReflectionTypeOK'
    BY <1>1, <1>2 DEF reflectionVars, ReflectionTypeOK
  <2> QED BY <1>2, <2>1, ReflectionInvInterview DEF reflectionVars
<1>3. ASSUME NEW d \in Drafters, NEW s \in DraftingState, UNCHANGED <<vars, reflection>>,
             drafting' = [drafting EXCEPT ![d] = s]
      PROVE  ReflectionInv'
  BY <1>1, <1>3, DraftingStep, ReflectionInvInterview
<1>4. ASSUME NEW d \in Drafters, GenerateRead(d) PROVE ReflectionInv'
  <2>1. CASE Answered(d, "returned")
    <3>1. [step |-> "returned"] \in DraftingState
      BY DEF DraftingState
    <3> QED BY <1>3, <1>4, <2>1, <3>1 DEF GenerateRead, Answered
  <2>2. CASE ~Exists /\ drafting' = [drafting EXCEPT ![d] =
                          [step |-> "save", source |-> Confirmed(turns)]]
    <3>1. Confirmed(turns) \in Sources
      BY <2>2, ConfirmedSources DEF ReflectionInv, IsCompleted
    <3>2. [step |-> "save", source |-> Confirmed(turns)] \in DraftingState
      BY <3>1 DEF DraftingState
    <3> QED BY <1>3, <1>4, <2>2, <3>2 DEF GenerateRead
  <2> QED BY <1>4, <2>1, <2>2 DEF GenerateRead
<1>5. ASSUME NEW d \in Drafters, GenerateSave(d) PROVE ReflectionInv'
  <2>1. [step |-> "returned"] \in DraftingState
    BY DEF DraftingState
  <2>2. CASE UNCHANGED reflection
    BY <1>3, <1>5, <2>1, <2>2 DEF GenerateSave, Answered
  <2>3. CASE ~Exists /\ reflection' = [state |-> "DRAFT", source |-> drafting[d].source,
                                       revised |-> None]
    <3>1. IInv /\ status = "REFLECTION_READY" /\ UNCHANGED vars
      BY <1>5, <2>3 DEF GenerateSave, SaveAccepted, Ready, ReflectionInv, IsCompleted
    <3>2. Confirmed(turns) = drafting[d].source /\ Confirmed(turns) \in Sources
      BY <1>5, <3>1, ConfirmedSources DEF GenerateSave, SaveAccepted
    <3>3. reflection' \in ReflectionRow /\ reflection'.source = Confirmed(turns)
          /\ reflection'.state = "DRAFT"
      BY <2>3, <3>2 DEF ReflectionRow
    <3>4. ReflectionTypeOK'
      BY <1>1, <1>5, <2>1, <3>3 DEF ReflectionTypeOK, GenerateSave, Answered
    <3>5. AnsweredTurns(turns) # {}
      BY <3>1 DEF IInv, RowInv, ClosedOnEvidence
    <3>6. TypeOK' /\ IInv'
      BY <3>1, InterviewStep DEF IInv
    <3>7. UNCHANGED <<status, turns>>
      BY <3>1 DEF vars
    <3> QED
      BY <3>1, <3>3, <3>4, <3>5, <3>6, <3>7
         DEF ReflectionInv, WrittenFromAnswers, ReflectionAfterInterview
  <2> QED BY <1>5, <2>2, <2>3 DEF GenerateSave
<1>6. ASSUME NEW d \in Drafters, GenerateRefused(d) PROVE ReflectionInv'
  <2>1. [step |-> "refused"] \in DraftingState
    BY DEF DraftingState
  <2> QED BY <1>3, <1>6, <2>1 DEF GenerateRefused, Answered
<1>7. ASSUME NEW d \in Drafters, DraftingFails(d) \/ DraftingEnds(d) PROVE ReflectionInv'
  <2>1. Idle \in DraftingState
    BY DEF DraftingState, Idle
  <2> QED BY <1>3, <1>7, <2>1 DEF DraftingFails, DraftingEnds
<1>8. ASSUME NEW d \in Drafters, NEW text \in Markdowns, RevisionRead(d, text)
      PROVE  ReflectionInv'
  <2>1. [step |-> "returned"] \in DraftingState /\ [step |-> "revise", text |-> text] \in DraftingState
    BY DEF DraftingState
  <2> QED BY <1>3, <1>8, <2>1 DEF RevisionRead, Answered
<1>9. ASSUME NEW d \in Drafters, RevisionSave(d) PROVE ReflectionInv'
  <2>1. /\ [step |-> "returned"] \in DraftingState /\ [step |-> "error"] \in DraftingState
        /\ drafting[d].text \in Markdowns
    BY <1>1, <1>9 DEF ReflectionTypeOK, RevisionSave, DraftingState
  <2>2. CASE UNCHANGED reflection /\ Answered(d, "error")
    BY <1>3, <1>9, <2>1, <2>2 DEF RevisionSave, Answered
  <2>3. CASE /\ Exists /\ reflection.state = "DRAFT"
             /\ reflection' = [reflection EXCEPT !.revised = drafting[d].text]
             /\ Answered(d, "returned")
    <3>1. reflection \in ReflectionRow /\ UNCHANGED vars /\ ~IsCompleted
      BY <1>1, <1>9, <2>3 DEF RevisionSave, ReflectionTypeOK, Exists, IsCompleted
    <3>2. /\ reflection' \in ReflectionRow
          /\ reflection'.state = reflection.state /\ reflection'.source = reflection.source
      BY <2>1, <2>3, <3>1 DEF ReflectionRow
    <3>3. ReflectionTypeOK'
      BY <1>1, <2>1, <2>3, <3>2 DEF ReflectionTypeOK, Answered
    <3>4. TypeOK' /\ IInv'
      BY <3>1, InterviewStep DEF ReflectionInv, IInv
    <3>5. UNCHANGED <<status, turns>>
      BY <3>1 DEF vars
    <3> QED
      BY <2>3, <3>2, <3>3, <3>4, <3>5
         DEF ReflectionInv, WrittenFromAnswers, ReflectionAfterInterview
  <2> QED BY <1>9, <2>2, <2>3 DEF RevisionSave
<1>10. CASE CompleteReflection
  <2>1. Exists /\ reflection \in ReflectionRow /\ reflection.state = "DRAFT"
    BY <1>1, <1>10 DEF CompleteReflection, ReflectionTypeOK, Exists
  <2>2. /\ reflection' \in ReflectionRow
        /\ reflection'.state = "COMPLETED" /\ reflection'.source = reflection.source
    BY <1>10, <2>1 DEF CompleteReflection, ReflectionRow
  <2>3. ReflectionTypeOK'
    BY <1>1, <1>10, <2>2 DEF ReflectionTypeOK, CompleteReflection
  <2>4. TypeOK'
    BY <1>10 DEF ReflectionInv, TypeOK, CompleteReflection, Statuses
  <2>5. Exists'
    BY <2>2, RowAssumption DEF Exists
  <2> QED
    BY <1>10, <2>1, <2>2, <2>3, <2>4, <2>5
       DEF ReflectionInv, IsCompleted, WrittenFromAnswers, ReflectionAfterInterview,
           CompleteReflection
<1> QED
  BY <1>2, <1>4, <1>5, <1>6, <1>7, <1>8, <1>9, <1>10 DEF ReflectionNext, allVars

LEMMA ReflectionInductive == ReflectionSpec => []ReflectionInv
BY ReflectionInvInit, ReflectionInvNext, PTL DEF ReflectionSpec

-------------------------------------------------------------------------------
(* The requests *)

\* What a step does to a Reflection that exists.
LEMMA ReflectionStep ==
    ReflectionInv /\ [ReflectionNext]_allVars =>
      (Exists => /\ reflection' # None
                 /\ reflection'.source = reflection.source
                 /\ reflection.state = "COMPLETED" => reflection' = reflection)
<1> SUFFICES ASSUME ReflectionInv, [ReflectionNext]_allVars, Exists
             PROVE  /\ reflection' # None
                    /\ reflection'.source = reflection.source
                    /\ reflection.state = "COMPLETED" => reflection' = reflection
  OBVIOUS
<1>1. reflection \in ReflectionRow /\ reflection # None
  BY DEF ReflectionInv, ReflectionTypeOK, Exists
<1>2. CASE UNCHANGED reflection
  BY <1>1, <1>2
<1>3. ASSUME NEW d \in Drafters, RevisionSave(d), reflection' # reflection
      PROVE  /\ reflection' \in ReflectionRow /\ reflection'.source = reflection.source
             /\ reflection.state # "COMPLETED"
  <2>1. drafting[d].text \in Markdowns
    BY <1>3 DEF ReflectionInv, ReflectionTypeOK, RevisionSave, DraftingState
  <2> QED BY <1>1, <1>3, <2>1 DEF RevisionSave, ReflectionRow
<1>4. ASSUME CompleteReflection
      PROVE  /\ reflection' \in ReflectionRow /\ reflection'.source = reflection.source
             /\ reflection.state # "COMPLETED"
  BY <1>1, <1>4 DEF CompleteReflection, ReflectionRow
<1> QED
  BY <1>2, <1>3, <1>4, RowAssumption
     DEF ReflectionNext, allVars, reflectionVars, GenerateRead, GenerateSave, GenerateRefused,
         RevisionRead, DraftingFails, DraftingEnds

\* What a request holds agrees with the answers, the status and the Reflection.
Justified(q, answers, st, row) ==
    /\ q.step = "save" =>
         /\ q.source = answers /\ DOMAIN answers # {}
         /\ Cardinality(DOMAIN answers) <= MaxConfirmed
         /\ st \in {"REFLECTION_READY", "COMPLETED"}
    /\ q.step = "revise" => row # None
    /\ q.step \in {"refused", "error"} => row # None /\ row.state = "COMPLETED"

DraftingInv == \A d \in Drafters : Justified(drafting[d], Confirmed(turns), status, reflection)

\* No step takes away what a request relies on.
LEMMA JustifiedStays ==
    ASSUME ReflectionInv, [ReflectionNext]_allVars, NEW q,
           Justified(q, Confirmed(turns), status, reflection)
    PROVE  Justified(q, Confirmed(turns'), status', reflection')
<1>1. DOMAIN Confirmed(turns) = AnsweredTurns(turns)
  BY DEF Confirmed
<1>2. Exists => /\ reflection' # None
                /\ reflection.state = "COMPLETED" => reflection' = reflection
  BY ReflectionStep
<1>3. ASSUME DOMAIN Confirmed(turns) # {}, status \in {"REFLECTION_READY", "COMPLETED"}
      PROVE  /\ Confirmed(turns') = Confirmed(turns)
             /\ status' \in {"REFLECTION_READY", "COMPLETED"}
  <2>1. CASE [Next]_vars
    BY <1>1, <1>3, <2>1, AnswersSettled DEF ReflectionInv
  <2>2. CASE CompleteReflection
    BY <2>2 DEF CompleteReflection
  <2> QED
    BY <2>1, <2>2
       DEF ReflectionNext, allVars, GenerateRead, GenerateSave, GenerateRefused, RevisionRead,
           RevisionSave, DraftingFails, DraftingEnds
<1> QED BY <1>2, <1>3 DEF Justified, Exists

LEMMA DraftingInvNext ==
    ReflectionInv /\ DraftingInv /\ [ReflectionNext]_allVars => DraftingInv'
<1> SUFFICES ASSUME ReflectionInv, DraftingInv, [ReflectionNext]_allVars
             PROVE  \A e \in Drafters : Justified(drafting'[e], Confirmed(turns'), status', reflection')
  BY DEF DraftingInv
<1> DEFINE Fine(q) == Justified(q, Confirmed(turns'), status', reflection')
<1>1. \A e \in Drafters : Fine(drafting[e])
  BY JustifiedStays DEF DraftingInv
<1>2. drafting \in [Drafters -> DraftingState]
  BY DEF ReflectionInv, ReflectionTypeOK
<1>3. ASSUME NEW d \in Drafters, NEW q, Fine(q), drafting' = [drafting EXCEPT ![d] = q]
      PROVE  \A e \in Drafters : Fine(drafting'[e])
  <2> HIDE DEF Fine
  <2> QED BY <1>1, <1>2, <1>3
<1>4. /\ Fine([step |-> "returned"]) /\ Fine(Idle)
      /\ \A text : Exists' => Fine([step |-> "revise", text |-> text])
      /\ IsCompleted' => Fine([step |-> "refused"]) /\ Fine([step |-> "error"])
  BY DEF Justified, Idle, IsCompleted, Exists
<1>5. ASSUME UNCHANGED drafting PROVE \A e \in Drafters : Fine(drafting'[e])
  <2> HIDE DEF Fine
  <2> QED BY <1>1, <1>5
<1>6. ASSUME NEW d \in Drafters, GenerateRead(d) PROVE \A e \in Drafters : Fine(drafting'[e])
  <2>1. CASE Answered(d, "returned")
    <3> HIDE DEF Fine
    <3> QED BY <1>3, <1>4, <2>1 DEF Answered
  <2>2. CASE drafting' = [drafting EXCEPT ![d] = [step |-> "save", source |-> Confirmed(turns)]]
             /\ Draftable
    <3>1. Fine([step |-> "save", source |-> Confirmed(turns)])
      <4>1. UNCHANGED <<status, turns>> /\ status = "REFLECTION_READY"
        BY <1>6, <2>2 DEF GenerateRead, Ready, vars
      <4>2. DOMAIN Confirmed(turns) = AnsweredTurns(turns)
        BY DEF Confirmed
      <4> QED BY <2>2, <4>1, <4>2 DEF Justified, Draftable
    <3> HIDE DEF Fine
    <3> QED BY <1>3, <2>2, <3>1
  <2> QED BY <1>6, <2>1, <2>2 DEF GenerateRead
<1>7. ASSUME NEW d \in Drafters,
             GenerateSave(d) \/ GenerateRefused(d) \/ RevisionSave(d) \/ DraftingFails(d) \/ DraftingEnds(d)
      PROVE  \A e \in Drafters : Fine(drafting'[e])
  <2>1. Justified(drafting[d], Confirmed(turns), status, reflection)
    BY DEF DraftingInv
  <2>2. CASE Answered(d, "returned") \/ drafting' = [drafting EXCEPT ![d] = Idle]
    <3> HIDE DEF Fine
    <3> QED BY <1>3, <1>4, <2>2 DEF Answered
  <2>3. CASE GenerateRefused(d)
    <3>1. DOMAIN Confirmed(turns) = AnsweredTurns(turns)
      BY DEF Confirmed
    <3>2. IsCompleted /\ UNCHANGED reflection
      BY <2>1, <2>3, <3>1
         DEF GenerateRefused, SaveAccepted, Draftable, Justified, Ready, ReflectionInv,
             ReflectionAfterInterview, IsCompleted
    <3>3. IsCompleted'
      BY <3>2 DEF IsCompleted, Exists
    <3> HIDE DEF Fine
    <3> QED BY <1>3, <1>4, <2>3, <3>3 DEF GenerateRefused, Answered
  <2>4. CASE RevisionSave(d) /\ UNCHANGED reflection /\ Answered(d, "error")
             /\ (~Exists \/ reflection.state # "DRAFT")
    <3>1. reflection \in ReflectionRow /\ Exists
      BY <2>1, <2>4 DEF RevisionSave, Justified, Exists, ReflectionInv, ReflectionTypeOK
    <3>2. IsCompleted'
      BY <2>4, <3>1 DEF IsCompleted, Exists, ReflectionRow
    <3> HIDE DEF Fine
    <3> QED BY <1>3, <1>4, <2>4, <3>2 DEF Answered
  <2> HIDE DEF Fine
  <2> QED
    BY <1>7, <2>2, <2>3, <2>4 DEF GenerateSave, RevisionSave, DraftingFails, DraftingEnds
<1>8. ASSUME NEW d \in Drafters, NEW text \in Markdowns, RevisionRead(d, text)
      PROVE  \A e \in Drafters : Fine(drafting'[e])
  <2>1. Exists'
    BY <1>8 DEF RevisionRead, Exists
  <2> HIDE DEF Fine
  <2> QED BY <1>3, <1>4, <1>8, <2>1 DEF RevisionRead, Answered
<1> HIDE DEF Fine
<1>9. \A e \in Drafters : Fine(drafting'[e])
  BY <1>5, <1>6, <1>7, <1>8 DEF ReflectionNext, allVars, reflectionVars, CompleteReflection
<1> QED BY <1>9 DEF Fine

LEMMA DraftingInductive == ReflectionSpec => [](ReflectionInv /\ DraftingInv)
<1>1. ReflectionInit => DraftingInv
  BY DEF ReflectionInit, DraftingInv, Justified, Idle
<1> QED BY <1>1, ReflectionInvInit, ReflectionInvNext, DraftingInvNext, PTL DEF ReflectionSpec

-------------------------------------------------------------------------------
(* The theorems *)

\* The Reflection row, and what each request for it holds, keep their shapes.
THEOREM ReflectionTypeCorrect == ReflectionSpec => []ReflectionTypeOK
<1>1. ReflectionInv => ReflectionTypeOK
  BY DEF ReflectionInv
<1> QED BY <1>1, ReflectionInductive, PTL

\* A draft, however late it is saved, holds all the confirmed answers, for every
\* number of requests that generate one.
THEOREM DraftHasAllAnswers == ReflectionSpec => []WrittenFromAnswers
<1>1. ReflectionInv => WrittenFromAnswers
  BY DEF ReflectionInv
<1> QED BY <1>1, ReflectionInductive, PTL

\* A Reflection exists only after the conclusion of its Interview, and an
\* Interview is completed only with it.
THEOREM ReflectionComesAfter == ReflectionSpec => []ReflectionAfterInterview
<1>1. ReflectionInv => ReflectionAfterInterview
  BY DEF ReflectionInv
<1> QED BY <1>1, ReflectionInductive, PTL

\* A generation or a revision is turned down only because the Reflection has
\* been completed meanwhile.
THEOREM RefusalsComeLate == ReflectionSpec => []RefusedOnlyOnceCompleted
<1>1. DraftingInv => RefusedOnlyOnceCompleted
  BY DEF DraftingInv, Justified, RefusedOnlyOnceCompleted, Exists
<1> QED BY <1>1, DraftingInductive, PTL

\* A Reflection is never lost nor written from something else, and no request
\* changes it once it is completed.
THEOREM CompletedIsReadOnly == ReflectionSpec => CompletedReadOnly
<1>1. ReflectionInv /\ [ReflectionNext]_allVars =>
        [Exists => /\ reflection' # None
                   /\ reflection'.source = reflection.source
                   /\ reflection.state = "COMPLETED" => reflection' = reflection]_allVars
  BY ReflectionStep
<1> QED BY <1>1, ReflectionInductive, PTL DEF ReflectionSpec, CompletedReadOnly

\* What the user saved as his revision is replaced by his next one, and by nothing
\* else: no generation that comes second writes over it.
THEOREM RevisionIsKept == ReflectionSpec => RevisionKept
<1> DEFINE Saved == \E d \in Drafters : /\ drafting[d].step = "revise"
                                       /\ drafting[d].text = reflection'.revised
                                       /\ drafting'[d].step = "returned"
           Changed == Exists /\ reflection' # None /\ reflection'.revised # reflection.revised
<1>1. ASSUME ReflectionInv, Changed, NEW d \in Drafters, RevisionSave(d) PROVE Saved
  <2>1. reflection \in ReflectionRow /\ drafting \in [Drafters -> DraftingState]
    BY <1>1 DEF ReflectionInv, ReflectionTypeOK, Exists
  <2>2. /\ reflection' = [reflection EXCEPT !.revised = drafting[d].text]
        /\ drafting' = [drafting EXCEPT ![d] = [step |-> "returned"]]
        /\ drafting[d].step = "revise"
    BY <1>1 DEF RevisionSave, Answered
  <2>3. reflection'.revised = drafting[d].text
    BY <2>1, <2>2 DEF ReflectionRow
  <2>4. drafting'[d].step = "returned"
    BY <2>1, <2>2
  <2> QED BY <2>2, <2>3, <2>4
<1>2. ASSUME ReflectionInv, Changed PROVE ~CompleteReflection
  <2>1. reflection \in ReflectionRow
    BY <1>2 DEF ReflectionInv, ReflectionTypeOK, Exists
  <2> QED BY <1>2, <2>1 DEF CompleteReflection, ReflectionRow
<1>3. ReflectionInv /\ [ReflectionNext]_allVars => [Changed => Saved]_allVars
  <2> SUFFICES ASSUME ReflectionInv, [ReflectionNext]_allVars, Changed PROVE Saved
    OBVIOUS
  <2>1. reflection' # reflection /\ Exists
    OBVIOUS
  <2> HIDE DEF Saved, Changed
  <2>2. PICK d \in Drafters : RevisionSave(d)
    BY <1>2, <2>1 DEF ReflectionNext, allVars, reflectionVars, GenerateRead, GenerateSave,
       GenerateRefused, RevisionRead, DraftingFails, DraftingEnds
  <2> QED BY <1>1, <2>2
<1> QED BY <1>3, ReflectionInductive, PTL DEF ReflectionSpec, RevisionKept

\* A completed Interview is reopened by a skip that waited for its provider, and
\* by nothing else.
THEOREM OnlyLateSkipReopens == ReflectionSpec => ReopenedOnlyByLateSkip
<1>1. ReflectionInv /\ [ReflectionNext]_allVars =>
        [status = "COMPLETED" /\ status' # "COMPLETED" =>
           \E r \in Requests : request[r].step = "skip" /\ request'[r] = Idle]_allVars
  <2> SUFFICES ASSUME ReflectionInv, [ReflectionNext]_allVars,
                      status = "COMPLETED", status' # "COMPLETED"
               PROVE  \E r \in Requests : request[r].step = "skip" /\ request'[r] = Idle
    OBVIOUS
  <2>1. Next
    BY DEF ReflectionNext, allVars, vars, GenerateRead, GenerateSave, GenerateRefused,
           RevisionRead, RevisionSave, DraftingFails, DraftingEnds, CompleteReflection
  <2>2. PICK r \in Requests : SkipCommit(r)
    BY <2>1, StatusSteps
  <2>3. request[r].step = "skip" /\ request'[r] = Idle
    BY <2>2 DEF SkipCommit, ReflectionInv, TypeOK
  <2> QED BY <2>3
<1> QED BY <1>1, ReflectionInductive, PTL DEF ReflectionSpec, ReopenedOnlyByLateSkip

===============================================================================
