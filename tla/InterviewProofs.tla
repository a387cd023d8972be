---------------------------- MODULE InterviewProofs ----------------------------
(***************************************************************************)
(* Proofs about the Interview for every number of requests, set of axes    *)
(* and answers, and every value of the two caps: its types, and that the   *)
(* caps, the evidence of a conclusion and the decisions hold in every      *)
(* reachable state, however requests interleave.                           *)
(***************************************************************************)
EXTENDS Interview, FiniteSetTheorems, SequenceTheorems, TLAPS

-------------------------------------------------------------------------------
(* The table of turns and its counts *)

\* The sequence numbers of the turns are 1, 2, ..., as many as there are turns.
LEMMA TurnsDomain ==
    ASSUME NEW ts \in Seq(Turn)
    PROVE  /\ Len(ts) \in Nat
           /\ DOMAIN ts = 1..Len(ts)
           /\ ts \in [1..Len(ts) -> Turn]
           /\ IsFiniteSet(DOMAIN ts)
           /\ Cardinality(DOMAIN ts) = Len(ts)
<1>1. Len(ts) \in Nat /\ DOMAIN ts = 1..Len(ts) /\ ts \in [1..Len(ts) -> Turn]
  BY LenProperties
<1>2. IsFiniteSet(1..Len(ts)) /\ Cardinality(1..Len(ts)) = Len(ts)
  BY <1>1, FS_Interval
<1> QED
  BY <1>1, <1>2

\* The counts of a budget are numbers, and no count exceeds that of the turns.
LEMMA BudgetCounts ==
    ASSUME NEW ts \in Seq(Turn)
    PROVE  /\ BudgetOf(ts) \in Budget
           /\ BudgetOf(ts).questions = Len(ts)
           /\ IsFiniteSet(AnsweredTurns(ts)) /\ IsFiniteSet(SkippedTurns(ts))
           /\ BudgetOf(ts).answered = Cardinality(AnsweredTurns(ts))
           /\ BudgetOf(ts).answered <= Len(ts)
<1>1. IsFiniteSet(DOMAIN ts) /\ Cardinality(DOMAIN ts) = Len(ts) /\ Len(ts) \in Nat
  BY TurnsDomain
<1>2. AnsweredTurns(ts) \in SUBSET DOMAIN ts /\ SkippedTurns(ts) \in SUBSET DOMAIN ts
  BY DEF AnsweredTurns, SkippedTurns
<1>3. IsFiniteSet(AnsweredTurns(ts)) /\ Cardinality(AnsweredTurns(ts)) <= Len(ts)
  BY <1>1, <1>2, FS_Subset
<1>4. IsFiniteSet(SkippedTurns(ts))
  BY <1>1, <1>2, FS_Subset
<1>5. Cardinality(AnsweredTurns(ts)) \in Nat /\ Cardinality(SkippedTurns(ts)) \in Nat
  BY <1>3, <1>4, FS_CardinalityType
<1> QED
  BY <1>1, <1>3, <1>4, <1>5 DEF BudgetOf, Budget

\* A question created at the next sequence number is put after the last one.
LEMMA InsertNext ==
    ASSUME NEW ts \in Seq(Turn), NEW t \in Turn
    PROVE  LET us == Insert(ts, Len(ts) + 1, t) IN
           /\ us \in Seq(Turn)
           /\ Len(us) = Len(ts) + 1
           /\ \A i \in 1..Len(ts) : us[i] = ts[i]
           /\ us[Len(ts) + 1] = t
<1> DEFINE k == Len(ts) + 1
           us == Insert(ts, k, t)
<1>1. Len(ts) \in Nat /\ DOMAIN ts = 1..Len(ts) /\ \A i \in 1..Len(ts) : ts[i] \in Turn
  BY TurnsDomain
<1>2. k \in Nat /\ DOMAIN ts \cup {k} = 1..k
  BY <1>1
<1>3. us = [i \in 1..k |-> IF i = k THEN t ELSE ts[i]]
  BY <1>2 DEF Insert
<1>4. us \in [1..k -> Turn]
  BY <1>1, <1>2, <1>3
<1>5. us \in Seq(Turn)
  BY <1>2, <1>4, SeqDef
<1>6. Len(us) = k
  BY <1>2, <1>4, <1>5, LenProperties
<1> QED
  BY <1>1, <1>2, <1>3, <1>5, <1>6

\* Changing one turn keeps the others and their number.
LEMMA TurnChanged ==
    ASSUME NEW ts \in Seq(Turn), NEW n \in DOMAIN ts, NEW t \in Turn
    PROVE  LET us == [ts EXCEPT ![n] = t] IN
           /\ us \in Seq(Turn)
           /\ Len(us) = Len(ts)
           /\ DOMAIN us = DOMAIN ts
           /\ \A i \in DOMAIN ts : us[i] = IF i = n THEN t ELSE ts[i]
  BY TurnsDomain, ExceptSeq

-------------------------------------------------------------------------------
(* Types *)

\* What a request holds in each of its steps.
LEMMA RequestFields ==
    ASSUME NEW q \in RequestState
    PROVE  /\ q.step \in {"idle", "first", "analyze", "commit", "skip"}
           /\ q.step \in {"analyze", "commit", "skip"} =>
                q.turn \in Nat \ {0} /\ q.before \in Coverages /\ q.budget \in Budget
           /\ q.step \in {"analyze", "commit"} => q.answer \in Answers
           /\ q.step = "commit" =>
                /\ q.projected \in Coverages
                /\ q.action \in {"ready", "cap", "extended", "soft", "normal"}
           /\ q.step = "skip" => q.action \in {"cap", "soft", "normal"}
  BY DEF RequestState

\* Where the count agrees with a sequence number, that turn is the last one.
LEMMA ValidBudgetLast ==
    ASSUME NEW ts \in Seq(Turn), NEW n \in Nat \ {0}, ValidBudget(ts, n)
    PROVE  n = Len(ts) /\ n \in DOMAIN ts
<1>1. n = Len(ts)
  BY BudgetCounts DEF ValidBudget
<1> QED
  BY <1>1, TurnsDomain

\* A field of a turn changes: the others, and the other turns, stay.
LEMMA SkippingTurns ==
    ASSUME TypeOK, NEW n \in DOMAIN turns
    PROVE  /\ Skipping(n) \in Seq(Turn)
           /\ Len(Skipping(n)) = Len(turns)
           /\ DOMAIN Skipping(n) = DOMAIN turns
           /\ \A i \in DOMAIN turns :
                /\ Skipping(n)[i].answer = turns[i].answer
                /\ Skipping(n)[i].omitted = turns[i].omitted
                /\ Skipping(n)[i].skipped = (i = n \/ turns[i].skipped)
<1> DEFINE t == [turns[n] EXCEPT !.skipped = TRUE]
<1>1. \A i \in DOMAIN turns : turns[i] \in Turn
  BY TurnsDomain DEF TypeOK
<1>2. t \in Turn
  BY <1>1 DEF Turn
<1>3. Skipping(n) = [turns EXCEPT ![n] = t]
  BY DEF Skipping
<1>4. /\ t.answer = turns[n].answer /\ t.omitted = turns[n].omitted
      /\ t.skipped = TRUE
  BY <1>1 DEF Turn
<1>5. \A i \in DOMAIN turns : turns[i].skipped \in BOOLEAN
  BY <1>1 DEF Turn
<1>6. /\ Skipping(n) \in Seq(Turn)
      /\ Len(Skipping(n)) = Len(turns)
      /\ DOMAIN Skipping(n) = DOMAIN turns
      /\ \A i \in DOMAIN turns : Skipping(n)[i] = IF i = n THEN t ELSE turns[i]
  BY <1>2, <1>3, TurnChanged DEF TypeOK
<1> HIDE DEF t
<1>7. ASSUME NEW i \in DOMAIN turns
      PROVE  /\ Skipping(n)[i].answer = turns[i].answer
             /\ Skipping(n)[i].omitted = turns[i].omitted
             /\ Skipping(n)[i].skipped = (i = n \/ turns[i].skipped)
  <2>1. CASE i = n
    BY <1>4, <1>6, <2>1
  <2>2. CASE i # n
    BY <1>5, <1>6, <2>2
  <2> QED
    BY <2>1, <2>2
<1> QED
  BY <1>6, <1>7

\* A question is asked: it is the last turn, open, and nothing else changes.
LEMMA QuestionAsked ==
    ASSUME TypeOK, turns' = Insert(turns, Len(turns) + 1, NewTurn)
    PROVE  /\ turns' \in Seq(Turn)
           /\ Len(turns') = Len(turns) + 1
           /\ DOMAIN turns' = 1..(Len(turns) + 1)
           /\ DOMAIN turns \subseteq DOMAIN turns'
           /\ \A i \in DOMAIN turns : turns'[i] = turns[i]
           /\ turns'[Len(turns) + 1] = NewTurn
           /\ AnsweredTurns(turns') = AnsweredTurns(turns)
           /\ SkippedTurns(turns') = SkippedTurns(turns)
<1>1. Len(turns) \in Nat /\ DOMAIN turns = 1..Len(turns)
  BY TurnsDomain DEF TypeOK
<1>2. NewTurn \in Turn
  BY DEF NewTurn, Turn
<1>3. /\ turns' \in Seq(Turn)
      /\ Len(turns') = Len(turns) + 1
      /\ \A i \in 1..Len(turns) : turns'[i] = turns[i]
      /\ turns'[Len(turns) + 1] = NewTurn
  BY <1>2, InsertNext DEF TypeOK
<1>4. DOMAIN turns' = 1..(Len(turns) + 1)
  BY <1>3, TurnsDomain
<1>5. DOMAIN turns' = DOMAIN turns \cup {Len(turns) + 1}
  <2>1. \A k \in Nat : 1..(k + 1) = (1..k) \cup {k + 1}
    OBVIOUS
  <2> QED
    BY <1>1, <1>4, <2>1
<1>6. turns'[Len(turns) + 1].answer = None /\ turns'[Len(turns) + 1].skipped = FALSE
  BY <1>3 DEF NewTurn
<1>7. \A i \in DOMAIN turns : turns'[i] = turns[i]
  BY <1>1, <1>3
<1>8. AnsweredTurns(turns') = AnsweredTurns(turns)
  BY <1>5, <1>6, <1>7 DEF AnsweredTurns
<1>9. SkippedTurns(turns') = SkippedTurns(turns)
  BY <1>5, <1>6, <1>7 DEF SkippedTurns
<1> QED
  BY <1>3, <1>4, <1>5, <1>7, <1>8, <1>9

\* A new decision, on a turn that exists.
LEMMA DecisionInserted ==
    ASSUME TypeOK, NEW n \in DOMAIN turns, NEW d \in Decision
    PROVE  LET ds == Insert(decisions, n, d) IN
           /\ DOMAIN ds = DOMAIN decisions \cup {n}
           /\ DOMAIN ds \subseteq DOMAIN turns
           /\ \A i \in DOMAIN ds : ds[i] \in Decision
  BY DEF TypeOK, Insert

LEMMA TypeOKInit == Init => TypeOK
<1> SUFFICES ASSUME Init PROVE TypeOK
  OBVIOUS
<1>1. status \in Statuses /\ coverage \in Coverages
  BY DEF Init, Statuses, Coverages, UNCOVERED, PARTIAL, COVERED
<1>2. turns \in Seq(Turn)
  <2>1. CASE turns = <<>>
    BY <2>1, EmptySeq
  <2>2. ASSUME NEW n \in 1..NormalCap, NEW text \in Answers,
               turns = [i \in 1..n |-> [answer |-> text, skipped |-> FALSE, omitted |-> i = n]]
        PROVE  turns \in Seq(Turn)
    <3>1. n \in Nat
      BY CapsAssumption
    <3>2. \A i \in 1..n : [answer |-> text, skipped |-> FALSE, omitted |-> i = n] \in Turn
      BY DEF Turn
    <3>3. turns \in [1..n -> Turn]
      BY <2>2, <3>2
    <3> QED
      BY <3>1, <3>3, SeqDef
  <2> QED
    BY <2>1, <2>2 DEF Init
<1>3. DOMAIN decisions = {}
  BY DEF Init
<1>4. request \in [Requests -> RequestState]
  BY DEF Init, RequestState, Idle
<1> QED
  BY <1>1, <1>2, <1>3, <1>4 DEF TypeOK

LEMMA TypeOKNext == TypeOK /\ [Next]_vars => TypeOK'
<1> SUFFICES ASSUME TypeOK, [Next]_vars PROVE TypeOK'
  OBVIOUS
<1> USE DEF TypeOK
<1>0. /\ DOMAIN turns = 1..Len(turns) /\ Len(turns) \in Nat
      /\ \A n \in DOMAIN turns : turns[n] \in Turn
  BY TurnsDomain
<1>1. CASE StartInterview
  BY <1>1 DEF StartInterview, Statuses, Coverages, UNCOVERED
<1>2. ASSUME NEW r \in Requests, FirstRead(r) PROVE TypeOK'
  BY <1>2 DEF FirstRead, rows, RequestState
<1>3. ASSUME NEW r \in Requests, FirstCommit(r) PROVE TypeOK'
  <2>1. Len(turns) = 0 /\ turns' = Insert(turns, Len(turns) + 1, NewTurn)
    BY <1>0, <1>3 DEF FirstCommit
  <2>2. turns' \in Seq(Turn) /\ DOMAIN turns \subseteq DOMAIN turns'
    BY <2>1, QuestionAsked
  <2> QED
    BY <1>3, <2>2 DEF FirstCommit, RequestState, Idle
<1>4. ASSUME NEW r \in Requests, NEW n \in DOMAIN turns, NextRead(r, n) PROVE TypeOK'
  <2>1. BudgetOf(turns) \in Budget /\ n \in Nat \ {0}
    BY <1>0, BudgetCounts
  <2>2. turns[n].answer \in Answers
    BY <1>0, <1>4 DEF NextRead, Turn
  <2>3. request'[r] \in RequestState
    BY <1>4, <2>1, <2>2 DEF NextRead, RequestState
  <2> QED
    BY <1>4, <2>3 DEF NextRead, rows
<1>5. ASSUME NEW r \in Requests, NextAnalyze(r) PROVE TypeOK'
  <2>1. request[r] \in RequestState /\ request[r].step = "analyze"
    BY <1>5 DEF NextAnalyze
  <2> DEFINE Analysed(projected) ==
               [step |-> "commit", turn |-> request[r].turn, answer |-> request[r].answer,
                before |-> request[r].before, budget |-> request[r].budget,
                projected |-> projected,
                action |-> IF BudgetAction(request[r].budget, projected) = "cap"
                                /\ request[r].budget.answered > NormalCap
                           THEN "extended" ELSE BudgetAction(request[r].budget, projected)]
  <2>2. PICK projected \in Coverages :
           \/ request' = [request EXCEPT ![r] = Idle]
           \/ request' = [request EXCEPT ![r] = Analysed(projected)]
    BY <1>5 DEF NextAnalyze
  <2>3. request[r].budget \in Budget
    BY <2>1, RequestFields
  <2>4. BudgetAction(request[r].budget, projected) \in {"ready", "cap", "soft", "normal"}
    BY <2>3, CapsAssumption DEF BudgetAction, Budget
  <2>5. Idle \in RequestState /\ Analysed(projected) \in RequestState
    BY <2>1, <2>4, RequestFields DEF RequestState, Idle
  <2> HIDE DEF Analysed
  <2> QED
    BY <1>5, <2>2, <2>5 DEF NextAnalyze, rows
<1>6. ASSUME NEW r \in Requests, NextCommit(r) PROVE TypeOK'
  <2> DEFINE q == request[r]
  <2>1. q \in RequestState /\ q.step = "commit" /\ NextUnmoved(q)
    BY <1>6 DEF NextCommit
  <2>2. /\ q.turn \in Nat \ {0} /\ q.projected \in Coverages
        /\ q.turn = Len(turns) /\ q.turn \in DOMAIN turns
    BY <2>1, RequestFields, ValidBudgetLast DEF NextUnmoved
  <2>3. coverage' \in Coverages /\ request' \in [Requests -> RequestState]
    BY <1>6, <2>2 DEF NextCommit, RequestState, Idle
  <2>4. CASE /\ status' = "REFLECTION_READY"
             /\ turns' = [turns EXCEPT ![q.turn].omitted = q.action # "ready"]
             /\ UNCHANGED decisions
    <3>1. [turns[q.turn] EXCEPT !.omitted = (q.action # "ready")] \in Turn
      BY <1>0, <2>2 DEF Turn
    <3>2. turns' \in Seq(Turn) /\ DOMAIN turns' = DOMAIN turns
      BY <2>2, <2>4, <3>1, TurnChanged
    <3> QED
      BY <2>3, <2>4, <3>2 DEF Statuses
  <2>5. ASSUME NEW axis \in Axes,
               decisions' = Insert(decisions, q.turn,
                 [kind |-> IF q.action = "soft" THEN "SOFT_STOP" ELSE "CAP_EXTENSION",
                  selection |-> None, axis |-> axis]),
               UNCHANGED <<status, turns>>
        PROVE  TypeOK'
    <3>1. [kind |-> IF q.action = "soft" THEN "SOFT_STOP" ELSE "CAP_EXTENSION",
           selection |-> None, axis |-> axis] \in Decision
      BY DEF Decision
    <3> QED
      BY <2>2, <2>3, <2>5, <3>1, DecisionInserted
  <2>6. CASE turns' = Insert(turns, q.turn + 1, NewTurn) /\ UNCHANGED <<status, decisions>>
    BY <2>2, <2>3, <2>6, QuestionAsked
  <2> QED
    BY <1>6, <2>4, <2>5, <2>6 DEF NextCommit
<1>7. ASSUME NEW r \in Requests, NEW n \in DOMAIN turns, SkipBegin(r, n) PROVE TypeOK'
  <2>1. turns' = Skipping(n) /\ turns' \in Seq(Turn) /\ DOMAIN turns' = DOMAIN turns
    BY <1>7, SkippingTurns DEF SkipBegin
  <2>2. BudgetOf(Skipping(n)) \in Budget /\ n \in Nat \ {0}
    BY <1>0, <2>1, BudgetCounts
  <2>3. SkipAction(BudgetOf(Skipping(n)), coverage) \in {"close", "cap", "soft", "normal"}
    BY DEF SkipAction
  <2>4. request'[r] \in RequestState
    BY <1>7, <2>2, <2>3 DEF SkipBegin, RequestState
  <2> QED
    BY <1>7, <2>1, <2>4 DEF SkipBegin
<1>8. ASSUME NEW r \in Requests, SkipCommit(r) PROVE TypeOK'
  <2> DEFINE q == request[r]
  <2>1. q \in RequestState /\ q.step = "skip" /\ SkipUnmoved(q)
    BY <1>8 DEF SkipCommit
  <2>2. q.turn \in Nat \ {0} /\ q.turn = Len(turns) /\ q.turn \in DOMAIN turns
    BY <2>1, RequestFields, ValidBudgetLast DEF SkipUnmoved
  <2>3. UNCHANGED coverage /\ request' \in [Requests -> RequestState]
    BY <1>8 DEF SkipCommit, RequestState, Idle
  <2>4. CASE status' = ClosedStatus(q.budget) /\ UNCHANGED <<turns, decisions>>
    BY <2>3, <2>4 DEF ClosedStatus, Statuses
  <2>5. ASSUME NEW axis \in Axes,
               decisions' = Insert(decisions, q.turn,
                 [kind |-> IF q.action = "soft" THEN "SOFT_STOP" ELSE "CAP_EXTENSION",
                  selection |-> None, axis |-> axis]),
               UNCHANGED <<status, turns>>
        PROVE  TypeOK'
    <3>1. [kind |-> IF q.action = "soft" THEN "SOFT_STOP" ELSE "CAP_EXTENSION",
           selection |-> None, axis |-> axis] \in Decision
      BY DEF Decision
    <3> QED
      BY <2>2, <2>3, <2>5, <3>1, DecisionInserted
  <2>6. CASE turns' = Insert(turns, q.turn + 1, NewTurn) /\ UNCHANGED <<status, decisions>>
    BY <2>2, <2>3, <2>6, QuestionAsked
  <2> QED
    BY <1>8, <2>4, <2>5, <2>6 DEF SkipCommit
<1>9. ASSUME NEW r \in Requests, RequestFails(r) PROVE TypeOK'
  BY <1>9 DEF RequestFails, rows, RequestState, Idle
<1>10. ASSUME NEW n \in DOMAIN turns, NEW text \in Answers, SaveTurnAnswer(n, text)
       PROVE  TypeOK'
  <2>1. [turns[n] EXCEPT !.answer = text] \in Turn
    BY <1>0 DEF Turn
  <2>2. turns' \in Seq(Turn) /\ DOMAIN turns' = DOMAIN turns
    BY <1>10, <2>1, TurnChanged DEF SaveTurnAnswer
  <2> QED
    BY <1>10, <2>2 DEF SaveTurnAnswer
<1>11. ASSUME NEW n \in DOMAIN turns, LegacySkip(n) PROVE TypeOK'
  BY <1>11 DEF LegacySkip, Statuses
<1>12. ASSUME NEW n \in DOMAIN turns, SkipClose(n) PROVE TypeOK'
  BY <1>12, SkippingTurns DEF SkipClose, ClosedStatus, Statuses
<1>13. ASSUME NEW n \in DOMAIN turns, DecideEnd(n) PROVE TypeOK'
  <2>1. n \in DOMAIN decisions /\ decisions[n] \in Decision
    BY <1>13 DEF DecideEnd, Decidable
  <2>2. [decisions[n] EXCEPT !.selection = "END"] \in Decision
    BY <2>1 DEF Decision
  <2> QED
    BY <1>13, <2>1, <2>2 DEF DecideEnd, Statuses
<1>14. ASSUME NEW n \in DOMAIN turns, DecideContinue(n) PROVE TypeOK'
  <2>1. n \in DOMAIN decisions /\ decisions[n] \in Decision
    BY <1>14 DEF DecideContinue, Decidable
  <2>2. [decisions[n] EXCEPT !.selection = "CONTINUE"] \in Decision
    BY <2>1 DEF Decision
  <2>3. n = Len(turns)
    BY <1>0, <1>14, ValidBudgetLast DEF DecideContinue, MayContinue
  <2>4. turns' \in Seq(Turn) /\ DOMAIN turns \subseteq DOMAIN turns'
    BY <1>14, <2>3, QuestionAsked DEF DecideContinue
  <2> QED
    BY <1>14, <2>1, <2>2, <2>4 DEF DecideContinue
<1>15. ASSUME NEW updated \in Coverages, ApplyCoveragePatch(updated) PROVE TypeOK'
  BY <1>15 DEF ApplyCoveragePatch
<1>16. CASE UNCHANGED vars
  BY <1>16 DEF vars
<1> QED
  BY <1>1, <1>2, <1>3, <1>4, <1>5, <1>6, <1>7, <1>8, <1>9, <1>10, <1>11, <1>12,
     <1>13, <1>14, <1>15, <1>16 DEF Next

\* Whatever the number of requests and the caps, the rows keep their shapes.
THEOREM TypeCorrect == Spec => []TypeOK
  BY TypeOKInit, TypeOKNext, PTL DEF Spec

-------------------------------------------------------------------------------
(* The inductive invariant *)

AnswerCount == Cardinality(AnsweredTurns(turns))

\* While a question is open, answering it will not pass the normal cap, or the
\* user has agreed to.
RoomToAnswer ==
    \A n \in DOMAIN turns : ~IsResolved(turns[n]) => AnswerCount < NormalCap \/ ExtensionGranted

\* A choice is offered on some answer, and an early stop below the normal cap:
\* going on from it cannot pass that cap.
DecisionsGrounded ==
    \A n \in DOMAIN decisions :
        /\ AnsweredTurns(turns) # {}
        /\ decisions[n].kind = "SOFT_STOP" /\ decisions[n].selection = None
             => AnswerCount < NormalCap

\* Only an answer that waits for no choice is marked as the last one.
OmittedAnswered ==
    \A n \in DOMAIN turns :
        turns[n].omitted => turns[n].answer # None /\ n \notin DOMAIN decisions

\* The rows alone: what every transaction finds and leaves.
RowInv ==
    /\ status # "COMPLETED"
    /\ status = "ABSENT" => turns = <<>>
    /\ OneResultEach
    /\ QuestionsBounded
    /\ AnswersBeyondCapGranted
    /\ RoomToAnswer
    /\ ClosedOnEvidence
    /\ DecisionsConsistent
    /\ DecisionsGrounded
    /\ OmittedAnswered

\* What a request that waits for its provider may rely on, whatever the others
\* have done to the rows since it read them.
RequestInv ==
    \A r \in Requests :
        LET q == request[r] IN
        /\ q.step = "commit" =>
             /\ q.action \in {"soft", "normal"} => q.budget.answered < NormalCap
             /\ q.action = "extended" => ExtensionGranted
        /\ q.step = "skip" =>
             /\ q.action = "normal" => Resolved(q.budget) < NormalCap
             /\ q.action = "soft" => q.budget.answered < NormalCap
             /\ q.action \in {"soft", "cap"} => q.budget.answered > 0

IInv == TypeOK /\ RowInv /\ RequestInv

-------------------------------------------------------------------------------
(* How a transaction changes the rows: asking, answering, skipping, deciding, *)
(* concluding.  Each kind of change keeps RowInv, whoever makes it.           *)

\* The last turn, as the highest sequence number.
LEMMA LastTurn ==
    ASSUME TypeOK, NEW n
    PROVE  /\ Len(turns) \in Nat /\ DOMAIN turns = 1..Len(turns)
           /\ IsLast(n) <=> n = Len(turns) /\ n \in DOMAIN turns
<1>1. Len(turns) \in Nat /\ DOMAIN turns = 1..Len(turns)
  BY TurnsDomain DEF TypeOK
<1>2. \A k \in Nat : (n \in 1..k /\ \A m \in 1..k : m <= n) <=> (n = k /\ n \in 1..k)
  OBVIOUS
<1> QED
  BY <1>1, <1>2 DEF IsLast

LEMMA CountsFinite ==
    ASSUME TypeOK
    PROVE  /\ IsFiniteSet(AnsweredTurns(turns)) /\ AnswerCount \in Nat
           /\ AnswerCount = BudgetOf(turns).answered
           /\ AnswerCount = 0 <=> AnsweredTurns(turns) = {}
<1>1. IsFiniteSet(AnsweredTurns(turns)) /\ AnswerCount = BudgetOf(turns).answered
  BY BudgetCounts DEF TypeOK, AnswerCount
<1> QED
  BY <1>1, FS_CardinalityType, FS_EmptySet DEF AnswerCount

\* A question is asked, with or without the choice to go on being made.
LEMMA Asking ==
    ASSUME TypeOK, RowInv, status = "IN_PROGRESS", UNCHANGED status,
           turns' = Insert(turns, Len(turns) + 1, NewTurn),
           Len(turns) < AbsoluteCap,
           turns # <<>> => IsResolved(turns[Len(turns)]),
           AnswerCount < NormalCap \/ ExtensionGranted',
           \/ UNCHANGED decisions /\ Len(turns) \notin DOMAIN decisions
           \/ /\ Len(turns) \in DOMAIN decisions
              /\ decisions[Len(turns)].selection = None
              /\ decisions' = [decisions EXCEPT ![Len(turns)].selection = "CONTINUE"]
    PROVE  RowInv'
<1> DEFINE k == Len(turns)
<1>1. /\ k \in Nat /\ DOMAIN turns = 1..k
      /\ turns' \in Seq(Turn) /\ Len(turns') = k + 1
      /\ DOMAIN turns' = 1..(k + 1)
      /\ \A i \in DOMAIN turns : turns'[i] = turns[i]
      /\ turns'[k + 1] = NewTurn
      /\ AnsweredTurns(turns') = AnsweredTurns(turns)
  BY QuestionAsked, TurnsDomain DEF TypeOK
<1>2. AnswerCount' = AnswerCount
  BY <1>1 DEF AnswerCount
<1>3. \A i \in DOMAIN turns : IsResolved(turns[i])
  BY <1>1, LastTurn DEF RowInv, OneResultEach
<1>4. \A n : IsLast(n)' <=> n = k + 1
  BY <1>1 DEF IsLast
<1>5. \A n : IsLast(n) <=> n = k /\ n \in DOMAIN turns
  BY LastTurn
<1>6. /\ ~IsResolved(NewTurn) /\ NewTurn.answer = None
      /\ NewTurn.skipped = FALSE /\ NewTurn.omitted = FALSE
  BY DEF NewTurn, IsResolved
<1>7. DOMAIN decisions \subseteq DOMAIN turns /\ DOMAIN decisions' = DOMAIN decisions
  BY DEF TypeOK
<1>8. \A n \in DOMAIN decisions : decisions[n] \in Decision
  BY DEF TypeOK
<1>9. \A n \in DOMAIN decisions' :
        /\ decisions'[n].kind = decisions[n].kind
        /\ \/ decisions'[n].selection = decisions[n].selection /\ decisions[n].selection # None
           \/ decisions'[n].selection = "CONTINUE" /\ n = k
  <2>1. \A n \in DOMAIN decisions : n # k => decisions[n].selection # None
    BY <1>5 DEF RowInv, DecisionsConsistent
  <2> QED
    BY <1>7, <1>8, <2>1 DEF Decision
<1>10. ExtensionGranted => ExtensionGranted'
  BY <1>7, <1>9 DEF ExtensionGranted
<1>11. OneResultEach'
  BY <1>1, <1>3, <1>4, <1>6 DEF RowInv, OneResultEach, IsResolved
<1>12. QuestionsBounded'
  <2>1. Cardinality(DOMAIN turns') = k + 1
    BY <1>1, TurnsDomain
  <2> QED
    BY <1>1, <2>1, CapsAssumption DEF QuestionsBounded
<1>13. AnswersBeyondCapGranted' /\ RoomToAnswer'
  BY <1>2, <1>10, CapsAssumption, CountsFinite
     DEF RowInv, AnswersBeyondCapGranted, RoomToAnswer, AnswerCount
<1>14. ClosedOnEvidence'
  BY DEF ClosedOnEvidence
<1>15. DecisionsConsistent'
  <2> SUFFICES ASSUME NEW n \in DOMAIN decisions'
               PROVE  /\ IsResolved(turns'[n])
                      /\ decisions'[n].selection # None
                      /\ decisions'[n].selection = "CONTINUE" => n + 1 \in DOMAIN turns'
                      /\ decisions'[n].selection # "END"
    BY DEF DecisionsConsistent
  <2>1. n \in DOMAIN turns /\ n \in 1..k
    BY <1>1, <1>7
  <2>2. n + 1 \in DOMAIN turns'
    BY <1>1, <2>1
  <2>3. decisions'[n].selection # None
    BY <1>9, DataAssumption
  <2>4. decisions'[n].selection # "END"
    <3>1. n \in DOMAIN decisions /\ decisions[n].selection # "END"
      BY <1>7 DEF RowInv, DecisionsConsistent
    <3> QED
      BY <1>9, <3>1
  <2> QED
    BY <1>1, <1>3, <2>1, <2>2, <2>3, <2>4
<1>16. DecisionsGrounded'
  BY <1>1, <1>7, <1>9, DataAssumption DEF RowInv, DecisionsGrounded
<1>17. OmittedAnswered'
  BY <1>1, <1>6, <1>7 DEF RowInv, OmittedAnswered
<1> QED
  BY <1>11, <1>12, <1>13, <1>14, <1>15, <1>16, <1>17 DEF RowInv

\* The open question is answered.
LEMMA Answering ==
    ASSUME TypeOK, TypeOK', RowInv, UNCHANGED <<status, decisions>>,
           NEW n \in DOMAIN turns, Answerable(n), NEW text \in Answers,
           turns' = [turns EXCEPT ![n].answer = text]
    PROVE  RowInv'
<1>1. /\ Len(turns) \in Nat /\ DOMAIN turns = 1..Len(turns) /\ n = Len(turns)
      /\ \A i \in DOMAIN turns : turns[i] \in Turn
  BY LastTurn, TurnsDomain DEF Answerable, TypeOK
<1>2. /\ DOMAIN turns' = DOMAIN turns
      /\ \A i \in DOMAIN turns : /\ i # n => turns'[i] = turns[i]
                                 /\ turns'[i].skipped = turns[i].skipped
                                 /\ turns'[i].omitted = turns[i].omitted
      /\ turns'[n].answer = text /\ text # None
  BY <1>1, DataAssumption DEF Turn
<1>3. ~IsResolved(turns[n]) /\ n \notin DOMAIN decisions /\ status = "IN_PROGRESS"
  BY DEF Answerable, IsResolved, RowInv, DecisionsConsistent
<1>4. AnsweredTurns(turns') = AnsweredTurns(turns) \cup {n} /\ n \notin AnsweredTurns(turns)
  BY <1>2 DEF AnsweredTurns, Answerable
<1>5. AnswerCount' = AnswerCount + 1 /\ AnswerCount \in Nat
  BY <1>4, CountsFinite, FS_AddElement DEF AnswerCount
<1>6. AnswerCount < NormalCap \/ ExtensionGranted
  BY <1>3 DEF RowInv, RoomToAnswer
<1>7. ExtensionGranted <=> ExtensionGranted'
  BY DEF ExtensionGranted
<1>8. \A i : IsLast(i) <=> IsLast(i)'
  BY <1>2 DEF IsLast
<1>9. \A i \in DOMAIN turns : IsResolved(turns'[i])
  BY <1>1, <1>2, LastTurn DEF IsResolved, RowInv, OneResultEach
<1>10. OneResultEach'
  BY <1>2, <1>9 DEF RowInv, OneResultEach, Answerable
<1>11. QuestionsBounded' /\ ClosedOnEvidence'
  BY <1>2, <1>3 DEF RowInv, QuestionsBounded, ClosedOnEvidence
<1>12. AnswersBeyondCapGranted'
  BY <1>5, <1>6, <1>7, CapsAssumption DEF AnswersBeyondCapGranted, AnswerCount
<1>13. RoomToAnswer'
  BY <1>2, <1>9 DEF RoomToAnswer
<1>14. DecisionsConsistent'
  BY <1>2, <1>8, <1>9 DEF RowInv, DecisionsConsistent, TypeOK
<1>15. DecisionsGrounded'
  <2>1. \A i \in DOMAIN decisions : decisions[i].selection # None
    BY <1>1, <1>3, LastTurn DEF RowInv, DecisionsConsistent
  <2> QED
    BY <1>4, <2>1 DEF RowInv, DecisionsGrounded
<1>16. OmittedAnswered'
  BY <1>2, <1>3 DEF RowInv, OmittedAnswered
<1> QED
  BY <1>3, <1>10, <1>11, <1>12, <1>13, <1>14, <1>15, <1>16 DEF RowInv

\* Every question is resolved, and the Interview goes on or is concluded.
LEMMA Resolving ==
    ASSUME TypeOK, TypeOK', RowInv, status = "IN_PROGRESS", turns # <<>>,
           DOMAIN turns' = DOMAIN turns,
           \A i \in DOMAIN turns :
             /\ turns'[i].answer = turns[i].answer
             /\ IsResolved(turns'[i])
             /\ ~(turns'[i].answer # None /\ turns'[i].skipped)
             /\ turns'[i].omitted => turns'[i].answer # None /\ i \notin DOMAIN decisions,
           \/ status' = "IN_PROGRESS"
           \/ status' = "REFLECTION_READY" /\ AnsweredTurns(turns) # {}
           \/ status' = "ENDED_NO_REFLECTION" /\ AnsweredTurns(turns) = {},
           \/ UNCHANGED decisions /\ Len(turns) \notin DOMAIN decisions
           \/ /\ Len(turns) \in DOMAIN decisions
              /\ status' = "REFLECTION_READY"
              /\ decisions[Len(turns)].selection = None
              /\ decisions' = [decisions EXCEPT ![Len(turns)].selection = "END"]
    PROVE  RowInv'
<1>1. /\ Len(turns) \in Nat /\ DOMAIN turns = 1..Len(turns)
      /\ \A i : IsLast(i) <=> i = Len(turns) /\ i \in DOMAIN turns
      /\ \A i : IsLast(i)' <=> IsLast(i)
  BY LastTurn DEF IsLast
<1>2. AnsweredTurns(turns') = AnsweredTurns(turns) /\ AnswerCount' = AnswerCount
  BY DEF AnsweredTurns, AnswerCount
<1>3. /\ DOMAIN decisions \subseteq DOMAIN turns /\ DOMAIN decisions' = DOMAIN decisions
      /\ \A n \in DOMAIN decisions : decisions[n] \in Decision
  BY DEF TypeOK
<1>4. \A n \in DOMAIN decisions :
        /\ n # Len(turns) => decisions[n].selection = "CONTINUE" /\ decisions'[n] = decisions[n]
        /\ n = Len(turns) => decisions'[n].selection = "END" /\ status' = "REFLECTION_READY"
        /\ decisions'[n].kind = decisions[n].kind
  BY <1>1, <1>3 DEF RowInv, DecisionsConsistent, Decision
<1>5. ExtensionGranted => ExtensionGranted'
  <2>1. \A n \in DOMAIN decisions :
          decisions[n].selection = "CONTINUE" => decisions'[n] = decisions[n]
    <3>1. \A n \in DOMAIN decisions : decisions[n].selection = "CONTINUE" => n + 1 \in DOMAIN turns
      BY DEF RowInv, DecisionsConsistent
    <3>2. Len(turns) + 1 \notin DOMAIN turns
      BY <1>1
    <3> QED
      BY <1>4, <3>1, <3>2
  <2> QED
    BY <1>3, <2>1 DEF ExtensionGranted
<1>6. OneResultEach' /\ QuestionsBounded' /\ RoomToAnswer'
  BY DEF RowInv, OneResultEach, QuestionsBounded, RoomToAnswer
<1>7. AnswersBeyondCapGranted'
  BY <1>2, <1>5 DEF RowInv, AnswersBeyondCapGranted
<1>8. ClosedOnEvidence'
  <2>1. turns' # <<>>
    <3>1. DOMAIN turns # {}
      BY EmptySeq, <1>1 DEF TypeOK
    <3> QED
      BY <3>1
  <2> QED
    BY <1>2, <2>1 DEF ClosedOnEvidence
<1>9. DecisionsConsistent'
  <2> SUFFICES ASSUME NEW n \in DOMAIN decisions
               PROVE  /\ decisions'[n].selection # None
                      /\ decisions'[n].selection = "CONTINUE" => n + 1 \in DOMAIN turns
                      /\ decisions'[n].selection = "END" =>
                           status' = "REFLECTION_READY" /\ n = Len(turns)
    BY <1>1, <1>3 DEF DecisionsConsistent
  <2>1. CASE n = Len(turns)
    BY <1>4, <2>1, DataAssumption
  <2>2. CASE n # Len(turns)
    BY <1>4, <2>2, DataAssumption DEF RowInv, DecisionsConsistent
  <2> QED
    BY <2>1, <2>2
<1>10. DecisionsGrounded'
  <2>1. \A n \in DOMAIN decisions : decisions'[n].selection # None
    BY <1>4, DataAssumption
  <2> QED
    BY <1>2, <1>3, <2>1 DEF RowInv, DecisionsGrounded
<1>11. OmittedAnswered'
  BY <1>3 DEF OmittedAnswered
<1> QED
  BY <1>6, <1>7, <1>8, <1>9, <1>10, <1>11 DEF RowInv

\* A choice is offered after the last turn.
LEMMA Deciding ==
    ASSUME TypeOK, RowInv, status = "IN_PROGRESS", UNCHANGED <<status, turns>>,
           NEW d \in Decision, d.selection = None,
           Len(turns) \in DOMAIN turns, Len(turns) \notin DOMAIN decisions,
           IsResolved(turns[Len(turns)]), ~turns[Len(turns)].omitted,
           AnsweredTurns(turns) # {},
           d.kind = "SOFT_STOP" => AnswerCount < NormalCap,
           decisions' = Insert(decisions, Len(turns), d)
    PROVE  RowInv'
<1>1. \A n : IsLast(n) <=> n = Len(turns) /\ n \in DOMAIN turns
  BY LastTurn
<1>2. /\ DOMAIN decisions' = DOMAIN decisions \cup {Len(turns)}
      /\ \A n \in DOMAIN decisions : decisions'[n] = decisions[n]
      /\ decisions'[Len(turns)] = d
  BY DEF Insert
<1>3. ExtensionGranted => ExtensionGranted'
  BY <1>2 DEF ExtensionGranted
<1>4. OneResultEach' /\ QuestionsBounded' /\ ClosedOnEvidence'
  BY <1>2 DEF RowInv, OneResultEach, QuestionsBounded, ClosedOnEvidence, IsLast
<1>5. AnswersBeyondCapGranted' /\ RoomToAnswer'
  BY <1>3 DEF RowInv, AnswersBeyondCapGranted, RoomToAnswer, AnswerCount
<1>6. DecisionsConsistent'
  BY <1>1, <1>2, DataAssumption DEF RowInv, DecisionsConsistent, IsLast
<1>7. DecisionsGrounded'
  BY <1>2 DEF RowInv, DecisionsGrounded, AnswerCount
<1>8. OmittedAnswered'
  BY <1>2 DEF RowInv, OmittedAnswered
<1> QED
  BY <1>4, <1>5, <1>6, <1>7, <1>8 DEF RowInv

\* Only what the rows hold matters to RowInv.
LEMMA RowsUnchanged ==
    ASSUME RowInv, UNCHANGED <<status, turns, decisions>>
    PROVE  RowInv'
  BY DEF RowInv, OneResultEach, QuestionsBounded, AnswersBeyondCapGranted, RoomToAnswer,
         ClosedOnEvidence, DecisionsConsistent, DecisionsGrounded, OmittedAnswered,
         ExtensionGranted, AnswerCount, IsLast

\* A request that finds the rows as it read them finds an Interview in
\* progress whose last turn is its own.
LEMMA NextUnmovedFacts ==
    ASSUME TypeOK, RowInv, NEW r \in Requests, request[r].step = "commit",
           NextUnmoved(request[r])
    PROVE  LET q == request[r] IN
           /\ q.turn = Len(turns) /\ q.turn \in DOMAIN turns /\ q.turn \in Nat
           /\ status = "IN_PROGRESS"
           /\ turns[q.turn].answer # None /\ ~turns[q.turn].skipped
           /\ ~turns[q.turn].omitted /\ q.turn \notin DOMAIN decisions
           /\ q.turn \in AnsweredTurns(turns)
           /\ q.budget.answered = AnswerCount
<1> DEFINE q == request[r]
<1>1. q \in RequestState /\ q.step = "commit"
  BY DEF TypeOK
<1>2. q.turn \in Nat \ {0} /\ q.answer \in Answers
  BY <1>1, RequestFields
<1>3. q.turn = Len(turns) /\ q.turn \in DOMAIN turns
  BY <1>2, ValidBudgetLast DEF NextUnmoved, TypeOK
<1>4. turns[q.turn].answer # None
  BY <1>2, DataAssumption DEF NextUnmoved
<1>5. q.budget.answered = AnswerCount
  BY CountsFinite DEF NextUnmoved
<1> QED
  BY <1>2, <1>3, <1>4, <1>5 DEF NextUnmoved, FollowedUp, AnsweredTurns

LEMMA SkipUnmovedFacts ==
    ASSUME TypeOK, RowInv, NEW r \in Requests, request[r].step = "skip",
           SkipUnmoved(request[r])
    PROVE  LET q == request[r] IN
           /\ q.turn = Len(turns) /\ q.turn \in DOMAIN turns /\ q.turn \in Nat
           /\ status = "IN_PROGRESS"
           /\ turns[q.turn].skipped /\ turns[q.turn].answer = None
           /\ ~turns[q.turn].omitted /\ q.turn \notin DOMAIN decisions
           /\ q.budget.answered = AnswerCount /\ Resolved(q.budget) = Len(turns)
<1> DEFINE q == request[r]
<1>1. q \in RequestState /\ q.step = "skip"
  BY DEF TypeOK
<1>2. q.turn \in Nat \ {0}
  BY <1>1, RequestFields
<1>3. q.turn = Len(turns) /\ q.turn \in DOMAIN turns
  BY <1>2, ValidBudgetLast DEF SkipUnmoved, TypeOK
<1>4. turns # <<>>
  BY <1>2, <1>3, EmptySeq
<1>5. status = "IN_PROGRESS"
  BY <1>4 DEF SkipUnmoved, RowInv, TypeOK, Statuses
<1>6. turns[q.turn].answer = None /\ ~turns[q.turn].omitted
  BY <1>3 DEF SkipUnmoved, RowInv, OneResultEach, OmittedAnswered
<1>7. q.budget.answered = AnswerCount /\ Resolved(q.budget) = Len(turns)
  BY CountsFinite, BudgetCounts DEF SkipUnmoved, ValidBudget, TypeOK
<1> QED
  BY <1>2, <1>3, <1>5, <1>6, <1>7 DEF SkipUnmoved

LEMMA RowInvInit == Init => RowInv
<1> SUFFICES ASSUME Init PROVE RowInv
  OBVIOUS
<1>1. TypeOK /\ DOMAIN decisions = {}
  BY TypeOKInit DEF Init
<1>2. CASE status = "ABSENT" /\ turns = <<>>
  <2>1. DOMAIN turns = {} /\ AnsweredTurns(turns) = {}
    BY <1>2 DEF AnsweredTurns
  <2>2. Cardinality({}) = 0
    BY FS_EmptySet
  <2>3. QuestionsBounded /\ AnswersBeyondCapGranted
    BY <2>1, <2>2, CapsAssumption DEF QuestionsBounded, AnswersBeyondCapGranted
  <2>4. OneResultEach /\ RoomToAnswer /\ OmittedAnswered
    BY <2>1 DEF OneResultEach, RoomToAnswer, OmittedAnswered
  <2>5. ClosedOnEvidence /\ DecisionsConsistent /\ DecisionsGrounded
    BY <1>1, <1>2 DEF ClosedOnEvidence, DecisionsConsistent, DecisionsGrounded
  <2> QED
    BY <1>2, <2>3, <2>4, <2>5 DEF RowInv
<1>3. ASSUME status = "IN_PROGRESS",
             NEW n \in 1..NormalCap, NEW text \in Answers,
             turns = [i \in 1..n |-> [answer |-> text, skipped |-> FALSE, omitted |-> i = n]]
      PROVE  RowInv
  <2>1. n \in Nat /\ n <= NormalCap /\ NormalCap < AbsoluteCap /\ NormalCap \in Nat
        /\ AbsoluteCap \in Nat
    BY CapsAssumption
  <2>2. /\ DOMAIN turns = 1..n
        /\ \A i \in DOMAIN turns : turns[i].answer = text /\ turns[i].skipped = FALSE
    BY <1>3
  <2>3. AnsweredTurns(turns) = 1..n
    BY <2>2, DataAssumption DEF AnsweredTurns
  <2>4. Cardinality(1..n) = n
    BY <2>1, FS_Interval
  <2>5. \A i \in DOMAIN turns : IsResolved(turns[i])
    BY <2>2, DataAssumption DEF IsResolved
  <2> QED
    BY <1>1, <1>3, <2>1, <2>2, <2>3, <2>4, <2>5, DataAssumption
       DEF RowInv, OneResultEach, QuestionsBounded, AnswersBeyondCapGranted, RoomToAnswer,
           ClosedOnEvidence, DecisionsConsistent, DecisionsGrounded, OmittedAnswered
<1> QED
  BY <1>2, <1>3 DEF Init

LEMMA RowInvNext == TypeOK /\ TypeOK' /\ RowInv /\ RequestInv /\ [Next]_vars => RowInv'
<1> SUFFICES ASSUME TypeOK, TypeOK', RowInv, RequestInv, [Next]_vars PROVE RowInv'
  OBVIOUS
<1>0. /\ Len(turns) \in Nat /\ DOMAIN turns = 1..Len(turns)
      /\ \A n \in DOMAIN turns : turns[n] \in Turn
      /\ \A n : IsLast(n) <=> n = Len(turns) /\ n \in DOMAIN turns
      /\ Cardinality(DOMAIN turns) = Len(turns)
  BY LastTurn, TurnsDomain DEF TypeOK
<1>1. CASE StartInterview
  <2>0. turns = <<>> /\ DOMAIN turns = {}
    BY <1>1 DEF StartInterview, RowInv
  <2>1. DOMAIN decisions = {}
    BY <2>0 DEF TypeOK
  <2> QED
    BY <1>1, <2>1 DEF StartInterview, RowInv, OneResultEach, QuestionsBounded,
         AnswersBeyondCapGranted, RoomToAnswer, ClosedOnEvidence, DecisionsConsistent,
         DecisionsGrounded, OmittedAnswered, ExtensionGranted, AnswerCount
<1>2. CASE UNCHANGED <<status, turns, decisions>>
  BY <1>2, RowsUnchanged
<1>3. ASSUME NEW r \in Requests, FirstCommit(r) PROVE RowInv'
  <2>1. Len(turns) = 0 /\ DOMAIN turns = {} /\ turns' = Insert(turns, Len(turns) + 1, NewTurn)
    BY <1>0, <1>3 DEF FirstCommit
  <2>2. AnsweredTurns(turns) = {} /\ turns = <<>>
    BY <2>1, EmptySeq DEF AnsweredTurns, TypeOK
  <2>3. AnswerCount < NormalCap /\ Len(turns) < AbsoluteCap
    BY <2>1, <2>2, FS_EmptySet, CapsAssumption DEF AnswerCount
  <2>4. Len(turns) \notin DOMAIN decisions
    BY <2>1 DEF TypeOK
  <2> QED
    BY <1>3, <2>1, <2>2, <2>3, <2>4, Asking DEF FirstCommit
<1>4. ASSUME NEW r \in Requests, NextCommit(r) PROVE RowInv'
  <2> DEFINE q == request[r]
  <2>0. q.step = "commit" /\ NextUnmoved(q)
    BY <1>4 DEF NextCommit
  <2>1. /\ q.turn = Len(turns) /\ q.turn \in DOMAIN turns
        /\ status = "IN_PROGRESS"
        /\ turns[q.turn].answer # None /\ ~turns[q.turn].skipped
        /\ ~turns[q.turn].omitted /\ q.turn \notin DOMAIN decisions
        /\ AnsweredTurns(turns) # {}
        /\ q.budget.answered = AnswerCount
    BY <2>0, NextUnmovedFacts
  <2>2. /\ q.action \in {"soft", "normal"} => AnswerCount < NormalCap
        /\ q.action = "extended" => ExtensionGranted
    BY <2>0, <2>1 DEF RequestInv
  <2>3. turns # <<>> /\ IsResolved(turns[Len(turns)])
    BY <2>1 DEF IsResolved
  <2>4. CASE /\ status' = "REFLECTION_READY"
             /\ turns' = [turns EXCEPT ![q.turn].omitted = q.action # "ready"]
             /\ UNCHANGED decisions
    <3>1. /\ DOMAIN turns' = DOMAIN turns
          /\ \A i \in DOMAIN turns :
               /\ turns'[i].answer = turns[i].answer /\ turns'[i].skipped = turns[i].skipped
               /\ i # q.turn => turns'[i] = turns[i]
      BY <1>0, <2>1, <2>4 DEF Turn
    <3>2. \A i \in DOMAIN turns :
            /\ IsResolved(turns'[i]) /\ ~(turns'[i].answer # None /\ turns'[i].skipped)
            /\ turns'[i].omitted => turns'[i].answer # None /\ i \notin DOMAIN decisions
      BY <1>0, <2>1, <2>3, <3>1 DEF RowInv, OneResultEach, IsResolved, OmittedAnswered
    <3> QED
      BY <2>1, <2>3, <2>4, <3>1, <3>2, Resolving
  <2>5. ASSUME NEW axis \in Axes, q.action \in {"soft", "cap"},
               decisions' = Insert(decisions, q.turn,
                 [kind |-> IF q.action = "soft" THEN "SOFT_STOP" ELSE "CAP_EXTENSION",
                  selection |-> None, axis |-> axis]),
               UNCHANGED <<status, turns>>
        PROVE  RowInv'
    <3> DEFINE d == [kind |-> IF q.action = "soft" THEN "SOFT_STOP" ELSE "CAP_EXTENSION",
                     selection |-> None, axis |-> axis]
    <3>1. d \in Decision /\ d.selection = None /\ (d.kind = "SOFT_STOP" => q.action = "soft")
      BY DEF Decision
    <3> HIDE DEF d
    <3> QED
      BY <2>1, <2>2, <2>3, <2>5, <3>1, Deciding DEF d
  <2>6. CASE /\ q.action \in {"normal", "extended"}
             /\ BudgetOf(turns).questions < AbsoluteCap
             /\ turns' = Insert(turns, q.turn + 1, NewTurn)
             /\ UNCHANGED <<status, decisions>>
    <3>1. ExtensionGranted => ExtensionGranted'
      BY <2>6 DEF ExtensionGranted
    <3>2. Len(turns) < AbsoluteCap
      BY <1>0, <2>6 DEF BudgetOf
    <3> QED
      BY <2>1, <2>2, <2>3, <2>6, <3>1, <3>2, Asking
  <2> QED
    BY <1>4, <2>4, <2>5, <2>6 DEF NextCommit
<1>5. ASSUME NEW n \in DOMAIN turns, Skippable(n), turns' = Skipping(n), UNCHANGED decisions,
             \/ UNCHANGED status
             \/ status' = ClosedStatus(BudgetOf(Skipping(n)))
      PROVE  RowInv'
  <2>1. /\ DOMAIN turns' = DOMAIN turns /\ n = Len(turns) /\ n \notin DOMAIN decisions
        /\ status = "IN_PROGRESS" /\ turns[n].answer = None /\ turns # <<>>
        /\ \A i \in DOMAIN turns :
             /\ turns'[i].answer = turns[i].answer /\ turns'[i].omitted = turns[i].omitted
             /\ turns'[i].skipped = (i = n \/ turns[i].skipped)
    BY <1>0, <1>5, SkippingTurns DEF Skippable
  <2>2. \A i \in DOMAIN turns :
          /\ IsResolved(turns'[i]) /\ ~(turns'[i].answer # None /\ turns'[i].skipped)
          /\ turns'[i].omitted => turns'[i].answer # None /\ i \notin DOMAIN decisions
    BY <1>0, <2>1 DEF RowInv, OneResultEach, IsResolved, OmittedAnswered
  <2>3. AnsweredTurns(turns') = AnsweredTurns(turns)
    BY <2>1 DEF AnsweredTurns
  <2>4. BudgetOf(Skipping(n)).answered = AnswerCount
    BY <1>5, <2>3 DEF BudgetOf, AnswerCount
  <2>5. \/ status' = "IN_PROGRESS"
        \/ status' = "REFLECTION_READY" /\ AnsweredTurns(turns) # {}
        \/ status' = "ENDED_NO_REFLECTION" /\ AnsweredTurns(turns) = {}
    BY <1>5, <2>1, <2>4, CountsFinite DEF ClosedStatus
  <2> QED
    BY <1>5, <2>1, <2>2, <2>5, Resolving
<1>6. ASSUME NEW r \in Requests, NEW n \in DOMAIN turns, SkipBegin(r, n) PROVE RowInv'
  BY <1>5, <1>6 DEF SkipBegin
<1>7. ASSUME NEW n \in DOMAIN turns, SkipClose(n) PROVE RowInv'
  BY <1>5, <1>7 DEF SkipClose
<1>8. ASSUME NEW r \in Requests, SkipCommit(r) PROVE RowInv'
  <2> DEFINE q == request[r]
  <2>0. q.step = "skip" /\ SkipUnmoved(q)
    BY <1>8 DEF SkipCommit
  <2>1. /\ q.turn = Len(turns) /\ q.turn \in DOMAIN turns
        /\ status = "IN_PROGRESS"
        /\ turns[q.turn].skipped /\ turns[q.turn].answer = None
        /\ ~turns[q.turn].omitted /\ q.turn \notin DOMAIN decisions
        /\ q.budget.answered = AnswerCount /\ Resolved(q.budget) = Len(turns)
    BY <2>0, SkipUnmovedFacts
  <2>2. /\ q.action = "normal" => Len(turns) < NormalCap
        /\ q.action = "soft" => AnswerCount < NormalCap
        /\ q.action \in {"soft", "cap"} => AnswerCount > 0
    BY <2>0, <2>1 DEF RequestInv
  <2>3. turns # <<>> /\ IsResolved(turns[Len(turns)])
    BY <2>1 DEF IsResolved
  <2>4. CASE status' = ClosedStatus(q.budget) /\ UNCHANGED <<turns, decisions>>
    <3>1. \/ status' = "REFLECTION_READY" /\ AnsweredTurns(turns) # {}
          \/ status' = "ENDED_NO_REFLECTION" /\ AnsweredTurns(turns) = {}
      BY <2>1, <2>4, CountsFinite DEF ClosedStatus
    <3>2. \A i \in DOMAIN turns :
            /\ IsResolved(turns'[i]) /\ ~(turns'[i].answer # None /\ turns'[i].skipped)
            /\ turns'[i].omitted => turns'[i].answer # None /\ i \notin DOMAIN decisions
      BY <1>0, <2>3, <2>4 DEF RowInv, OneResultEach, OmittedAnswered
    <3> QED
      BY <2>1, <2>3, <2>4, <3>1, <3>2, Resolving
  <2>5. ASSUME NEW axis \in Axes, q.action \in {"soft", "cap"},
               decisions' = Insert(decisions, q.turn,
                 [kind |-> IF q.action = "soft" THEN "SOFT_STOP" ELSE "CAP_EXTENSION",
                  selection |-> None, axis |-> axis]),
               UNCHANGED <<status, turns>>
        PROVE  RowInv'
    <3> DEFINE d == [kind |-> IF q.action = "soft" THEN "SOFT_STOP" ELSE "CAP_EXTENSION",
                     selection |-> None, axis |-> axis]
    <3>1. d \in Decision /\ d.selection = None /\ (d.kind = "SOFT_STOP" => q.action = "soft")
      BY DEF Decision
    <3>2. AnsweredTurns(turns) # {}
      BY <2>2, <2>5, CountsFinite
    <3> HIDE DEF d
    <3> QED
      BY <2>1, <2>2, <2>3, <2>5, <3>1, <3>2, Deciding DEF d
  <2>6. CASE /\ q.action = "normal"
             /\ turns' = Insert(turns, q.turn + 1, NewTurn)
             /\ UNCHANGED <<status, decisions>>
    <3>1. AnswerCount <= Len(turns) /\ AnswerCount \in Nat
      BY CountsFinite, BudgetCounts DEF TypeOK
    <3>2. Len(turns) < AbsoluteCap /\ AnswerCount < NormalCap
      BY <1>0, <2>2, <2>6, <3>1, CapsAssumption
    <3> QED
      BY <2>1, <2>3, <2>6, <3>2, Asking
  <2> QED
    BY <1>8, <2>4, <2>5, <2>6 DEF SkipCommit
<1>9. ASSUME NEW n \in DOMAIN turns, NEW text \in Answers, SaveTurnAnswer(n, text) PROVE RowInv'
  BY <1>9, Answering DEF SaveTurnAnswer
<1>10. ASSUME NEW n \in DOMAIN turns, LegacySkip(n) PROVE RowInv'
  <2>1. n = Len(turns) /\ n \notin DOMAIN decisions /\ n \in AnsweredTurns(turns)
    BY <1>0, <1>10 DEF LegacySkip, RowInv, OmittedAnswered, AnsweredTurns
  <2>2. \A i \in DOMAIN turns :
          /\ IsResolved(turns[i]) /\ ~(turns[i].answer # None /\ turns[i].skipped)
          /\ turns[i].omitted => turns[i].answer # None /\ i \notin DOMAIN decisions
    BY <1>0, <1>10, <2>1 DEF LegacySkip, RowInv, OneResultEach, OmittedAnswered, IsResolved
  <2> QED
    BY <1>0, <1>10, <2>1, <2>2, Resolving DEF LegacySkip
<1>11. ASSUME NEW n \in DOMAIN turns, Decidable(n)
       PROVE  /\ n = Len(turns) /\ n \in DOMAIN decisions
              /\ decisions[n].selection = None /\ status = "IN_PROGRESS"
              /\ IsResolved(turns[Len(turns)]) /\ AnsweredTurns(turns) # {}
              /\ decisions[n].kind = "SOFT_STOP" => AnswerCount < NormalCap
              /\ decisions[n].kind = "CAP_EXTENSION" => n = NormalCap
  BY <1>0, <1>11 DEF Decidable, RowInv, DecisionsGrounded
<1>12. ASSUME NEW n \in DOMAIN turns, DecideEnd(n) PROVE RowInv'
  <2>1. Decidable(n)
    BY <1>12 DEF DecideEnd
  <2>2. \A i \in DOMAIN turns :
          /\ IsResolved(turns[i]) /\ ~(turns[i].answer # None /\ turns[i].skipped)
          /\ turns[i].omitted => turns[i].answer # None /\ i \notin DOMAIN decisions
    BY <1>0, <1>11, <2>1 DEF RowInv, OneResultEach, OmittedAnswered
  <2>3. n = Len(turns) /\ status = "IN_PROGRESS" /\ n \in DOMAIN decisions
        /\ decisions[n].selection = None /\ AnsweredTurns(turns) # {}
    BY <1>11, <2>1
  <2>4. turns # <<>>
    BY EmptySeq
  <2>5. turns' = turns /\ status' = "REFLECTION_READY"
        /\ decisions' = [decisions EXCEPT ![n].selection = "END"]
    BY <1>12 DEF DecideEnd
  <2> QED
    BY <2>2, <2>3, <2>4, <2>5, Resolving
<1>13. ASSUME NEW n \in DOMAIN turns, DecideContinue(n) PROVE RowInv'
  <2>1. Decidable(n) /\ n = Len(turns)
    BY <1>11, <1>13 DEF DecideContinue
  <2>2. decisions' = [decisions EXCEPT ![n].selection = "CONTINUE"] /\ decisions[n] \in Decision
    BY <1>11, <1>13, <2>1 DEF DecideContinue, TypeOK
  <2>3. CASE decisions[n].kind = "SOFT_STOP"
    <3>1. AnswerCount < NormalCap
      BY <1>11, <2>1, <2>3
    <3>2. Len(turns) < AbsoluteCap
      BY <1>0, <1>13, <2>1 DEF DecideContinue, Decidable
    <3> QED
      BY <1>11, <1>13, <2>1, <3>1, <3>2, Asking DEF DecideContinue
  <2>4. CASE decisions[n].kind = "CAP_EXTENSION"
    <3>1. ExtensionGranted'
      BY <1>11, <2>1, <2>2, <2>4 DEF ExtensionGranted, Decision
    <3>2. Len(turns) < AbsoluteCap
      BY <1>0, <1>13, <2>1 DEF DecideContinue, Decidable
    <3> QED
      BY <1>11, <1>13, <2>1, <3>1, <3>2, Asking DEF DecideContinue
  <2> QED
    BY <2>2, <2>3, <2>4 DEF Decision
<1>14. ASSUME NEW r \in Requests,
              \/ FirstRead(r) \/ NextAnalyze(r) \/ RequestFails(r)
              \/ \E n \in DOMAIN turns : NextRead(r, n)
       PROVE  RowInv'
  BY <1>2, <1>14 DEF FirstRead, NextAnalyze, RequestFails, NextRead, rows
<1>15. ASSUME NEW updated \in Coverages, ApplyCoveragePatch(updated) PROVE RowInv'
  BY <1>2, <1>15 DEF ApplyCoveragePatch
<1>16. CASE UNCHANGED vars
  BY <1>2, <1>16 DEF vars
<1> QED
  BY <1>1, <1>3, <1>4, <1>6, <1>7, <1>8, <1>9, <1>10, <1>12, <1>13, <1>14, <1>15, <1>16
     DEF Next

LEMMA RequestInvInit == Init => RequestInv
  BY DEF Init, RequestInv, Idle

\* The user's choice at the normal cap, once made, is never unmade.
LEMMA GrantKept ==
    ASSUME TypeOK, RowInv, [Next]_vars, ExtensionGranted
    PROVE  ExtensionGranted'
<1>1. NormalCap \in DOMAIN decisions /\ decisions[NormalCap].selection = "CONTINUE"
  BY DEF ExtensionGranted
<1>2. decisions[NormalCap].selection # None
  BY <1>1, DataAssumption
<1>3. ASSUME NEW n, n \notin DOMAIN decisions, NEW d, decisions' = Insert(decisions, n, d)
      PROVE  ExtensionGranted'
  BY <1>1, <1>3 DEF Insert, ExtensionGranted
<1>4. ASSUME NEW n, n # NormalCap, NEW sel, decisions' = [decisions EXCEPT ![n].selection = sel]
      PROVE  ExtensionGranted'
  BY <1>1, <1>4 DEF ExtensionGranted
<1>5. CASE UNCHANGED decisions
  BY <1>5 DEF ExtensionGranted
<1>6. ASSUME NEW r \in Requests, NextCommit(r) PROVE ExtensionGranted'
  BY <1>3, <1>5, <1>6 DEF NextCommit, NextUnmoved, FollowedUp
<1>7. ASSUME NEW r \in Requests, SkipCommit(r) PROVE ExtensionGranted'
  BY <1>3, <1>5, <1>7 DEF SkipCommit, SkipUnmoved
<1>8. ASSUME NEW n \in DOMAIN turns, DecideEnd(n) \/ DecideContinue(n) PROVE ExtensionGranted'
  BY <1>2, <1>4, <1>8 DEF DecideEnd, DecideContinue, Decidable
<1> QED
  BY <1>5, <1>6, <1>7, <1>8
     DEF Next, vars, rows, StartInterview, FirstRead, FirstCommit, NextRead, NextAnalyze,
         SkipBegin, RequestFails, SaveTurnAnswer, LegacySkip, SkipClose, ApplyCoveragePatch

LEMMA RequestInvNext == TypeOK /\ RowInv /\ RequestInv /\ [Next]_vars => RequestInv'
<1> SUFFICES ASSUME TypeOK, RowInv, RequestInv, [Next]_vars PROVE RequestInv'
  OBVIOUS
<1> DEFINE Held(q) ==
      /\ q.step = "commit" =>
           /\ q.action \in {"soft", "normal"} => q.budget.answered < NormalCap
           /\ q.action = "extended" => ExtensionGranted'
      /\ q.step = "skip" =>
           /\ q.action = "normal" => Resolved(q.budget) < NormalCap
           /\ q.action = "soft" => q.budget.answered < NormalCap
           /\ q.action \in {"soft", "cap"} => q.budget.answered > 0
<1>1. request \in [Requests -> RequestState]
  BY DEF TypeOK
<1>2. \A r \in Requests : Held(request[r])
  BY GrantKept DEF RequestInv
<1>3. Held(Idle) /\ Held([step |-> "first"])
  BY DEF Idle
<1>4. SUFFICES \A r \in Requests : Held(request'[r])
  BY DEF RequestInv
<1>5. ASSUME NEW r \in Requests, NEW q, Held(q), request' = [request EXCEPT ![r] = q]
      PROVE  \A s \in Requests : Held(request'[s])
  BY <1>1, <1>2, <1>5
<1> HIDE DEF Held
<1>6. CASE UNCHANGED request
  BY <1>2, <1>6
<1>7. ASSUME NEW r \in Requests, NEW n \in DOMAIN turns, NextRead(r, n)
      PROVE  \A s \in Requests : Held(request'[s])
  <2> DEFINE q == [step |-> "analyze", turn |-> n, answer |-> turns[n].answer,
                   before |-> coverage, budget |-> BudgetOf(turns)]
  <2>1. Held(q)
    BY DEF Held
  <2> HIDE DEF q
  <2> QED
    BY <1>5, <1>7, <2>1 DEF NextRead, q
<1>8. ASSUME NEW r \in Requests, NextAnalyze(r)
      PROVE  \A s \in Requests : Held(request'[s])
  <2> DEFINE b == request[r].budget
  <2>1. PICK projected \in Coverages :
          LET action == BudgetAction(b, projected)
              beyond == action = "cap" /\ b.answered > NormalCap
          IN
          request' = [request EXCEPT ![r] =
            IF beyond /\ ~ExtensionGranted THEN Idle
            ELSE [step |-> "commit", turn |-> request[r].turn, answer |-> request[r].answer,
                  before |-> request[r].before, budget |-> b, projected |-> projected,
                  action |-> IF beyond THEN "extended" ELSE action]]
    BY <1>8 DEF NextAnalyze
  <2> DEFINE action == BudgetAction(b, projected)
             beyond == action = "cap" /\ b.answered > NormalCap
             q == [step |-> "commit", turn |-> request[r].turn, answer |-> request[r].answer,
                   before |-> request[r].before, budget |-> b, projected |-> projected,
                   action |-> IF beyond THEN "extended" ELSE action]
  <2>2. b \in Budget
    BY <1>1, <1>8, RequestFields DEF NextAnalyze
  <2>3. /\ action \in {"ready", "cap", "soft", "normal"}
        /\ action \in {"soft", "normal"} => b.answered < NormalCap
    BY <2>2, CapsAssumption DEF BudgetAction, Budget
  <2>0. CASE beyond /\ ~ExtensionGranted
    BY <1>3, <1>5, <2>0, <2>1
  <2>4. ASSUME ~(beyond /\ ~ExtensionGranted) PROVE beyond => ExtensionGranted'
    BY <2>4, GrantKept
  <2>5. q.step = "commit" /\ q.budget = b /\ q.action = IF beyond THEN "extended" ELSE action
    OBVIOUS
  <2>6. ASSUME ~(beyond /\ ~ExtensionGranted) PROVE request' = [request EXCEPT ![r] = q]
    BY <2>1, <2>6
  <2> HIDE DEF q, action, beyond
  <2>7. ASSUME ~(beyond /\ ~ExtensionGranted) PROVE Held(q)
    BY <2>3, <2>4, <2>5, <2>7 DEF Held, beyond
  <2> QED
    BY <1>5, <2>0, <2>6, <2>7
<1>9. ASSUME NEW r \in Requests, NEW n \in DOMAIN turns, SkipBegin(r, n)
      PROVE  \A s \in Requests : Held(request'[s])
  <2> DEFINE b == BudgetOf(Skipping(n))
             q == [step |-> "skip", turn |-> n, before |-> coverage, budget |-> b,
                   action |-> SkipAction(b, coverage)]
  <2>1. b \in Budget
    BY SkippingTurns, BudgetCounts
  <2>2. /\ SkipAction(b, coverage) = "normal" => Resolved(b) < NormalCap
        /\ SkipAction(b, coverage) = "soft" => b.answered < NormalCap
        /\ SkipAction(b, coverage) \in {"soft", "cap"} => b.answered > 0
    BY <2>1, CapsAssumption DEF SkipAction, Resolved, Budget
  <2>3. q.step = "skip" /\ q.budget = b /\ q.action = SkipAction(b, coverage)
    OBVIOUS
  <2>4. request' = [request EXCEPT ![r] = q]
    BY <1>9 DEF SkipBegin
  <2> HIDE DEF q, b
  <2>5. Held(q)
    BY <2>2, <2>3 DEF Held
  <2> QED
    BY <1>5, <2>4, <2>5
<1>10. ASSUME NEW r \in Requests,
              FirstRead(r) \/ FirstCommit(r) \/ NextCommit(r) \/ SkipCommit(r) \/ RequestFails(r)
       PROVE  \A s \in Requests : Held(request'[s])
  BY <1>3, <1>5, <1>10 DEF FirstRead, FirstCommit, NextCommit, SkipCommit, RequestFails
<1> QED
  BY <1>6, <1>7, <1>8, <1>9, <1>10
     DEF Next, vars, StartInterview, SaveTurnAnswer, LegacySkip, SkipClose, DecideEnd,
         DecideContinue, ApplyCoveragePatch

LEMMA Inductive == Spec => []IInv
<1>1. Init => IInv
  BY TypeOKInit, RowInvInit, RequestInvInit DEF IInv
<1>2. IInv /\ [Next]_vars => IInv'
  BY TypeOKNext, RowInvNext, RequestInvNext DEF IInv
<1> QED
  BY <1>1, <1>2, PTL DEF Spec

\* No interleaving asks one question more than the absolute cap.
THEOREM CapRespected == Spec => []QuestionsBounded
<1>1. IInv => QuestionsBounded
  BY DEF IInv, RowInv
<1> QED
  BY <1>1, Inductive, PTL

\* Beyond the normal cap there is an answer only if the user agreed to go on.
THEOREM NoUngrantedAnswer == Spec => []AnswersBeyondCapGranted
<1>1. IInv => AnswersBeyondCapGranted
  BY DEF IInv, RowInv
<1> QED
  BY <1>1, Inductive, PTL

\* A question has one result, and only the last one may be without.
THEOREM OneResult == Spec => []OneResultEach
<1>1. IInv => OneResultEach
  BY DEF IInv, RowInv
<1> QED
  BY <1>1, Inductive, PTL

\* An Interview is concluded with nothing open, as ready for a Reflection
\* exactly when there is an answer.
THEOREM ConclusionSound == Spec => []ClosedOnEvidence
<1>1. IInv => ClosedOnEvidence
  BY DEF IInv, RowInv
<1> QED
  BY <1>1, Inductive, PTL

\* A choice and what followed it are written together.
THEOREM ChoiceAndConsequence == Spec => []DecisionsConsistent
<1>1. IInv => DecisionsConsistent
  BY DEF IInv, RowInv
<1> QED
  BY <1>1, Inductive, PTL

===============================================================================
