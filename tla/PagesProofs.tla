------------------------------ MODULE PagesProofs ------------------------------
(***************************************************************************)
(* Proofs that the pages and the services agree: whatever the requests     *)
(* have made of the rows, the page, the answer to a request and the home   *)
(* page lead to buttons that are accepted.  A draft is refused when there   *)
(* are more than MaxConfirmed answers, so what is said of the offer to      *)
(* generate one needs a cap that allows no more: 10 and 10 as shipped.      *)
(***************************************************************************)
EXTENDS Pages, ReflectionProofs

\* While a completed Reflection lets a late skip write to its Interview, a
\* question that was asked by the user's choice stays resolved.
ExtendedResolved ==
    Exists => \A n \in DOMAIN decisions :
                decisions[n].selection = "CONTINUE"
                  => n + 1 \in DOMAIN turns /\ IsResolved(turns[n + 1])

-------------------------------------------------------------------------------
(* What the rows of an Interview in progress say of its last turn *)

\* A table in which every turn has one result has a valid budget.
LEMMA BudgetValid ==
    ASSUME NEW ts \in Seq(Turn), \A i \in DOMAIN ts : IsResolved(ts[i]),
           \A i \in DOMAIN ts : ~(ts[i].answer # None /\ ts[i].skipped)
    PROVE  ValidBudget(ts, Len(ts))
<1> DEFINE A == AnsweredTurns(ts)
           S == SkippedTurns(ts)
<1>1. IsFiniteSet(A) /\ IsFiniteSet(S)
  BY BudgetCounts
<1>2. A \cap S = {} /\ A \cup S = DOMAIN ts
  BY DEF AnsweredTurns, SkippedTurns, IsResolved
<1>3. Cardinality(A) \in Nat /\ Cardinality(S) \in Nat
  BY <1>1, FS_CardinalityType
<1>4. BudgetOf(ts).answered = Cardinality(A) /\ BudgetOf(ts).skipped = Cardinality(S)
      /\ BudgetOf(ts).questions = Len(ts)
  BY BudgetCounts DEF BudgetOf
<1>5. Cardinality(DOMAIN ts) = Len(ts)
  BY TurnsDomain
<1> HIDE DEF A, S
<1>6. Cardinality(A \cup S) = Cardinality(A) + Cardinality(S) - Cardinality(A \cap S)
  BY <1>1, FS_Union
<1>7. Cardinality(A \cap S) = 0
  BY <1>2, FS_EmptySet
<1>8. Cardinality(A) + Cardinality(S) = Len(ts)
  BY <1>2, <1>3, <1>5, <1>6, <1>7
<1> QED BY <1>4, <1>8 DEF ValidBudget, Resolved

LEMMA LastFacts ==
    ASSUME TypeOK, RowInv, turns # <<>>
    PROVE  /\ Last \in Nat \ {0} /\ Last \in DOMAIN turns /\ IsLast(Last)
           /\ Last + 1 \notin DOMAIN turns
           /\ turns[Last] \in Turn
           /\ IsResolved(turns[Last]) => ValidBudget(turns, Last)
           /\ ~IsResolved(turns[Last]) => ValidBudget(Skipping(Last), Last)
<1>1. turns \in Seq(Turn)
  BY DEF TypeOK
<1>2. Last \in Nat \ {0} /\ DOMAIN turns = 1..Last
  BY <1>1, TurnsDomain DEF Last
<1>3. Last \in DOMAIN turns /\ IsLast(Last) /\ Last + 1 \notin DOMAIN turns
  BY <1>2 DEF IsLast
<1>4. turns[Last] \in Turn
  BY <1>1, <1>2, <1>3
<1>5. \A n \in DOMAIN turns : n # Last => IsResolved(turns[n])
  BY <1>2 DEF RowInv, OneResultEach, IsLast
<1>6. ASSUME IsResolved(turns[Last]) PROVE ValidBudget(turns, Last)
  <2>1. \A n \in DOMAIN turns : IsResolved(turns[n]) /\ ~(turns[n].answer # None /\ turns[n].skipped)
    BY <1>5, <1>6 DEF RowInv, OneResultEach
  <2> QED BY <1>1, <2>1, BudgetValid DEF Last
<1>7. ASSUME ~IsResolved(turns[Last]) PROVE ValidBudget(Skipping(Last), Last)
  <2> DEFINE us == Skipping(Last)
  <2>1. /\ us \in Seq(Turn) /\ Len(us) = Last /\ DOMAIN us = DOMAIN turns
        /\ \A i \in DOMAIN turns : /\ us[i].answer = turns[i].answer
                                   /\ us[i].skipped = (i = Last \/ turns[i].skipped)
    BY <1>3, SkippingTurns DEF Last
  <2>2. ASSUME NEW i \in DOMAIN us
        PROVE  IsResolved(us[i]) /\ ~(us[i].answer # None /\ us[i].skipped)
    <3>1. CASE i = Last
      BY <1>7, <2>1, <3>1 DEF IsResolved
    <3>2. CASE i # Last
      BY <1>5, <2>1, <3>2 DEF IsResolved, RowInv, OneResultEach
    <3> QED BY <3>1, <3>2
  <2> HIDE DEF us
  <2>3. ValidBudget(us, Len(us))
    BY <2>1, <2>2, BudgetValid
  <2> QED BY <2>1, <2>3 DEF us
<1> QED BY <1>2, <1>3, <1>4, <1>6, <1>7

\* A choice at the last turn of an Interview in progress is one that waits.
LEMMA WaitingFacts ==
    ASSUME TypeOK, RowInv, turns # <<>>, status = "IN_PROGRESS"
    PROVE  /\ Waits(Last) <=> Last \in DOMAIN decisions
           /\ Last \in DOMAIN decisions => IsResolved(turns[Last])
<1>1. \A n \in DOMAIN decisions : decisions[n].selection \in {"END", "CONTINUE", None}
  BY DEF TypeOK, Decision
<1> QED BY <1>1, LastFacts DEF RowInv, DecisionsConsistent, Waits

\* A choice that waits can be made, where it is not known to be stuck.
LEMMA ChoiceLeadsOn ==
    ASSUME TypeOK, RowInv, turns # <<>>, status = "IN_PROGRESS", ~KnownDeadEnd, Waits(Last)
    PROVE  Decidable(Last)
<1>1. Page = "choice"
  BY DEF Page, TurnPage, KnownDeadEnd
<1> QED BY <1>1 DEF KnownDeadEnd, UndecidableChoice

LEMMA LastOpen ==
    ASSUME TypeOK, RowInv, turns # <<>>, status = "IN_PROGRESS", ~KnownDeadEnd,
           ~Waits(Last), turns[Last].answer = None
    PROVE  /\ Skippable(Last)
           /\ ~turns[Last].skipped => Answerable(Last)
<1>1. IsLast(Last) /\ Last \notin DOMAIN decisions /\ Last \in DOMAIN turns
  BY LastFacts, WaitingFacts
<1>2. ValidBudget(Skipping(Last), Last)
  <2>1. CASE turns[Last].skipped
    <3>1. Skipping(Last) = turns
      <4>1. /\ Skipping(Last) = [turns EXCEPT ![Last] = [turns[Last] EXCEPT !.skipped = TRUE]]
        BY DEF Skipping
      <4>2. turns[Last] \in [answer : Answers \cup {None}, skipped : BOOLEAN, omitted : BOOLEAN]
        BY LastFacts DEF Turn
      <4>3. [turns[Last] EXCEPT !.skipped = TRUE] = turns[Last]
        BY <2>1, <4>2
      <4>4. turns \in [DOMAIN turns -> Turn]
        BY TurnsDomain DEF TypeOK
      <4> QED BY <1>1, <4>1, <4>3, <4>4
    <3> QED BY <2>1, <3>1, LastFacts DEF IsResolved
  <2>2. CASE ~turns[Last].skipped
    BY <2>2, LastFacts DEF IsResolved
  <2> QED BY <2>1, <2>2
<1> QED BY <1>1, <1>2 DEF Skippable, Answerable

LEMMA LastAnswered ==
    ASSUME TypeOK, RowInv, turns # <<>>, status = "IN_PROGRESS", ~KnownDeadEnd,
           ~Waits(Last), turns[Last].answer # None
    PROVE  Accepted("next")
<1>1. ~turns[Last].omitted
  BY DEF KnownDeadEnd, LegacyMark
<1>2. ~FollowedUp(Last)
  BY <1>1, LastFacts, WaitingFacts DEF FollowedUp
<1>3. ValidBudget(turns, Last)
  BY LastFacts DEF IsResolved
<1> QED BY <1>2, <1>3 DEF Accepted

-------------------------------------------------------------------------------
(* The pages *)

\* Before the Reflection is there, the Interview keeps its invariant.
LEMMA BeforeReflection ==
    ASSUME ReflectionInv, status \notin {"REFLECTION_READY", "COMPLETED"} \/ ~Exists
    PROVE  TypeOK /\ RowInv /\ ~Exists
BY DEF ReflectionInv, ReflectionAfterInterview, IsCompleted, IInv

\* The page that offers the Reflection: its request is not refused.
LEMMA ReadyLeadsOn ==
    ASSUME AbsoluteCap <= MaxConfirmed, ReflectionInv, status = "REFLECTION_READY"
    PROVE  Accepted("generate")
<1>1. CASE Exists
  BY <1>1 DEF Accepted, Ready
<1>2. CASE ~Exists
  <2>1. TypeOK /\ RowInv
    BY <1>2, BeforeReflection
  <2>2. AnsweredTurns(turns) # {}
    BY <2>1 DEF RowInv, ClosedOnEvidence
  <2>3. Cardinality(AnsweredTurns(turns)) <= MaxConfirmed
    <3>1. /\ IsFiniteSet(DOMAIN turns) /\ AnsweredTurns(turns) \subseteq DOMAIN turns
          /\ Cardinality(DOMAIN turns) = Len(turns) /\ Len(turns) \in Nat
      BY <2>1, TurnsDomain DEF TypeOK, AnsweredTurns
    <3>2. Cardinality(AnsweredTurns(turns)) <= Len(turns)
          /\ Cardinality(AnsweredTurns(turns)) \in Nat
      BY <3>1, FS_Subset, FS_CardinalityType
    <3>3. Len(turns) <= AbsoluteCap
      BY <2>1, <3>1 DEF RowInv, QuestionsBounded
    <3> QED BY <3>1, <3>2, <3>3, CapsAssumption, MaxConfirmedAssumption
  <2> QED BY <2>2, <2>3 DEF Accepted, Ready, Draftable
<1> QED BY <1>1, <1>2

LEMMA PageCases ==
    ASSUME ReflectionInv, ~KnownDeadEnd
    PROVE  \/ Page = "start" /\ status = "ABSENT"
           \/ Page = "loading" /\ status = "IN_PROGRESS" /\ turns = <<>>
           \/ Page = "choice" /\ Decidable(Last) /\ TypeOK /\ RowInv /\ turns # <<>>
           \/ Page = "saved" /\ Accepted("next")
           \/ Page = "retry" /\ Skippable(Last)
           \/ Page = "question" /\ Skippable(Last) /\ Answerable(Last)
           \/ Page = "ready" /\ status = "REFLECTION_READY"
           \/ Page = "reflection" /\ Exists /\ reflection.state \in {"DRAFT", "COMPLETED"}
           \/ Page \in {"ended", "unavailable"}
              /\ status \notin {"IN_PROGRESS", "REFLECTION_READY"}
<1>1. status \in {"ABSENT", "IN_PROGRESS", "REFLECTION_READY", "ENDED_NO_REFLECTION", "COMPLETED"}
  BY DEF ReflectionInv, TypeOK, Statuses
<1>2. Exists => reflection.state \in {"DRAFT", "COMPLETED"}
  BY DEF ReflectionInv, ReflectionTypeOK, ReflectionRow, Exists
<1>3. CASE status = "IN_PROGRESS" /\ turns # <<>>
  <2>1. TypeOK /\ RowInv
    BY <1>3, BeforeReflection
  <2>2. Page = TurnPage(Last)
    BY <1>3 DEF Page, KnownDeadEnd
  <2>3. CASE Waits(Last)
    BY <1>3, <2>1, <2>2, <2>3, ChoiceLeadsOn DEF TurnPage
  <2>4. CASE ~Waits(Last) /\ turns[Last].answer # None
    BY <1>3, <2>1, <2>2, <2>4, LastAnswered DEF TurnPage
  <2>5. CASE ~Waits(Last) /\ turns[Last].answer = None
    BY <1>3, <2>1, <2>2, <2>5, LastOpen DEF TurnPage
  <2> QED BY <2>3, <2>4, <2>5
<1>4. CASE status = "IN_PROGRESS" /\ turns = <<>>
  BY <1>4 DEF Page
<1>5. CASE status # "IN_PROGRESS"
  BY <1>1, <1>2, <1>5 DEF Page, ReadyPage
<1> QED BY <1>3, <1>4, <1>5

\* Whatever page an Interview that is not concluded leads to, the service
\* behind one of its buttons accepts it, in any interleaving and for every cap
\* that allows no more answers than a draft is written from.
THEOREM PagesLeadOn ==
    ASSUME AbsoluteCap <= MaxConfirmed
    PROVE  ReflectionSpec => []PageLeadsOn
<1>1. ASSUME ReflectionInv, status \in {"IN_PROGRESS", "REFLECTION_READY"}, ~KnownDeadEnd
      PROVE  LeadsOn(Page) \/ (Page = "reflection" /\ reflection.state = "COMPLETED")
  BY <1>1, PageCases, ReadyLeadsOn DEF LeadsOn, Offered, Accepted
<1>2. ReflectionInv => PageLeadsOn
  BY <1>1 DEF PageLeadsOn
<1> QED BY <1>2, ReflectionInductive, PTL

\* No button of a page is refused, but a "continue" beside which "end" is left,
\* for the same caps.
THEOREM ButtonsWork ==
    ASSUME AbsoluteCap <= MaxConfirmed
    PROVE  ReflectionSpec => []OffersAccepted
<1>1. ASSUME ReflectionInv, ~KnownDeadEnd, NEW button \in Offered(Page)
      PROVE  \/ Accepted(button)
             \/ /\ button = "continue"
                /\ coverage[decisions[Last].axis] # UNCOVERED
                /\ Accepted("end")
  <2>1. CASE Page = "choice" /\ Decidable(Last) /\ TypeOK /\ RowInv /\ turns # <<>>
    <3>1. ValidBudget(turns, Last) /\ BudgetOf(turns).questions < AbsoluteCap
      BY <2>1, LastFacts DEF Decidable, ValidBudget
    <3> QED BY <1>1, <2>1, <3>1 DEF Offered, Accepted, MayContinue
  <2>2. CASE Page # "choice"
    BY <1>1, <2>2, PageCases, ReadyLeadsOn DEF Offered, Accepted
  <2> QED BY <1>1, <2>1, <2>2, PageCases
<1>2. ReflectionInv => OffersAccepted
  BY <1>1 DEF OffersAccepted
<1> QED BY <1>2, ReflectionInductive, PTL

\* The home page names the stage that its link leads to, where the last
\* question was not skipped.
THEOREM HomeIsTrue == ReflectionSpec => []HomeLabelTrue
<1>1. ASSUME ReflectionInv, OnHome, ~LegacyMark, turns # <<>> => ~turns[Last].skipped
      PROVE  HomeLabel = Page
  <2>1. TypeOK /\ RowInv /\ status = "IN_PROGRESS"
    BY <1>1, BeforeReflection DEF OnHome
  <2>2. CASE turns = <<>>
    BY <2>1, <2>2 DEF HomeLabel, Page
  <2>3. CASE turns # <<>>
    <3>1. Page = TurnPage(Last)
      BY <1>1, <2>1, <2>3 DEF Page
    <3>2. Waits(Last) => turns[Last].answer # None
      BY <1>1, <2>1, <2>3, WaitingFacts DEF IsResolved
    <3> QED BY <1>1, <2>3, <3>1, <3>2 DEF HomeLabel, TurnPage
  <2> QED BY <2>2, <2>3
<1>2. ReflectionInv => HomeLabelTrue
  BY <1>1 DEF HomeLabelTrue
<1> QED BY <1>2, ReflectionInductive, PTL

-------------------------------------------------------------------------------
(* The answers to requests *)

\* A late skip leaves the questions that were asked by a choice.
LEMMA LateSkipKeeps ==
    ASSUME TypeOK, NEW r \in Requests, SkipCommit(r)
    PROVE  /\ \A i \in DOMAIN turns : i \in DOMAIN turns' /\ turns'[i] = turns[i]
           /\ \A n \in DOMAIN decisions' :
                decisions'[n].selection = "CONTINUE"
                  => n \in DOMAIN decisions /\ decisions'[n] = decisions[n]
<1>1. /\ request[r].turn \in Nat \ {0} /\ ValidBudget(turns, request[r].turn)
      /\ request[r].turn \notin DOMAIN decisions /\ turns \in Seq(Turn)
  BY RequestFields DEF TypeOK, SkipCommit, SkipUnmoved
<1>2. request[r].turn = Len(turns)
  BY <1>1, ValidBudgetLast
<1>3. turns' = turns \/ turns' = Insert(turns, Len(turns) + 1, NewTurn)
  BY <1>2 DEF SkipCommit
<1>4. \A i \in DOMAIN turns : i \in DOMAIN turns' /\ turns'[i] = turns[i]
  <2>1. Len(turns) + 1 \notin DOMAIN turns
    BY <1>1, TurnsDomain
  <2> QED BY <1>3, <2>1 DEF Insert
<1>5. \/ decisions' = decisions
      \/ \E v : decisions' = Insert(decisions, request[r].turn, v) /\ v.selection = None
  <2>1. CASE UNCHANGED decisions
    BY <2>1
  <2>2. CASE \E axis, kind :
               decisions' = Insert(decisions, request[r].turn,
                                   [kind |-> kind, selection |-> None, axis |-> axis])
    <3>1. PICK axis, kind :
                 decisions' = Insert(decisions, request[r].turn,
                                     [kind |-> kind, selection |-> None, axis |-> axis])
      BY <2>2
    <3>2. [kind |-> kind, selection |-> None, axis |-> axis].selection = None
      OBVIOUS
    <3> QED BY <3>1, <3>2
  <2> QED BY <2>1, <2>2 DEF SkipCommit
<1>6. \A n \in DOMAIN decisions' :
        decisions'[n].selection = "CONTINUE"
          => n \in DOMAIN decisions /\ decisions'[n] = decisions[n]
  BY <1>5, DataAssumption DEF Insert
<1> QED BY <1>4, <1>6

LEMMA ExtendedResolvedNext ==
    ASSUME ReflectionInv, ExtendedResolved, [ReflectionNext]_allVars
    PROVE  ExtendedResolved'
<1>1. CASE ~Exists' \/ (Exists /\ UNCHANGED <<turns, decisions>>)
  BY <1>1 DEF ExtendedResolved, IsResolved, Exists
<1>2. CASE Exists /\ [Next]_vars /\ UNCHANGED reflection
  <2>1. status \in {"REFLECTION_READY", "COMPLETED"} /\ TypeOK
    BY <1>2 DEF ReflectionInv, ReflectionAfterInterview
  <2>2. CASE UNCHANGED <<status, turns, decisions>>
    BY <1>1, <1>2, <2>2
  <2>3. ASSUME NEW r \in Requests, SkipCommit(r) PROVE ExtendedResolved'
    BY <1>2, <2>1, <2>3, LateSkipKeeps DEF ExtendedResolved, IsResolved
  <2> QED BY <1>2, <2>1, <2>2, <2>3, StatusSteps
<1>3. CASE ~Exists /\ \E d \in Drafters : GenerateSave(d)
  <2>1. status = "REFLECTION_READY" /\ UNCHANGED <<turns, decisions>> /\ RowInv
    BY <1>3, BeforeReflection DEF GenerateSave, SaveAccepted, Ready, vars, rows
  <2>2. /\ \A n \in DOMAIN turns : IsResolved(turns[n])
        /\ \A n \in DOMAIN decisions : decisions[n].selection = "CONTINUE" => n + 1 \in DOMAIN turns
    BY <2>1 DEF RowInv, ClosedOnEvidence, DecisionsConsistent
  <2> QED BY <2>1, <2>2 DEF ExtendedResolved, IsResolved
<1>4. CASE ~Exists /\ Exists' /\ ~\E d \in Drafters : GenerateSave(d)
  BY <1>4 DEF ReflectionNext, allVars, reflectionVars, Exists, GenerateRead, GenerateRefused,
              RevisionRead, RevisionSave, DraftingFails, DraftingEnds, CompleteReflection
<1>5. CASE Exists /\ ~([Next]_vars /\ UNCHANGED reflection)
  <2>1. UNCHANGED <<turns, decisions>>
    BY <1>5 DEF ReflectionNext, allVars, reflectionVars, vars, rows, GenerateRead, GenerateSave,
                GenerateRefused, RevisionRead, RevisionSave, DraftingFails, DraftingEnds,
                CompleteReflection
  <2> QED BY <1>1, <1>5, <2>1
<1> QED BY <1>1, <1>2, <1>3, <1>4, <1>5

LEMMA PagesInductive == ReflectionSpec => [](ReflectionInv /\ ExtendedResolved)
<1>1. ReflectionInit => ExtendedResolved
  BY DEF ReflectionInit, ExtendedResolved, Exists
<1>2. ReflectionInv /\ ExtendedResolved /\ [ReflectionNext]_allVars => ExtendedResolved'
  BY ExtendedResolvedNext
<1> QED BY <1>1, <1>2, ReflectionInductive, PTL DEF ReflectionSpec

LEMMA FollowedUpLeadsOn ==
    ASSUME AbsoluteCap <= MaxConfirmed,
           ReflectionInv, status \in {"IN_PROGRESS", "REFLECTION_READY"}, ~KnownDeadEnd,
           Last \in DOMAIN turns, FollowedUp(Last)
    PROVE  /\ turns[Last].answer # None => LeadsOn(NextResponse)
           /\ turns[Last].skipped => LeadsOn(SkipResponse(Last))
<1>1. CASE status = "REFLECTION_READY"
  BY <1>1, ReadyLeadsOn DEF NextResponse, SkipResponse, LeadsOn, Offered
<1>2. CASE status = "IN_PROGRESS"
  <2>1. TypeOK /\ RowInv /\ turns # <<>>
    BY <1>2, BeforeReflection
  <2>2. ~turns[Last].omitted
    BY <1>2, <2>1 DEF KnownDeadEnd, LegacyMark
  <2>3. Waits(Last)
    BY <1>2, <2>1, <2>2, LastFacts, WaitingFacts DEF FollowedUp
  <2>4. Decidable(Last)
    BY <1>2, <2>1, <2>3, ChoiceLeadsOn
  <2> QED BY <1>2, <2>3, <2>4 DEF NextResponse, SkipResponse, LeadsOn, Offered, Accepted
<1> QED BY <1>1, <1>2

LEMMA ChoiceMadeLeadsOn ==
    ASSUME AbsoluteCap <= MaxConfirmed,
           ReflectionInv, ExtendedResolved, status \in {"IN_PROGRESS", "REFLECTION_READY"},
           ~KnownDeadEnd, NEW n \in DOMAIN decisions,
           \/ decisions[n].selection = "END"
           \/ /\ decisions[n].selection = "CONTINUE" /\ n + 1 = Last
              /\ ~IsResolved(turns[Last])
    PROVE  LeadsOn(DecisionResponse(n))
<1>1. CASE decisions[n].selection = "END"
  <2>1. status = "REFLECTION_READY"
    <3>1. CASE Exists
      BY <3>1 DEF ReflectionInv, ReflectionAfterInterview
    <3>2. CASE ~Exists
      BY <1>1, <3>2, BeforeReflection DEF RowInv, DecisionsConsistent
    <3> QED BY <3>1, <3>2
  <2> QED BY <1>1, <2>1, ReadyLeadsOn DEF DecisionResponse, LeadsOn, Offered
<1>2. CASE decisions[n].selection = "CONTINUE" /\ n + 1 = Last /\ ~IsResolved(turns[Last])
  <2>1. ~Exists /\ TypeOK /\ RowInv
    BY <1>2, BeforeReflection DEF ExtendedResolved
  <2>2. Last \in DOMAIN turns
    BY <1>2, <2>1 DEF RowInv, DecisionsConsistent
  <2>3. status = "IN_PROGRESS"
    BY <1>2, <2>1, <2>2 DEF RowInv, ClosedOnEvidence
  <2>4. turns # <<>> /\ IsLast(Last)
    BY <2>1, <2>2, LastFacts
  <2>5. Answerable(Last)
    BY <1>2, <2>3, <2>4 DEF Answerable, IsResolved
  <2> QED BY <1>2, <2>5 DEF DecisionResponse, LeadsOn, Offered, Accepted
<1> QED BY <1>1, <1>2

\* The fragments that answer a request, chosen by branches of their own, lead
\* on as the pages do, also after a late skip has reopened the Interview, for the
\* same caps.
THEOREM FragmentsLeadOn ==
    ASSUME AbsoluteCap <= MaxConfirmed
    PROVE  ReflectionSpec => []ResponsesLeadOn
<1>1. ReflectionInv /\ ExtendedResolved => ResponsesLeadOn
  BY FollowedUpLeadsOn, ChoiceMadeLeadsOn DEF ResponsesLeadOn
<1> QED BY <1>1, PagesInductive, PTL

===============================================================================
