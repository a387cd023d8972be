------------------------------- MODULE Interview -------------------------------
(***************************************************************************)
(* One Interview of AfterMuse: the rows reflections_interview,             *)
(* reflections_interviewturn and reflections_interviewprogressdecision,    *)
(* and the HTTP requests that read and write them concurrently             *)
(* (src/reflections/services.py).                                          *)
(*                                                                         *)
(* Every transaction that writes these rows begins by locking the          *)
(* Interview row (SELECT ... FOR UPDATE), so a transaction is one action.  *)
(* The provider (an LLM) is called outside any transaction: a request that *)
(* needs one is several actions, and what it read before the call is kept  *)
(* in request[r] until it commits.  A request may fail at any point in     *)
(* between: the provider raises or answers something the validation        *)
(* rejects, the worker dies, the database refuses, the state moved.        *)
(***************************************************************************)
EXTENDS Integers, FiniteSets, Sequences

CONSTANTS
    Requests,           \* requests that may be between two transactions at once
    Axes,               \* the Core Coverage axes
    Answers,            \* answer texts a user may submit
    None,               \* SQL NULL
    SoftStopAnswers,    \* answers from which the user may stop early
    NormalCap,          \* settings.INTERVIEW_QUESTION_NORMAL_CAP
    AbsoluteCap         \* settings.INTERVIEW_QUESTION_ABSOLUTE_CAP

\* The range checks settings.py makes on start-up.
ASSUME CapsAssumption ==
    /\ SoftStopAnswers \in Nat /\ NormalCap \in Nat /\ AbsoluteCap \in Nat
    /\ 1 <= SoftStopAnswers /\ SoftStopAnswers <= NormalCap /\ NormalCap < AbsoluteCap

ASSUME DataAssumption ==
    Axes # {} /\ None \notin Axes /\ None \notin Answers /\ None \notin {"END", "CONTINUE"}

VARIABLES
    status,     \* Interview.status, "ABSENT" before the row exists
    coverage,   \* Interview.coverage, by rank
    turns,      \* turns[n]: the InterviewTurn with sequence n
    decisions,  \* decisions[n]: the InterviewProgressDecision of turn n
    request     \* what each request holds between its transactions

vars == <<status, coverage, turns, decisions, request>>
rows == <<status, coverage, turns, decisions>>

-------------------------------------------------------------------------------
(* Data *)

UNCOVERED == 0
PARTIAL   == 1
COVERED   == 2

Coverages == [Axes -> {UNCOVERED, PARTIAL, COVERED}]

Statuses == {"ABSENT", "IN_PROGRESS", "REFLECTION_READY", "COMPLETED", "ENDED_NO_REFLECTION"}

\* omitted is next_question_skipped_at: no question follows this answer.
Turn == [answer : Answers \cup {None}, skipped : BOOLEAN, omitted : BOOLEAN]

NewTurn == [answer |-> None, skipped |-> FALSE, omitted |-> FALSE]

Decision == [kind : {"SOFT_STOP", "CAP_EXTENSION"},
             selection : {"END", "CONTINUE", None},
             axis : Axes]

Budget == [questions : Nat, answered : Nat, skipped : Nat]

Idle == [step |-> "idle"]

RequestState ==
    [step : {"idle", "first"}]
      \cup [step : {"analyze"}, turn : Nat \ {0}, answer : Answers, before : Coverages, budget : Budget]
      \cup [step : {"commit"}, turn : Nat \ {0}, answer : Answers, before : Coverages,
            budget : Budget, projected : Coverages,
            action : {"ready", "cap", "extended", "soft", "normal"}]
      \cup [step : {"skip"}, turn : Nat \ {0}, before : Coverages, budget : Budget,
            action : {"cap", "soft", "normal"}]

\* The table f with a row v under the new key n.
Insert(f, n, v) == [i \in DOMAIN f \cup {n} |-> IF i = n THEN v ELSE f[i]]

-------------------------------------------------------------------------------
(* What the handlers compute from the rows *)

AllCovered(cov)   == \A a \in Axes : cov[a] = COVERED
HasUncovered(cov) == \E a \in Axes : cov[a] = UNCOVERED

AnsweredTurns(ts) == {n \in DOMAIN ts : ts[n].answer # None}
SkippedTurns(ts)  == {n \in DOMAIN ts : ts[n].skipped}

BudgetOf(ts) == [questions |-> Cardinality(DOMAIN ts),
                 answered  |-> Cardinality(AnsweredTurns(ts)),
                 skipped   |-> Cardinality(SkippedTurns(ts))]

Resolved(b) == b.answered + b.skipped

\* n is the number of questions and every one of them is resolved.
ValidBudget(ts, n) ==
    /\ BudgetOf(ts).questions = n
    /\ Resolved(BudgetOf(ts)) = BudgetOf(ts).questions

\* Mutant: the answered count is compared with > instead of >=.
BudgetAction_CapOffByOne(b, cov) ==
    IF b.questions >= AbsoluteCap THEN "ready"
    ELSE IF b.answered > NormalCap
    THEN IF HasUncovered(cov) THEN "cap" ELSE "ready"
    ELSE IF b.answered >= SoftStopAnswers /\ AllCovered(cov) THEN "soft" ELSE "normal"

\* What may follow the answer to question b.questions.
BudgetAction(b, cov) ==
    IF b.questions >= AbsoluteCap THEN "ready"
    ELSE IF b.answered >= NormalCap
    THEN IF HasUncovered(cov) THEN "cap" ELSE "ready"
    ELSE IF b.answered >= SoftStopAnswers /\ AllCovered(cov) THEN "soft" ELSE "normal"

\* Mutant: a skip is followed by the rule of an answer.
SkipAction_AsAnswer(b, cov) == BudgetAction(b, cov)

\* Mutant: a skip never meets a cap.
SkipAction_NoCap(b, cov) ==
    IF b.answered >= SoftStopAnswers /\ AllCovered(cov) THEN "soft" ELSE "normal"

\* What may follow a skipped question; "close" needs no provider.
SkipAction(b, cov) ==
    IF Resolved(b) >= NormalCap
    THEN IF Resolved(b) < AbsoluteCap /\ b.answered > 0 /\ HasUncovered(cov)
         THEN "cap" ELSE "close"
    ELSE IF b.answered >= SoftStopAnswers /\ AllCovered(cov) THEN "soft" ELSE "normal"

\* Mutant: one answer is taken for none.
ClosedStatus_OffByOne(b) == IF b.answered > 1 THEN "REFLECTION_READY" ELSE "ENDED_NO_REFLECTION"

ClosedStatus(b) == IF b.answered > 0 THEN "REFLECTION_READY" ELSE "ENDED_NO_REFLECTION"

IsLast(n) == n \in DOMAIN turns /\ \A m \in DOMAIN turns : m <= n

IsResolved(t) == t.answer # None \/ t.skipped

\* Mutant: the choice is looked for at the question after the cap.
ExtensionGranted_NextTurn ==
    /\ (NormalCap + 1) \in DOMAIN decisions
    /\ decisions[NormalCap + 1].kind = "CAP_EXTENSION"
    /\ decisions[NormalCap + 1].selection = "CONTINUE"

\* The user chose to go beyond NormalCap when that cap was reached.
ExtensionGranted ==
    /\ NormalCap \in DOMAIN decisions
    /\ decisions[NormalCap].kind = "CAP_EXTENSION"
    /\ decisions[NormalCap].selection = "CONTINUE"

\* What comes after turn n is already in the database.
FollowedUp(n) ==
    \/ n + 1 \in DOMAIN turns
    \/ n \in DOMAIN decisions
    \/ turns[n].omitted
    \/ status \in {"REFLECTION_READY", "ENDED_NO_REFLECTION"}

(***************************************************************************)
(* What the validation of a provider's proposal lets through.  Past the    *)
(* normal cap a question must aim at an UNCOVERED axis; asking nothing     *)
(* more needs full Coverage, or the cap.  Question text and grounding      *)
(* quotes are left out: they only make a proposal fail (RequestFails), and *)
(* an answered question, or a claim, always leaves something to quote.     *)
(***************************************************************************)
MayAskAbout(axis, action, cov) == action \in {"cap", "extended"} => cov[axis] = UNCOVERED
MayOmit(action, cov)           == action \in {"cap", "extended"} \/ AllCovered(cov)

-------------------------------------------------------------------------------
(***************************************************************************)
(* Before the Interview is started, or an Interview of a release without   *)
(* REFLECTION_READY: in progress, its last answer marked as the last one.  *)
(***************************************************************************)
Init ==
    /\ decisions = <<>>
    /\ request = [r \in Requests |-> Idle]
    /\ \/ /\ status = "ABSENT"
          /\ turns = <<>>
          /\ coverage = [a \in Axes |-> UNCOVERED]
       \/ /\ status = "IN_PROGRESS"
          /\ coverage = [a \in Axes |-> COVERED]
          /\ \E n \in 1..NormalCap, text \in Answers :
               turns = [i \in 1..n |-> [answer |-> text, skipped |-> FALSE, omitted |-> i = n]]

-------------------------------------------------------------------------------
(* Starting: the Interview row, then the first question *)

StartInterview ==
    /\ status = "ABSENT"
    /\ status' = "IN_PROGRESS"
    /\ coverage' = [a \in Axes |-> UNCOVERED]
    /\ UNCHANGED <<turns, decisions, request>>

FirstRead(r) ==
    /\ request[r] = Idle
    /\ status = "IN_PROGRESS"
    /\ 1 \notin DOMAIN turns
    /\ request' = [request EXCEPT ![r] = [step |-> "first"]]
    /\ UNCHANGED rows

FirstCommit(r) ==
    /\ request[r].step = "first"
    /\ status = "IN_PROGRESS"
    /\ 1 \notin DOMAIN turns
    /\ turns' = Insert(turns, 1, NewTurn)
    /\ request' = [request EXCEPT ![r] = Idle]
    /\ UNCHANGED <<status, coverage, decisions>>

-------------------------------------------------------------------------------
(* Answering *)

\* Mutant: the lock is taken but skipped turns are answered.
Answerable_Skipped(n) == status = "IN_PROGRESS" /\ IsLast(n) /\ turns[n].answer = None

Answerable(n) ==
    /\ status = "IN_PROGRESS"
    /\ IsLast(n)
    /\ ~turns[n].skipped
    /\ turns[n].answer = None

SaveTurnAnswer(n, text) ==
    /\ Answerable(n)
    /\ turns' = [turns EXCEPT ![n].answer = text]
    /\ UNCHANGED <<status, coverage, decisions, request>>

-------------------------------------------------------------------------------
(* The follow-up of an answer: read, analyse (provider), ask (provider), commit *)

NextRead(r, n) ==
    /\ request[r] = Idle
    /\ status = "IN_PROGRESS"
    /\ n \in DOMAIN turns
    /\ turns[n].answer # None
    /\ ~FollowedUp(n)
    /\ IsLast(n)
    /\ ValidBudget(turns, n)
    /\ request' = [request EXCEPT ![r] =
                     [step |-> "analyze", turn |-> n, answer |-> turns[n].answer,
                      before |-> coverage, budget |-> BudgetOf(turns)]]
    /\ UNCHANGED rows

\* What the validation of an analysis lets through: each axis it names rises.
ValidAnalysis(before, projected) ==
    \A a \in Axes : projected[a] # before[a] => projected[a] > coverage[a]

(***************************************************************************)
(* The analysis is checked against Coverage as it is when the target is    *)
(* read again, and applied, though, to the Coverage of NextRead.  Without  *)
(* the user's permission the request ends there when more answers than the *)
(* normal cap are given.                                                   *)
(***************************************************************************)
NextAnalyze(r) ==
    /\ request[r].step = "analyze"
    /\ status = "IN_PROGRESS"
    /\ \E projected \in Coverages :
         LET q      == request[r]
             action == BudgetAction(q.budget, projected)
             beyond == action = "cap" /\ q.budget.answered > NormalCap
         IN
         /\ ValidAnalysis(q.before, projected)
         /\ request' = [request EXCEPT ![r] =
              IF beyond /\ ~ExtensionGranted THEN Idle
              ELSE [step |-> "commit", turn |-> q.turn, answer |-> q.answer,
                    before |-> q.before, budget |-> q.budget, projected |-> projected,
                    action |-> IF beyond THEN "extended" ELSE action]]
    /\ UNCHANGED rows

\* Mutant: Coverage is not compared with what the request read.
NextUnmoved_AnyCoverage(q) ==
    /\ turns[q.turn].answer = q.answer /\ ~turns[q.turn].skipped
    /\ ~FollowedUp(q.turn) /\ status = "IN_PROGRESS"
    /\ ValidBudget(turns, q.turn) /\ BudgetOf(turns) = q.budget

\* Mutant: a pending decision is not taken for a follow-up.
NextUnmoved_AnyDecision(q) ==
    /\ turns[q.turn].answer = q.answer /\ ~turns[q.turn].skipped
    /\ q.turn + 1 \notin DOMAIN turns /\ ~turns[q.turn].omitted
    /\ status = "IN_PROGRESS" /\ coverage = q.before
    /\ ValidBudget(turns, q.turn) /\ BudgetOf(turns) = q.budget

\* Nothing that the follow-up was computed from has moved.
NextUnmoved(q) ==
    /\ turns[q.turn].answer = q.answer
    /\ ~turns[q.turn].skipped
    /\ ~FollowedUp(q.turn)
    /\ status = "IN_PROGRESS"
    /\ ValidBudget(turns, q.turn)
    /\ BudgetOf(turns) = q.budget
    /\ coverage = q.before

\* The three ways a follow-up ends share Coverage and the request's return.
NextCommit(r) ==
    LET q == request[r] IN
    /\ q.step = "commit"
    /\ NextUnmoved(q)
    /\ coverage' = q.projected
    /\ request' = [request EXCEPT ![r] = Idle]
    /\ \/ \* nothing more to ask
          /\ q.action = "ready" \/ MayOmit(q.action, q.projected)
          /\ status' = "REFLECTION_READY"
          /\ turns' = [turns EXCEPT ![q.turn].omitted = q.action # "ready"]
          /\ UNCHANGED decisions
       \/ \* the question waits for the user's choice
          /\ q.action \in {"soft", "cap"}
          /\ \E axis \in Axes :
               /\ MayAskAbout(axis, q.action, q.projected)
               /\ decisions' = Insert(decisions, q.turn,
                    [kind |-> IF q.action = "soft" THEN "SOFT_STOP" ELSE "CAP_EXTENSION",
                     selection |-> None, axis |-> axis])
          /\ UNCHANGED <<status, turns>>
       \/ \* the question is asked
          /\ q.action \in {"normal", "extended"}
          /\ \E axis \in Axes : MayAskAbout(axis, q.action, q.projected)
          /\ BudgetOf(turns).questions < AbsoluteCap
          /\ turns' = Insert(turns, q.turn + 1, NewTurn)
          /\ UNCHANGED <<status, decisions>>

\* Mutant: the status found under the lock is not looked at.
LegacySkip_AnyStatus(n) ==
    /\ n \in DOMAIN turns
    /\ turns[n].omitted
    /\ status' = "REFLECTION_READY"
    /\ UNCHANGED <<coverage, turns, decisions, request>>

\* The mark a previous release left is turned into a status.
LegacySkip(n) ==
    /\ status = "IN_PROGRESS"
    /\ n \in DOMAIN turns
    /\ turns[n].answer # None
    /\ n + 1 \notin DOMAIN turns
    /\ turns[n].omitted
    /\ status' = "REFLECTION_READY"
    /\ UNCHANGED <<coverage, turns, decisions, request>>

-------------------------------------------------------------------------------
(* Skipping a question: mark and decide, ask (provider), commit *)

\* The turns once n is skipped.
Skipping(n) == [turns EXCEPT ![n].skipped = TRUE]

\* n may be skipped now, or was skipped and its follow-up is still missing.
Skippable(n) ==
    /\ status = "IN_PROGRESS"
    /\ IsLast(n)
    /\ turns[n].answer = None
    /\ n \notin DOMAIN decisions
    /\ ValidBudget(Skipping(n), n)

SkipClose(n) ==
    /\ Skippable(n)
    /\ SkipAction(BudgetOf(Skipping(n)), coverage) = "close"
    /\ turns' = Skipping(n)
    /\ status' = ClosedStatus(BudgetOf(Skipping(n)))
    /\ UNCHANGED <<coverage, decisions, request>>

SkipBegin(r, n) ==
    /\ request[r] = Idle
    /\ Skippable(n)
    /\ LET budget == BudgetOf(Skipping(n))
           action == SkipAction(budget, coverage)
       IN
       /\ action # "close"
       /\ turns' = Skipping(n)
       /\ request' = [request EXCEPT ![r] =
                        [step |-> "skip", turn |-> n, before |-> coverage,
                         budget |-> budget, action |-> action]]
    /\ UNCHANGED <<status, coverage, decisions>>

\* Mutant: a conclusion reached meanwhile is not looked at.
SkipUnmoved_AnyStatus(q) ==
    /\ turns[q.turn].skipped
    /\ q.turn + 1 \notin DOMAIN turns /\ q.turn \notin DOMAIN decisions
    /\ ValidBudget(turns, q.turn) /\ BudgetOf(turns) = q.budget
    /\ coverage = q.before

\* Only these two statuses are taken as "already concluded" here.
SkipUnmoved(q) ==
    /\ turns[q.turn].skipped
    /\ q.turn + 1 \notin DOMAIN turns
    /\ q.turn \notin DOMAIN decisions
    /\ status \notin {"REFLECTION_READY", "ENDED_NO_REFLECTION"}
    /\ ValidBudget(turns, q.turn)
    /\ BudgetOf(turns) = q.budget
    /\ coverage = q.before

SkipCommit(r) ==
    LET q == request[r] IN
    /\ q.step = "skip"
    /\ SkipUnmoved(q)
    /\ request' = [request EXCEPT ![r] = Idle]
    /\ UNCHANGED coverage
    /\ \/ /\ MayOmit(q.action, q.before)
          /\ status' = ClosedStatus(q.budget)
          /\ UNCHANGED <<turns, decisions>>
       \/ /\ q.action \in {"soft", "cap"}
          /\ \E axis \in Axes :
               /\ MayAskAbout(axis, q.action, q.before)
               /\ decisions' = Insert(decisions, q.turn,
                    [kind |-> IF q.action = "soft" THEN "SOFT_STOP" ELSE "CAP_EXTENSION",
                     selection |-> None, axis |-> axis])
          /\ UNCHANGED <<status, turns>>
       \/ /\ q.action = "normal"
          /\ turns' = Insert(turns, q.turn + 1, NewTurn)
          /\ UNCHANGED <<status, decisions>>

-------------------------------------------------------------------------------
(* The user's choice on a question that waits *)

\* Mutant: a cap choice is accepted one turn after the cap.
Decidable_CapOffByOne(n) ==
    /\ n \in DOMAIN decisions
    /\ decisions[n].selection = None
    /\ status = "IN_PROGRESS"
    /\ IsLast(n)
    /\ IsResolved(turns[n])
    /\ n < AbsoluteCap
    /\ decisions[n].kind = "CAP_EXTENSION" => n = NormalCap + 1

\* decide_interview_progress accepts END, and CONTINUE if MayContinue(n) too.
Decidable(n) ==
    /\ n \in DOMAIN decisions
    /\ decisions[n].selection = None
    /\ status = "IN_PROGRESS"
    /\ IsLast(n)
    /\ IsResolved(turns[n])
    /\ n < AbsoluteCap
    /\ decisions[n].kind = "CAP_EXTENSION" => n = NormalCap

MayContinue(n) ==
    /\ ValidBudget(turns, n)
    /\ BudgetOf(turns).questions < AbsoluteCap
    /\ decisions[n].kind = "CAP_EXTENSION" => coverage[decisions[n].axis] = UNCOVERED

DecideEnd(n) ==
    /\ Decidable(n)
    /\ decisions' = [decisions EXCEPT ![n].selection = "END"]
    /\ status' = "REFLECTION_READY"
    /\ UNCHANGED <<coverage, turns, request>>

DecideContinue(n) ==
    /\ Decidable(n)
    /\ MayContinue(n)
    /\ decisions' = [decisions EXCEPT ![n].selection = "CONTINUE"]
    /\ turns' = Insert(turns, n + 1, NewTurn)
    /\ UNCHANGED <<status, coverage, request>>

-------------------------------------------------------------------------------
(* Coverage applied on its own, and failures *)

ApplyCoveragePatch(updated) ==
    /\ status = "IN_PROGRESS"
    /\ AnsweredTurns(turns) # {}
    /\ updated # coverage
    /\ \A a \in Axes : updated[a] >= coverage[a]
    /\ coverage' = updated
    /\ UNCHANGED <<status, turns, decisions, request>>

(***************************************************************************)
(* A request ends between two transactions, or its next one raises and is  *)
(* rolled back, or finds the follow-up already there and returns it.       *)
(***************************************************************************)
RequestFails(r) ==
    /\ request[r] # Idle
    /\ request' = [request EXCEPT ![r] = Idle]
    /\ UNCHANGED rows

-------------------------------------------------------------------------------
Next ==
    \/ StartInterview
    \/ \E r \in Requests :
         \/ FirstRead(r)
         \/ FirstCommit(r)
         \/ \E n \in DOMAIN turns : NextRead(r, n)
         \/ NextAnalyze(r)
         \/ NextCommit(r)
         \/ \E n \in DOMAIN turns : SkipBegin(r, n)
         \/ SkipCommit(r)
         \/ RequestFails(r)
    \/ \E n \in DOMAIN turns :
         \/ \E text \in Answers : SaveTurnAnswer(n, text)
         \/ LegacySkip(n)
         \/ SkipClose(n)
         \/ DecideEnd(n)
         \/ DecideContinue(n)
    \/ \E updated \in Coverages : ApplyCoveragePatch(updated)

Spec == Init /\ [][Next]_vars

-------------------------------------------------------------------------------
(* Fairness: what the liveness runs assume *)

(***************************************************************************)
(* Whoever is left without a follow-up asks for it again (the page offers  *)
(* the retry).                                                             *)
(***************************************************************************)
AskForFollowUp ==
    \E r \in Requests :
        \/ FirstRead(r)
        \/ \E n \in DOMAIN turns : NextRead(r, n)
        \/ \E n \in DOMAIN turns : turns[n].skipped /\ SkipBegin(r, n)

\* Everything else the user does to go on; nobody is made to start or to skip.
\* LegacySkip is not there: no page offers it (ReadyPageGenerates in Pages).
UserGoesOn ==
    \E n \in DOMAIN turns :
        \/ \E text \in Answers : SaveTurnAnswer(n, text)
        \/ DecideEnd(n) \/ DecideContinue(n)
        \/ turns[n].skipped /\ SkipClose(n)

\* A provider call has a timeout, so no request stays for ever; a provider
\* asked over and over answers acceptably in the end, and not too late.  What
\* it answers (which axes rise, a question or none) stays its choice.
Fairness ==
    /\ WF_vars(AskForFollowUp) /\ WF_vars(UserGoesOn)
    /\ WF_vars(\E r \in Requests : RequestFails(r))
    /\ SF_vars(\E r \in Requests : NextAnalyze(r))
    /\ SF_vars(\E r \in Requests : FirstCommit(r) \/ NextCommit(r) \/ SkipCommit(r))

FairSpec == Spec /\ Fairness

-------------------------------------------------------------------------------
(* Safety *)

\* The rows keep their shapes: the sequence numbers of the turns have no gap,
\* a decision belongs to a turn, coverage names every axis.
TypeOK ==
    /\ status \in Statuses
    /\ coverage \in Coverages
    /\ turns \in Seq(Turn)
    /\ DOMAIN decisions \subseteq DOMAIN turns
    /\ \A n \in DOMAIN decisions : decisions[n] \in Decision
    /\ request \in [Requests -> RequestState]

\* Only the last question may be open; each earlier one has exactly one
\* result, an answer or a skip, whatever the answering, skipping and
\* follow-up requests do to one another.
OneResultEach ==
    \A n \in DOMAIN turns :
        /\ ~(turns[n].answer # None /\ turns[n].skipped)
        /\ ~IsLast(n) => IsResolved(turns[n])

\* The absolute cap: no path of _commit_next_turn, of the skip or of the
\* decision asks one question more.
QuestionsBounded == Cardinality(DOMAIN turns) <= AbsoluteCap

\* More answers than the normal cap exist only if the user chose to go on
\* when that cap was reached.
AnswersBeyondCapGranted ==
    Cardinality(AnsweredTurns(turns)) > NormalCap => ExtensionGranted

\* Unless the user chose to go on, every question past the normal cap makes
\* up for one that was skipped.
ExtraQuestionsMakeUpForSkips ==
    ~ExtensionGranted =>
        Cardinality(DOMAIN turns) <= NormalCap + Cardinality(SkippedTurns(turns))

\* A concluded Interview left no question open, and is ready for a Reflection
\* if there is an answer to write it from, ended without one if there is none.
ClosedOnEvidence ==
    /\ status = "REFLECTION_READY" => AnsweredTurns(turns) # {}
    /\ status = "ENDED_NO_REFLECTION" => turns # <<>> /\ AnsweredTurns(turns) = {}
    /\ status \in {"REFLECTION_READY", "ENDED_NO_REFLECTION"} =>
         \A n \in DOMAIN turns : IsResolved(turns[n])

\* A choice waits only at the last turn of an Interview in progress; a choice
\* made agrees with what followed it (decide_interview_progress writes both).
DecisionsConsistent ==
    \A n \in DOMAIN decisions :
        /\ IsResolved(turns[n])
        /\ decisions[n].selection = None => status = "IN_PROGRESS" /\ IsLast(n)
        /\ decisions[n].selection = "CONTINUE" => n + 1 \in DOMAIN turns
        /\ decisions[n].selection = "END" => status = "REFLECTION_READY" /\ IsLast(n)

-------------------------------------------------------------------------------
(* What a step may never do *)

\* No request undoes what another one wrote: turns stay, an answer, a skip and
\* a choice once made stay as they are, a candidate question is not replaced.
HistoryKept ==
    [][/\ \A n \in DOMAIN turns :
            /\ n \in DOMAIN turns'
            /\ turns[n].answer # None => turns'[n].answer = turns[n].answer
            /\ turns[n].skipped => turns'[n].skipped
       /\ \A n \in DOMAIN decisions :
            /\ n \in DOMAIN decisions'
            /\ decisions'[n].kind = decisions[n].kind
            /\ decisions'[n].axis = decisions[n].axis
            /\ decisions[n].selection # None => decisions'[n] = decisions[n]]_vars

\* Coverage only grows, although an analysis is applied to the Coverage its
\* request read before calling the provider.
CoverageMonotone == [][\A a \in Axes : coverage'[a] >= coverage[a]]_vars

\* The analysis of an answer reaches Coverage at most once: the step that
\* applies it is the step that gives the answer its follow-up.
AnalysisAppliedOnce ==
    [][\A r \in Requests :
         request[r].step = "commit" /\ coverage' # coverage /\ request'[r] # request[r]
           => \E n \in DOMAIN turns :
                n = request[r].turn /\ ~FollowedUp(n) /\ FollowedUp(n)']_vars

-------------------------------------------------------------------------------
(* The lifecycle it implements *)

outcomeOf ==
    [n \in DOMAIN turns |-> IF turns[n].answer # None THEN "ANSWERED"
                            ELSE IF turns[n].skipped THEN "SKIPPED" ELSE "OPEN"]

Lifecycle == INSTANCE InterviewLifecycle WITH outcome <- outcomeOf

\* The rows, seen without requests, Coverage and decisions, go through the
\* lifecycle promised to the rest of the program.
RefinesLifecycle == Lifecycle!LifecycleSpec

-------------------------------------------------------------------------------
(* Liveness *)

\* In progress with the mark of a previous release.
LeftBehind == status = "IN_PROGRESS" /\ \E n \in DOMAIN turns : turns[n].omitted

\* An answer, or a skip, gets its follow-up: concurrent requests for it cannot
\* invalidate one another for ever.
FollowedUpEventually ==
    \A n \in 1..AbsoluteCap :
        (n \in DOMAIN turns /\ IsResolved(turns[n])) ~> (n \in DOMAIN turns /\ FollowedUp(n))

\* A user who answers every question gets through an Interview that a previous
\* release has not left behind.
ConcludesIfAnswered ==
    [](SkippedTurns(turns) = {} /\ ~LeftBehind) =>
        (status = "IN_PROGRESS" ~> status = "REFLECTION_READY")

-------------------------------------------------------------------------------
(* What the documents say and the code does not do *)

\* "end: ... fixes the choice and the Interview's REFLECTION_READY together"
\* (specs/013 contracts): a choice that waits can at least be ended.
PendingDecisionDecidable ==
    \A n \in DOMAIN decisions :
        decisions[n].selection = None /\ status = "IN_PROGRESS" => Decidable(n)

\* The normal cap counts resolved questions, skips included (specs/016 data
\* model): past it a question exists only if the user chose to go on there.
TurnBeyondNormalCapGranted ==
    Cardinality(DOMAIN turns) > NormalCap => ExtensionGranted

===============================================================================
