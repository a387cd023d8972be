# AfterMuse: a TLA+ model of Books, Readings, Interviews and Reflections

AfterMuse is a Django application over PostgreSQL.  A reader finds a book,
records a Reading of it, and once it is completed is interviewed about it by an
LLM: questions are asked one at a time, each is answered or skipped, and from
the answers a Reflection (a reading note) is drafted, revised and completed.
The directory holds TLA+ modules of the parts that decide something about
shared rows, TLC configurations that check them on small instances, and TLAPS
proofs for every value of the constants.  Every definition is translated from
the source; `PROJECT.json` names the lines of each under `map`.

## The system

| component | state | operations | what is hard | what makes it correct |
|---|---|---|---|---|
| Interview (`reflections/services.py`) | rows Interview (status, Coverage), InterviewTurn, InterviewProgressDecision | start, first question, answer, follow-up, skip, decide, Coverage patch | two LLM calls between a read and a locked commit; concurrent requests for one turn; a skip committed before its follow-up exists; two caps counted differently | one result per question; caps; one follow-up per answer; choices agree with what followed; Coverage never falls; concluded once and on evidence; no answer left without a follow-up |
| Reflection (`reflections/drafts.py`) | row Reflection, one per Interview | generate or get, revise, complete | generation races with itself, with completion and with late Interview requests | one Reflection, written from all the answers; read-only once completed; completed together with its Interview |
| LLM providers (`integrations/llm`) | none | one call each | time-outs, rejected proposals | a failure changes no row |
| Readings (`readings/services.py`) | row Reading (status, completion date) | create, re-read, change state, change the date | row-lock orders differ between operations; race with the start of an Interview | one active Reading per user and book; nothing changes under a started Interview |
| Pages (`reflections/views.py`, `config/views.py`) | none | which page, fragment and buttons the rows lead to | the page, the HTMX answers, the home page and the guards of the services branch on the same rows in four places | whatever page the user is led to, a button on it works |
| Book selection (`books/`) | candidates in the session, row Book | search, select | the session is written back whole at the end of each request; expiry; a Book inserted by two transactions | a new search takes the earlier candidates away; a Book stays what it was |
| Book knowledge (`knowledge/`) | rows BookKnowledge, Book | create, seed, prepare validation books | uncommitted rows of the same unique key, lost inserts in the middle of a transaction, interruption | all or nothing; reports are true; no circle of waits; READY means there are claims |
| Metadata adapters, accounts, forms, templates | none of their own, or Django's | - | external I/O | - |

Components call each other as functions in one process per request; what they
share is the database.  Isolation is READ COMMITTED, locks are
`SELECT ... FOR UPDATE`, and no transaction spans a request.  An LLM is always
called outside a transaction.  There are no background jobs: what is left
half-done is resumed by the user's next request.

## The modules

| module | role |
|---|---|
| `InterviewLifecycle` | abstract: what an Interview promises to the rest of the program |
| `Interview` | the Interview's rows and every request that writes them |
| `MCInterview` | model values and symmetry for TLC |
| `InterviewProofs` | the inductive invariant of `Interview` and the theorems that follow from it |
| `InterviewStepProofs` | theorems on what no step of `Interview` does, and that it implements `InterviewLifecycle` |
| `ReflectionLifecycle` | abstract: what an Interview and its Reflection promise together |
| `Reflection` | the Reflection row and its requests, composed with `Interview` |
| `MCReflection` | model values and symmetry for TLC |
| `ReflectionProofs` | the inductive invariant of `Reflection` and the theorems that follow from it |
| `ReflectionStepProofs` | what holds of the questions past the completion, and that `Reflection` implements `ReflectionLifecycle` |
| `ReadingHistory` | abstract: the Readings of one Book, one atomic step per request that writes |
| `Reading` | the Readings of one Book, lock by lock, up to the start of their Interview |
| `MCReading` | model values and symmetry for TLC |
| `ReadingProofs` | theorems about `Reading`, among them that it implements `ReadingHistory` |
| `Pages` | the pages, answers and buttons the rows of `Reflection` lead to, against the handlers behind them |
| `MCPages` | model values and symmetry for TLC |
| `PagesProofs` | theorems about `Pages` |
| `Knowledge` | Books, claims, the commands that write them, and the Interviews that read them, statement by statement |
| `Selection` | the session with its searches and candidates, composed with `Knowledge` |
| `MCSelection` | model values and symmetry for TLC |
| `SelectionProofs` | theorems about `Knowledge` and `Selection` |

### Interview

`status`, `coverage`, `turns` and `decisions` are the rows; `request[r]` is what
the request `r` holds in local variables between its transactions.  `turns` is a
function from sequence numbers, and `TypeOK` states that they have no gap.

| code | actions |
|---|---|
| `start_interview` | `StartInterview` |
| `ensure_first_question` | `FirstRead`, (provider), `FirstCommit` |
| `save_turn_answer` | `SaveTurnAnswer` |
| `process_next_turn` | `NextRead`, (provider) `NextAnalyze`, (provider) `NextCommit` |
| `_commit_legacy_skip` | `LegacySkip` |
| `skip_interview_turn` | `SkipClose`, or `SkipBegin`, (provider), `SkipCommit` |
| `decide_interview_progress` | `DecideEnd`, `DecideContinue` |
| `apply_interview_coverage_patch` | `ApplyCoveragePatch` |
| an exception, a time-out, the end of a worker, a result found already there | `RequestFails` |

Why an action is a transaction: every transaction that writes turns, decisions,
the status or Coverage first locks the Interview row, so two of them never
overlap.  The reads `process_next_turn` makes before its first provider call are
not locked, yet one atomic read stands for them: the budget can change between
them only by a new turn, and then the call ends.  The analysis reads its target
again, which is a step of its own (`NextAnalyze`): `ValidAnalysis` checks the
rise against the Coverage of that moment, while the projection the follow-up
starts from is of the Coverage of `NextRead`.

What a provider answers is any proposal the validation lets through: any rise of
Coverage, any axis for a question (past the normal cap only an UNCOVERED one),
or nothing more to ask where that is allowed.  The text of questions, answers
and grounding quotes is left out; where the validation rejects it, the request
fails, which it may do anyway.  The two caps of `settings.py` are constants, with
its range checks as the assumption `CapsAssumption`; the start of the soft stop
is a literal 4 in `services.py`, and a constant here so that small instances
reach it.

`apply_interview_coverage_patch` is a service that no view calls yet; its
transaction is in the model because the others are written to stand it, as the
check of `_commit_next_turn` against the Coverage it was computed from shows.

`Init` has two kinds of states: no Interview yet, and an Interview left by the
release before REFLECTION_READY existed, in progress with the mark
`next_question_skipped_at` on its last answer.

### Pages

No action is added: `Pages` has operators over the rows of `Reflection`, one per
place where the code branches on them.  `Page` is where `_destination_response`
leads, with `TurnPage` for `interview_detail.html`; `NextResponse`,
`SkipResponse` and `DecisionResponse` are what the handlers answer an HTMX
request with; `HomeLabel` is the stage the home page names.  `Offered` lists the
buttons of a page from its template, `Accepted` says whether the handler behind
a button does what it says, from the guards that the actions of `Interview` and
`Reflection` have.  The properties say that these agree in every state that the
requests can produce, but for two places where they are known not to
(`KnownDeadEnd`, the runs `legacy_dead_end` and `pending_decision`) and two
harmless ones: "continue" at a choice whose axis a
Coverage patch has raised since, where "end" is left, and the home page, which
calls a skipped last question one that waits for its answer.

### Reflection

`reflection` is the row, `drafting[d]` what a generating or revising request
holds.  A draft is known by the answers it is written from.  `Draftable` says that
there are answers, and no more than `MaxConfirmed`, a literal 10 in `drafts.py`
at the head of generating (537) and again at the save (618); it is a constant of
its own because the caps of the Interview are settings that do not mention it.

| code | actions |
|---|---|
| `reflection_generate`, `generate_or_get_reflection_draft` up to the provider | `GenerateRead` |
| `save_reflection_draft` | `GenerateSave`, `GenerateRefused` |
| `reflection_edit` up to the service | `RevisionRead` |
| `save_reflection_revision` | `RevisionSave` |
| `complete_reflection` | `CompleteReflection` |
| the provider, the validation or the worker fails; the response | `DraftingFails`, `DraftingEnds` |

A check that a service makes without a lock, and again under the lock, can only
refuse earlier, with the same exception: the locked one stands for both.  The
view's own check before a revision is another step, because it answers
otherwise.  `complete_reflection` answers a completed Reflection as the view
does, so it is one action.  All actions of `Interview` are also actions here.

`ReflectionLifecycle` says what the two rows promise with the requests taken
away: the Interview goes through `InterviewLifecycle` as long as there is no
Reflection (`Discuss`), one is drafted when it is ready (`Draft`), and the two
are completed in one step (`Complete`).  `RefinesReflectionLifecycle` says that
`Reflection` implements it.  The code does so but for one place, which the
abstract specification therefore has as an action, `LateSkip`: the second
transaction of a skip, past the completion, takes the status back to ready or
asks one more question.  Nothing else in the program reaches it.

### Reading

`Interview` starts where `start_interview` has committed; `Reading` is what
happens before, and it is finer.  Its transactions lock different rows in
different orders, so a transaction is not an action: `txn[t]` holds the locks
taken, the locks its current statement still waits for, and the stage it has
reached.  `Begin` is the request, `Acquire` one row lock, and then there is one
action per decision under locks and one per commit:

| code | actions |
|---|---|
| `_lock_user`, `_lock_reading`, the lock of `start_interview` | `UserLock`, `ReadingLocks`, `StartLocks`, taken by `Acquire` |
| `create_initial_reading`, `create_rereading` | `LockSource`, `LockHistory`, `CheckHistory`, `InsertReading` |
| `change_reading_state` | `CheckChange`, `UpdateState` |
| `update_completion_date` | `CheckDate`, `UpdateDate` |
| `start_interview` | `CheckStart`, `InsertInterview` |
| an early return, a refusal, an exception, the victim of a deadlock | `EndUnchanged` |

The code's `select_for_update()` has no `of=`, so with `select_related` it locks
the joined user and Book rows too, in the order of the joins.  The foreign
key of a new Reading takes a share lock on the Book at the commit (Django's are
deferred), which is the last thing a creation waits for.  The unique constraints
of the tables are left out on purpose: the properties then show that the locks
alone keep what the constraints would, and no user meets an IntegrityError in
their place.  A cycle of waiting transactions can happen (a creation has the user
and waits for a Reading, a change has the Reading and waits for the user);
PostgreSQL ends one of them, which is `EndUnchanged`.  `DeadlockWithinUser` says
that this stays between the requests of one user.

`ReadingHistory` has the same tables and no transaction: `ReadFirst`, `ReadAgain`,
`ChangeStatus`, `ChangeDate` and `Discuss` are atomic, each with the rule it
obeys as a guard over the tables of that moment.  `RefinesReadingHistory` says
that every commit of `Reading` is one of these steps, so that what a transaction
decided from rows it read some statements earlier is still right when it writes.

### Knowledge and Selection

The commands and the selection of a Book do the same with each row: look for it,
insert it, and take the other one if the insert loses against a unique
constraint.  `task[t]` has the rows still to do (`plan`, `at`), and those that
its transaction has inserted (`wrote`), which nobody else sees before `Commit`.

| code | actions |
|---|---|
| `create_book_knowledge` | `BeginClaim`, then `Look`, `Insert`, `Commit` |
| `seed_book_knowledge` | `BeginSeed`, then the same for each claim of the file |
| `prepare_validation_books` | `BeginPrepare`, `CheckLimited`, then the same for each Book and each claim |
| `select_book` | `Select`, then `Look`, `Insert`, `Commit` |
| an exception of the database, a killed process | `Abort` |
| the report of the command, the response | `Report` |
| `start_interview`, as far as it reads the readiness | `StartInterview` |
| `build_interview_question_context`, its claims | `ContextClaims` |
| `search` (`books/views.py`) | `SearchBegins`, then `SearchSucceeds`, `SearchFindsNothing` or `SearchCrashes` |
| `store_candidates`, `clear_candidates`, `get_candidate` | `session`, `Selectable`, `CandidatesExpire` |

An `Insert` waits while another transaction has an uncommitted row of the same
key; then it succeeds (the other was rolled back) or fails, is undone to its
savepoint, and the row is read again.  `start_interview` locks the Book, but that
does not hold it off while a command has uncommitted claims: their foreign keys
are deferred (as Django declares them all), so the Book is locked for them only
at the commit.  `StartInterview` therefore has no guard on other transactions
and takes the readiness from the committed claims of that moment.  An operator
may register any claim on its own, one of the file too (`BeginClaim`); what
`ApprovedClaimsTogether` says is that a seed or a preparation never leaves a part
of the file.  The checks that the two files go through before anything is
written are `FilesAssumption`: each prepared Book has claims but the one
described as READY_LIMITED.  Aborts also stand for a refusal such as a claim that
contradicts a stored one.

A session is read when the request starts and written back, whole, when it ends,
and not at all after a server error.  So what a search does to it is one step, at
its end, and `search[k].after` remembers which searches had ended when it began.

## What is checked

| run | instance | what it shows |
|---|---|---|
| `interview_concurrent` | 2 requests, 2 axes, caps 1/2/4 | the rows stay consistent (`OneResultEach`, `DecisionsConsistent`, `ClosedOnEvidence`, the three budget invariants); no request undoes another's work (`HistoryKept`), Coverage never falls (`CoverageMonotone`), an analysis is applied once (`AnalysisAppliedOnce`); the whole implements `InterviewLifecycle` |
| `interview_real_caps` | 1 request, 1 generating or revising request, 2 axes, caps 4/8/10 | with the numbers the program ships, from every page and fragment the user gets on (`PageLeadsOn`, `ResponsesLeadOn`), what is offered is accepted (`OffersAccepted`), the home page names the right stage (`HomeLabelTrue`) |
| `interview_liveness` | 2 requests, 1 axis, caps 1/2/4 | every answer and skip gets its follow-up; a user who answers everything gets to the Reflection |
| `reflection_safety` | 2 Interview requests, 2 generating or revising requests, 2 texts, 1 axis, caps 2/3/4 | one Reflection, written from all the answers and never rewritten, read-only once completed; what the user saved as a revision is replaced only by his next one, not by a generation that comes second (`RevisionKept`); a generation or a revision is turned down only because the Reflection has been completed meanwhile (`RefusedOnlyOnceCompleted`); only a late skip reopens a completed Interview; the whole implements `ReflectionLifecycle` |
| `reading_safety` | 2 users, 2 Readings, 2 dates, 2 transactions | at most one active Reading and one first Reading of each user; an Interview is only on a completed Reading, and freezes it; users do not deadlock one another (`DeadlockWithinUser`); the whole implements `ReadingHistory` |
| `library` | 2 tasks, 2 Books (1 of them limited), 2 claims in the file and 1 other, 3 searches, 1 Interview | a command brings the claims of the file all together (`ApprovedClaimsTogether`), a report is true (`ReportTrue`), no circle of waits (`NoWaitCycle`), Books stay as they are (`BooksKept`), READY Interviews have claims (`ReadyMeansClaims`), earlier candidates are gone after a search (`EarlierCandidatesGone`) |
| `pending_decision`, `normal_cap`, `completed_together`, `loser_converges`, `users_independent`, `legacy_dead_end` | as above | the six disagreements below |

Bounds.  Two requests are enough for every race of the code: a commit compares
what it read with what is there, and one competitor can move each part.  With
caps 1/2/4 all four ranges of the budget (before the soft stop, before the
normal cap, between the caps, at the absolute cap) are reached with few
questions; the three bounds on questions are proved for all caps, and
`interview_real_caps` looks at the pages with the real ones, where a skipped
question shifts the turn of a cap and ten answers fill a draft to its limit.
Two axes tell "all covered", "some uncovered" and "none uncovered but not all
covered" apart, and let one request's rise be another's loss.  Requests, axes and
answers are symmetric where no liveness is checked.  In `reflection_safety` the
soft stop comes one answer before the normal cap (caps 2/3/4): two skips of one
question can then both wait for their provider below the normal cap, one find
nothing left to ask and conclude the Interview, and the other come back after
the completion and ask its question, the second branch of `LateSkip`.  The rules for Readings are
per user and Book; two users show that they share the Book lock and nothing
else, two Readings are a source and the one being created or set back, and two
transactions are a race of each operation with each.  In
`library` the two claims of the file are one to keep and one to lose, the other
claim makes the limited Book READY, and the Book that a search finds is also
prepared; a wait between two tasks is a circle as soon as each waits for the
other.  Three searches are the least in which one ends before another begins
while a third overlaps with both.  Deadlock is not checked: a concluded
Interview is the end.

Fairness (`FairSpec`).  The code has no scheduler, so progress is the user's and
the provider's: someone left without a follow-up asks for it again and goes on
with what is offered (`AskForFollowUp`, `UserGoesOn`, weak); that the page offers
it is `PageLeadsOn`.  No one is made to start, to skip a question, or to send
the request that concludes an Interview of the previous release, which no page
offers (`ConcludesIfAnswered` leaves those out with `LeftBehind`).  A request
ends (weak: providers have time-outs).  A provider asked again and again in the
end gives an acceptable answer, and a request in the end reaches its commit
before anything moves (strong).  Without these the user can stop at any point
and the properties are false, as they should be.

## What is proved

Everything below is proved for every set of requests, axes, answers, texts,
commands, Books, searches and transactions, with no bound on how many run at
once, from the assumptions that the modules state: `CapsAssumption` (the range
checks of `settings.py`), `DataAssumption`, `RowAssumption` and those like them
(NULL is not a value of a column), and `FilesAssumption` (the checks that the
two files of knowledge go through before anything is written).  Three theorems
on the pages have one hypothesis more, `AbsoluteCap <= MaxConfirmed`: the cap is
a setting whose checks allow more than the 10 answers that `drafts.py:537` takes
for a draft, and with an eleventh answer they would be false of the code (with
the limit set below the cap in `InterviewRealCaps.cfg`, TLC finds `PageLeadsOn`
violated).

| module | theorem | property |
|---|---|---|
| `InterviewProofs` | `TypeCorrect` | `TypeOK` |
| | `CapRespected` | `QuestionsBounded` |
| | `NoUngrantedAnswer` | `AnswersBeyondCapGranted` |
| | `OneResult` | `OneResultEach` |
| | `ConclusionSound` | `ClosedOnEvidence` |
| | `ChoiceAndConsequence` | `DecisionsConsistent` |
| `InterviewStepProofs` | `NothingUndone` | `HistoryKept` |
| | `CoverageNeverFalls` | `CoverageMonotone` |
| | `AnalysedOnce` | `AnalysisAppliedOnce` |
| | `ExtrasMakeUpForSkips` | `ExtraQuestionsMakeUpForSkips` |
| | `ImplementsLifecycle` | `RefinesLifecycle` |
| `ReflectionProofs` | `ReflectionTypeCorrect` | `ReflectionTypeOK` |
| | `DraftHasAllAnswers` | `WrittenFromAnswers` |
| | `ReflectionComesAfter` | `ReflectionAfterInterview` |
| | `RefusalsComeLate` | `RefusedOnlyOnceCompleted` |
| | `CompletedIsReadOnly` | `CompletedReadOnly` |
| | `RevisionIsKept` | `RevisionKept` |
| | `OnlyLateSkipReopens` | `ReopenedOnlyByLateSkip` |
| `ReflectionStepProofs` | `CapRespectedForGood` | `QuestionsBounded` |
| | `NoUngrantedAnswerForGood` | `AnswersBeyondCapGranted` |
| | `ExtrasMakeUpForGood` | `ExtraQuestionsMakeUpForSkips` |
| | `ImplementsPromise` | `RefinesReflectionLifecycle` |
| `PagesProofs` | `PagesLeadOn` | `PageLeadsOn`, if `AbsoluteCap <= MaxConfirmed` |
| | `ButtonsWork` | `OffersAccepted`, under the same hypothesis |
| | `FragmentsLeadOn` | `ResponsesLeadOn`, under the same hypothesis |
| | `HomeIsTrue` | `HomeLabelTrue` |
| `ReadingProofs` | `ReadingTypeCorrect` | `ReadingTypeOK` |
| | `OneActiveOnly` | `OneActiveReading` |
| | `InterviewsAreOfCompleted` | `InterviewOnCompletedReading` |
| | `StartFreezes` | `FrozenOnceStarted` |
| | `FirstOnlyOnce` | `FirstReadingOnce` |
| | `NoDeadlockAcrossUsers` | `DeadlockWithinUser` |
| | `ReadingsAreSerial` | `RefinesReadingHistory` |
| `SelectionProofs` | `KnowledgeTypeCorrect`, `SelectionTypeCorrect` | `KnowledgeTypeOK`, `SelectionTypeOK` |
| | `ClaimsAllOrNone` | `ApprovedClaimsTogether` |
| | `ReadyHasClaims` | `ReadyMeansClaims` |
| | `ReportsAreTrue` | `ReportTrue` |
| | `NoCircularWait` | `NoWaitCycle` |
| | `BooksStay` | `BooksKept` |
| | `OnlyLaterCandidates` | `EarlierCandidatesGone` |

**Interview.**  The inductive invariant `IInv` is `TypeOK /\ RowInv /\
RequestInv`; none of the properties is inductive alone.  A commit trusts what its
request computed long ago, so `RequestInv` says what a request between two
transactions knows: its budget is one that was valid for its turn, its action is
the one that budget gives, and a request past the normal cap holds the user's
permission, which nothing takes back (`GrantKept`).  The bound on questions needs
that a question is only created after a choice or a budget below the cap, so
`DecisionsGrounded` ties each stored choice to a turn with room for one more; the
bound on answers needs `RoomToAnswer`: an open question exists only where its
answer is still allowed.  `OmittedAnswered` says that the mark of an omitted
question is only on an answered turn, which the conclusion by `LegacySkip` rests
on.  The lemmas `LastTurn`, `Asking`, `Answering`, `Resolving` and `Deciding` say
once what each way of changing the rows does to the counts and to the last turn;
the step lemmas `RowInvNext` and `RequestInvNext` then have one case per action.

**Its steps.**  `HistoryKept` and `AnalysisAppliedOnce` follow from `IInv` step by
step.  `CoverageMonotone` needs to know that Coverage has not fallen since a
request read it, and that an analysis is not below what it was applied to
(`CoverageRead`).  `ExtraQuestionsMakeUpForSkips` rests on `AskingStep`: a step
that asks leaves a granted extension behind, or found fewer answers than the cap
and every question resolved.  The refinement has one lemma per kind of step of
the lifecycle (`AskSimulated`, `ResolveSimulated`, `ConcludeSimulated`) and
`SkipOutcome`, which says that a skip is the result of an open question or the
repetition of the one it has; `LifecycleStep` then maps each action.

**Reflection.**  A late skip writes to a COMPLETED Interview, so `IInv` is lost
with the completion.  `ReflectionInv` keeps it up to there; `AnswersSettled` says
that from REFLECTION_READY on no step, a late skip included, changes the
confirmed answers, which is what the Reflection needs afterwards.  `DraftingInv`
adds what a waiting request relies on, and `JustifiedStays` that no step takes it
away.  `RevisionKept` needs no more than that: the save that comes second finds
the row under the lock and returns it.

**Past the completion.**  A late skip writes where `IInv` says nothing, so the
budget of questions has to be proved again there, under `ReflectionSpec`.
`QuestionsInv` has the properties and one thing a waiting skip knows,
`SkipsCapped`: it asks only if its own count was below the normal cap.  When its
commit finds that count still true, every question is resolved and the count is
that of all questions (`LateSkipFinds`), so one more is within the caps
(`LateSkipInv`).  The same facts make the step a `LateSkip` of
`ReflectionLifecycle` (`LateSkipSimulated`); up to the Reflection each step is
one that `ImplementsLifecycle` has mapped already (`SameLifecycle`), and between
the Reflection and its completion none touches the questions.

**Pages.**  Up to the Reflection everything follows from `ReflectionInv`: in an
Interview in progress a choice at the last turn is one that waits
(`WaitingFacts`), and the counts of the budget agree with the sequence numbers
because each turn has one result (`BudgetValid`).  That the offer to generate is
accepted (`ReadyLeadsOn`) is the one place where a number of another module is
needed: no more answers than questions, no more questions than the cap, and no
more of those than a draft takes.  After the completion a late
skip may have opened the Interview again, where `IInv` says nothing;
`ExtendedResolved` says what `ResponsesLeadOn` needs there: a question asked by
the user's choice stays resolved.

**Readings.**  `ReadingInv` says what a transaction can count on (`Sound`): from
its second statement on it holds the rows that protect its decision (`Protects`:
the user of a creation, the user and the Reading of a change, the Reading of a
start), and what it has decided (`Decided`) is what the tables say now.  No two
transactions hold excluding locks (`Exclusive`), so what another one writes
protects something else (`Apart`) and leaves the decision true (`RowUpdated`,
`InsertReadingInv`, `InsertInterviewInv`).  The order in which locks are taken,
and the lock on the Book, are not needed for any of it.

The history asks for nothing new: at a commit `Decided` is the guard of the
atomic step, and `OnlyCommits` says that no other step writes (`InsertsOne`,
`ChangesStatus`, `ChangesDate` and `Discusses` map the four that do).

For deadlocks `Modest` says which rows a transaction has and asks for: its
user's, the Book, and the foreign key's share lock only at its commit, when it
waits for nothing more.  So a transaction that waits for another user's, which
itself waits, waits for the Book (`WaitsAcross`), and the Book has one holder.  A
circle that leaves a user therefore ends at that holder, and the requests of the
holder's user already wait for one another.

**Knowledge and Selection.**  `KnowledgeInv` says what a transaction can count on:
the rows of its plan that are behind it are committed or its own (`PlanInv`), and
its own are nobody else's (`Exclusive`).  At a commit all its rows are therefore
there, which gives the reports and, since its plan is the whole file or one row
(`PlanWhole`), all-or-nothing.  A transaction that waits at a row is, in the order of the files, at the
row that the other one has passed (`WaitsBehind`), so along a circle the position
would grow for ever (`NoCircle`).  `SearchInv` says
that the candidates in the session are of no search that was over before one that
has ended had begun.

Only model-checked: liveness, which is out of the prover's reach.

## Where the code and its documents disagree

1. `pending_decision` - a CAP_EXTENSION choice is stored wherever the cap is
   reached, but accepted only at the turn whose sequence is the normal cap
   (`services.py:708`).  After a skip the two can differ, both buttons are
   rejected, and the Interview is stuck.
2. `normal_cap` - after an answer the normal cap is compared with the answered
   count, after a skip with the resolved count; the data model of specs/016 says
   resolved.  `ExtraQuestionsMakeUpForSkips` is what the code does guarantee.
3. `completed_together` - the second transaction of a skip does not take
   COMPLETED for a conclusion (`services.py:1077`), so one that comes late
   reopens an Interview whose Reflection is completed.
   `ReopenedOnlyByLateSkip` shows that nothing else does.
4. `loser_converges` - the loser of two concurrent generations is refused when
   the winner's Reflection was completed before it saves.
5. `users_independent` - the research of specs/006 rejects locking the Book
   because it would make users of the same Book wait for one another
   (`research.md:59`); `_lock_reading` (`services.py:160`) locks it all the same,
   through `select_related("book", "user")`.
6. `legacy_dead_end` - for an Interview that the previous release left in
   progress with the mark of an omitted question, `_destination_response`
   (`views.py:571`) shows the page that offers to generate the Reflection.  That
   request is refused with 409 until the status is REFLECTION_READY, and the one
   request that would set it, `next_turn`, is on no page.  T020 of specs/013
   (`tasks.md:99`) has it set by a later POST.

Not checked by a run, but read on the way: the form to read a book again is
rendered with the prefix `reread` and its submission is read without one
(`readings/views.py:96`); a generated draft may be longer than a revision of it
is allowed to be (`drafts.py:777`); whether the limited Book has claims is looked
up without a lock (`knowledge/services.py:320`); and of two revisions of one
draft the later overwrites the earlier; a revision whose Reflection is completed
between the check of the view (`views.py:840`) and that of the service ends in
an uncaught exception (`views.py:846`), where the contract of specs/017 has it
refused with 400 or led to the result page (`RefusedOnlyOnceCompleted` shows that
this is the only way to that error).

## What is not modelled

- The adapters to Kakao and Aladin and the transports of the LLM providers:
  stateless HTTP calls and the parsing of what comes back.  A search finds any
  of the Books of the instance, a provider answers any acceptable proposal, and
  each may fail.
- Accounts: Django's own authentication with a user model.  A request is for
  rows its user owns.
- Text: prompts, Markdown, quotes, forms' field checks, the validation of wording;
  where it rejects something, a request fails.  Rendering, logging, time stamps
  other than as marks, the lists of the home page (plain queries).
- Deletions through the admin site, and the repository's tooling (`.specify`).
- A lost update between two revisions of a draft is what the code does, and no
  document promises otherwise.

## Plan

Done: the modules above, the proofs of all their safety properties, and three
abstract specifications with the proof that they are implemented
(`InterviewLifecycle`, `ReflectionLifecycle`, `ReadingHistory`).  Worth adding:
the same for `Knowledge` and `Selection`, whose commits are to be one atomic step
each, allowed by the committed rows (`BooksKept` and `ApprovedClaimsTogether`
would then follow from one refinement).
