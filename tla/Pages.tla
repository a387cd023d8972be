---------------------------------- MODULE Pages ----------------------------------
(***************************************************************************)
(* What the user sees of an Interview and its Reflection: which page the   *)
(* rows lead to (_destination_response, the templates and the answers to   *)
(* HTMX requests, src/reflections/views.py; the home page,                 *)
(* src/config/views.py), which buttons that page offers, and whether the   *)
(* service behind a button accepts it.                                     *)
(*                                                                         *)
(* The page branches on the rows in its own way, apart from the guards of  *)
(* the services: where the two disagree the user is stuck.                 *)
(***************************************************************************)
EXTENDS Reflection

Last == Len(turns)

Waits(n) == n \in DOMAIN decisions /\ decisions[n].selection = None

\* The mark of a previous release, not yet turned into a status.
LegacyMark == status = "IN_PROGRESS" /\ turns # <<>> /\ turns[Last].omitted

-------------------------------------------------------------------------------
(* Pages *)

\* Mutant: an unanswered question is looked for before a skipped one.
TurnPage_QuestionFirst(n) ==
    IF Waits(n) THEN "choice"
    ELSE IF turns[n].answer = None THEN "question"
    ELSE IF turns[n].skipped THEN "retry" ELSE "saved"

\* Mutant: a skip is taken for a result, which next_turn follows up.
TurnPage_SkipSaved(n) ==
    IF Waits(n) THEN "choice"
    ELSE IF turns[n].answer # None \/ turns[n].skipped THEN "saved" ELSE "question"

\* interview_detail.html with a turn.
TurnPage(n) ==
    IF Waits(n) THEN "choice"
    ELSE IF turns[n].answer # None THEN "saved"
    ELSE IF turns[n].skipped THEN "retry" ELSE "question"

\* The Reflection if there is one, else the offer to generate it.
ReadyPage == IF Exists THEN "reflection" ELSE "ready"

\* Where interview_detail, and interview_start once the Interview exists, lead.
Page ==
    CASE status = "ABSENT"              -> "start"
      [] status = "IN_PROGRESS"         -> IF turns = <<>> THEN "loading"
                                           ELSE IF LegacyMark THEN ReadyPage
                                           ELSE TurnPage(Last)
      [] status = "REFLECTION_READY"    -> ReadyPage
      [] status = "ENDED_NO_REFLECTION" -> "ended"
      [] status = "COMPLETED"           -> "unavailable"

\* What next_turn answers an HTMX request with, from the rows of then.
NextResponse ==
    IF status = "REFLECTION_READY" THEN "ready"
    ELSE IF Waits(Last) THEN "choice"
    ELSE IF turns[Last].omitted THEN "omitted"
    ELSE IF turns[Last].answer # None THEN "saved" ELSE "question"

\* Mutant: a choice that waits is not looked for.
SkipResponse_NoChoice(n) ==
    IF status = "REFLECTION_READY" THEN "ready"
    ELSE IF status = "ENDED_NO_REFLECTION" THEN "ended" ELSE "question"

\* What turn_skip answers one with when turn n was skipped.
SkipResponse(n) ==
    IF status = "REFLECTION_READY" THEN "ready"
    ELSE IF status = "ENDED_NO_REFLECTION" THEN "ended"
    ELSE IF Waits(n) THEN "choice" ELSE "question"

\* What interview_decision answers one with when the choice at turn n is made.
DecisionResponse(n) == IF decisions[n].selection = "END" THEN "ready" ELSE "question"

\* The buttons of a page; loading and saved press theirs on their own.
Offered(page) ==
    CASE page = "start"      -> {"start"}
      [] page = "loading"    -> {"first"}
      [] page = "question"   -> {"answer", "skip"}
      [] page = "retry"      -> {"skip"}
      [] page = "saved"      -> {"next"}
      [] page = "choice"     -> {"end", "continue"}
      [] page = "ready"      -> {"generate"}
      [] page = "reflection" -> IF reflection.state = "DRAFT" THEN {"revise", "complete"} ELSE {}
      [] page \in {"ended", "unavailable", "omitted"} -> {}

-------------------------------------------------------------------------------
(* Handlers *)

\* Whether the handler of a button, pressed at the last turn, does what the
\* button says; generate also when it is done already, and shows the result.
Accepted(button) ==
    CASE button = "start"    -> status = "ABSENT"
      [] button = "first"    -> status = "IN_PROGRESS" /\ turns = <<>>
      [] button = "answer"   -> Answerable(Last)
      [] button = "skip"     -> Skippable(Last)
      [] button = "next"     -> /\ status = "IN_PROGRESS"
                                /\ turns[Last].answer # None
                                /\ ~FollowedUp(Last)
                                /\ ValidBudget(turns, Last)
      [] button = "end"      -> Decidable(Last)
      [] button = "continue" -> Decidable(Last) /\ MayContinue(Last)
      [] button = "generate" -> Ready /\ (Exists \/ Draftable)
      [] button \in {"revise", "complete"} -> Exists /\ reflection.state = "DRAFT"

LeadsOn(page) == \E button \in Offered(page) : Accepted(button)

-------------------------------------------------------------------------------
(* The home page *)

\* get_home_reading_groups lists it among the Interviews in progress.
OnHome == status = "IN_PROGRESS"

\* Mutant: a choice that waits is not looked for.
HomeLabel_NoChoice ==
    IF turns = <<>> THEN "loading"
    ELSE IF turns[Last].answer = None THEN "question" ELSE "saved"

\* _get_interview_stage_label
HomeLabel ==
    IF turns = <<>> THEN "loading"
    ELSE IF turns[Last].answer = None THEN "question"
    ELSE IF Waits(Last) THEN "choice" ELSE "saved"

-------------------------------------------------------------------------------
(* Properties *)

\* A cap choice waits where decide_interview_progress accepts no answer, which
\* PendingDecisionDecidable is about.
UndecidableChoice == Page = "choice" /\ ~Decidable(Last)

\* Two places where the user is known to be stuck.
KnownDeadEnd == LegacyMark \/ UndecidableChoice

\* Whatever page an Interview that is not concluded leads to, one of its
\* buttons is accepted by the service behind it: _destination_response and the
\* guards of services.py and drafts.py, written apart, agree.
PageLeadsOn ==
    status \in {"IN_PROGRESS", "REFLECTION_READY"} /\ ~KnownDeadEnd =>
        LeadsOn(Page) \/ (Page = "reflection" /\ reflection.state = "COMPLETED")

\* No button on that page is refused, but "continue" when the candidate aims at
\* an axis that a Coverage patch has raised meanwhile; "end" is left then.
OffersAccepted ==
    ~KnownDeadEnd =>
        \A button \in Offered(Page) :
            \/ Accepted(button)
            \/ /\ button = "continue"
               /\ coverage[decisions[Last].axis] # UNCOVERED
               /\ Accepted("end")

\* The fragment a request gets that finds the follow-up of the last turn, its
\* own or another request's, leads on as well, and so does the one that answers
\* a choice: they are chosen by other branches than the page.
ResponsesLeadOn ==
    status \in {"IN_PROGRESS", "REFLECTION_READY"} /\ ~KnownDeadEnd =>
        /\ \A n \in DOMAIN turns : n = Last /\ FollowedUp(n) =>
             /\ turns[n].answer # None => LeadsOn(NextResponse)
             /\ turns[n].skipped => LeadsOn(SkipResponse(n))
        /\ \A n \in DOMAIN decisions :
             decisions[n].selection = "END"
               \/ (decisions[n].selection = "CONTINUE" /\ n + 1 = Last /\ ~IsResolved(turns[Last]))
             => LeadsOn(DecisionResponse(n))

\* The home page, which has a third set of branches, names the stage that its
\* link leads to, unless the last question was skipped.
HomeLabelTrue ==
    OnHome /\ ~LegacyMark /\ (turns # <<>> => ~turns[Last].skipped) => HomeLabel = Page

-------------------------------------------------------------------------------
(* What the documents say and the code does not do *)

\* An Interview in progress with the mark of a previous release still becomes
\* REFLECTION_READY by a later POST (specs/013 tasks, T020): the page that
\* offers the Reflection offers one that is not refused.
ReadyPageGenerates == Page = "ready" => Accepted("generate")

===============================================================================
