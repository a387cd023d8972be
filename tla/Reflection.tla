------------------------------ MODULE Reflection ------------------------------
(***************************************************************************)
(* The Reflection written from a concluded Interview: the row              *)
(* reflections_reflection and the requests that generate, revise and       *)
(* complete it (src/reflections/drafts.py), composed with the Interview    *)
(* they read and conclude, whose own requests may still be running.        *)
(*                                                                         *)
(* A draft is known by what it is written from, the confirmed answers; its *)
(* sections and Markdown are left out.  Generating calls the provider      *)
(* between a read and a locked save.  Revising checks the state twice, in  *)
(* the view without a lock and in the service with one; completing is      *)
(* decided under the lock alone, and is one action.                        *)
(***************************************************************************)
EXTENDS Interview

CONSTANTS
    Drafters,       \* requests that may be generating or revising at once
    Markdowns,      \* texts a user may save as a revision
    MaxConfirmed    \* how many answers a draft is written from: 10 in drafts.py

ASSUME MarkdownAssumption == None \notin Markdowns
ASSUME MaxConfirmedAssumption == MaxConfirmed \in Nat \ {0}

VARIABLES
    reflection,     \* the Reflection row, None before it exists
    drafting        \* what each of those requests holds

reflectionVars == <<reflection, drafting>>
allVars == <<vars, reflectionVars>>

-------------------------------------------------------------------------------
(* Data *)

\* Mutant: questions without an answer are taken too.
Confirmed_AllTurns(ts) == [n \in DOMAIN ts |-> ts[n].answer]

\* The confirmed answers, by sequence.
Confirmed(ts) == [n \in AnsweredTurns(ts) |-> ts[n].answer]

Sources == UNION {[S -> Answers] : S \in SUBSET (1..AbsoluteCap)}

ReflectionRow == [state : {"DRAFT", "COMPLETED"}, source : Sources,
                  revised : Markdowns \cup {None}]

ASSUME RowAssumption == None \notin ReflectionRow

\* returned: the page of the Reflection; refused: a page that says why not;
\* error: an exception that no handler catches.
DraftingState == [step : {"idle", "returned", "refused", "error"}]
                   \cup [step : {"save"}, source : Sources]
                   \cup [step : {"revise"}, text : Markdowns]

Exists == reflection # None

\* Mutant: a conclusion is not waited for.
Ready_AnyStatus == status # "ENDED_NO_REFLECTION"

\* _validate_save_scope_and_interview and the check at the head of generating.
Ready == status = "REFLECTION_READY"

\* There are answers, and not more than a draft is written from.  This limit does
\* not follow ABSOLUTE_CAP, which is a setting.
Draftable ==
    /\ AnsweredTurns(turns) # {}
    /\ Cardinality(AnsweredTurns(turns)) <= MaxConfirmed

\* What is checked again under the Interview lock, before the existing row.
SaveAccepted(d) ==
    /\ Ready
    /\ Draftable
    /\ Confirmed(turns) = drafting[d].source

-------------------------------------------------------------------------------
ReflectionInit ==
    /\ Init
    /\ reflection = None
    /\ drafting = [d \in Drafters |-> Idle]

Answered(d, result) == drafting' = [drafting EXCEPT ![d] = [step |-> result]]

\* The request starts: an existing Reflection is returned as it is; if not,
\* the answers are read for the provider.
GenerateRead(d) ==
    /\ drafting[d] = Idle
    /\ \/ Exists /\ Ready /\ Answered(d, "returned")
       \/ /\ ~Exists
          /\ Ready
          /\ Draftable
          /\ drafting' = [drafting EXCEPT ![d] =
                            [step |-> "save", source |-> Confirmed(turns)]]
    /\ UNCHANGED <<vars, reflection>>

\* Mutant: update_or_create, so the one that comes second writes its draft too.
GenerateSave_Upsert(d) ==
    /\ drafting[d].step = "save"
    /\ SaveAccepted(d)
    /\ reflection' = [state |-> "DRAFT", source |-> drafting[d].source, revised |-> None]
    /\ Answered(d, "returned")
    /\ UNCHANGED vars

\* Under the Interview lock the status and the answers are checked again,
\* and the Reflection is created unless another request has done it.
GenerateSave(d) ==
    /\ drafting[d].step = "save"
    /\ SaveAccepted(d)
    /\ \/ ~Exists /\ reflection' = [state |-> "DRAFT", source |-> drafting[d].source,
                                    revised |-> None]
       \/ Exists /\ UNCHANGED reflection
    /\ Answered(d, "returned")
    /\ UNCHANGED vars

\* The same request is refused when what it checks again has moved.
GenerateRefused(d) ==
    /\ drafting[d].step = "save"
    /\ ~SaveAccepted(d)
    /\ Answered(d, "refused")
    /\ UNCHANGED <<vars, reflection>>

\* reflection_edit: a completed Reflection is shown instead.
RevisionRead(d, text) ==
    /\ drafting[d] = Idle
    /\ Exists
    /\ \/ reflection.state = "COMPLETED" /\ Answered(d, "returned")
       \/ /\ reflection.state = "DRAFT"
          /\ drafting' = [drafting EXCEPT ![d] = [step |-> "revise", text |-> text]]
    /\ UNCHANGED <<vars, reflection>>

\* Mutant: the state is not checked again under the lock.
RevisionSave_AnyState(d) ==
    /\ drafting[d].step = "revise"
    /\ reflection' = [reflection EXCEPT !.revised = drafting[d].text]
    /\ Answered(d, "returned")
    /\ UNCHANGED vars

\* Only a draft is revised; the refusal of the service is not caught.
RevisionSave(d) ==
    /\ drafting[d].step = "revise"
    /\ \/ /\ Exists /\ reflection.state = "DRAFT"
          /\ reflection' = [reflection EXCEPT !.revised = drafting[d].text]
          /\ Answered(d, "returned")
       \/ /\ ~Exists \/ reflection.state # "DRAFT"
          /\ Answered(d, "error")
          /\ UNCHANGED reflection
    /\ UNCHANGED vars

\* The provider raises, its draft or the revision is rejected, the worker dies.
DraftingFails(d) ==
    /\ drafting[d].step \in {"save", "revise"}
    /\ drafting' = [drafting EXCEPT ![d] = Idle]
    /\ UNCHANGED <<vars, reflection>>

\* The user has seen the answer and may ask again.
DraftingEnds(d) ==
    /\ drafting[d].step \in {"returned", "refused", "error"}
    /\ drafting' = [drafting EXCEPT ![d] = Idle]
    /\ UNCHANGED <<vars, reflection>>

\* Mutant: the Interview is saved and the Reflection is not.
CompleteReflection_Half ==
    /\ Exists
    /\ reflection.state = "DRAFT"
    /\ status' = "COMPLETED"
    /\ UNCHANGED <<coverage, turns, decisions, request, reflection, drafting>>

\* Both rows in one transaction; a completed Reflection is returned as it is.
CompleteReflection ==
    /\ Exists
    /\ reflection.state = "DRAFT"
    /\ reflection' = [reflection EXCEPT !.state = "COMPLETED"]
    /\ status' = "COMPLETED"
    /\ UNCHANGED <<coverage, turns, decisions, request, drafting>>

ReflectionNext ==
    \/ Next /\ UNCHANGED reflectionVars
    \/ \E d \in Drafters :
         \/ GenerateRead(d)
         \/ GenerateSave(d)
         \/ GenerateRefused(d)
         \/ \E text \in Markdowns : RevisionRead(d, text)
         \/ RevisionSave(d)
         \/ DraftingFails(d)
         \/ DraftingEnds(d)
    \/ CompleteReflection

ReflectionSpec == ReflectionInit /\ [][ReflectionNext]_allVars

-------------------------------------------------------------------------------
(* Safety *)

\* The Reflection row, and what each request for it holds, keep their shapes.
ReflectionTypeOK ==
    /\ reflection \in ReflectionRow \cup {None}
    /\ drafting \in [Drafters -> DraftingState]

\* However late a draft is saved, it is written from all the confirmed answers
\* of its Interview, and they stay what they were (a draft is never rewritten).
WrittenFromAnswers ==
    Exists => /\ reflection.source = Confirmed(turns)
              /\ AnsweredTurns(turns) # {}

\* An Interview in progress, or ended without one, has no Reflection; one that
\* is completed has a completed Reflection.
ReflectionAfterInterview ==
    /\ Exists => status \in {"REFLECTION_READY", "COMPLETED"}
    /\ status = "COMPLETED" => Exists /\ reflection.state = "COMPLETED"

\* A generation is refused, and a revision ends in the exception that
\* reflection_edit does not catch, only when the Reflection has been completed
\* since the request looked: what is checked again has not moved otherwise.
RefusedOnlyOnceCompleted ==
    \A d \in Drafters :
        drafting[d].step \in {"refused", "error"} => Exists /\ reflection.state = "COMPLETED"

\* A Reflection is never lost or written from something else, and is read-only
\* once completed (README): a revision whose page was opened before changes nothing.
CompletedReadOnly ==
    [][Exists => /\ reflection' # None
                 /\ reflection'.source = reflection.source
                 /\ reflection.state = "COMPLETED" => reflection' = reflection]_allVars

\* What the user saved as his revision is replaced only by what he saves next: a
\* generation that was still with its provider when he revised leaves it alone.
RevisionKept ==
    [][Exists /\ reflection' # None /\ reflection'.revised # reflection.revised =>
         \E d \in Drafters : /\ drafting[d].step = "revise"
                            /\ drafting[d].text = reflection'.revised
                            /\ drafting'[d].step = "returned"]_allVars

\* Nothing reopens a completed Interview but a skip still waiting for its
\* provider: the one writer that does not take COMPLETED for a conclusion.
ReopenedOnlyByLateSkip ==
    [][status = "COMPLETED" /\ status' # "COMPLETED" =>
         \E r \in Requests : request[r].step = "skip" /\ request'[r] = Idle]_allVars

-------------------------------------------------------------------------------
(* The lifecycle it implements *)

noteOf == IF Exists THEN reflection.state ELSE "NONE"

Promise == INSTANCE ReflectionLifecycle WITH outcome <- outcomeOf, note <- noteOf

\* The two rows, seen without the requests and the texts, go through the
\* lifecycle promised for both: no request in flight for one of them takes the
\* other elsewhere, but for the late skip.
RefinesReflectionLifecycle == Promise!PromiseSpec

-------------------------------------------------------------------------------
(* What the documents say and the code does not do *)

\* "One of the two succeeding alone is not allowed" (specs/017 data model): the
\* Reflection and its Interview are COMPLETED together.
CompletedTogether ==
    Exists => (reflection.state = "COMPLETED" <=> status = "COMPLETED")

\* "A request in conflict converges to the existing result too" (specs/016
\* quickstart): no concurrent generation is refused once the Reflection exists.
LoserConverges == \A d \in Drafters : drafting[d].step = "refused" => ~Exists

===============================================================================
