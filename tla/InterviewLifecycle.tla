-------------------------- MODULE InterviewLifecycle --------------------------
(***************************************************************************)
(* What an Interview promises to the rest of the program, whatever the     *)
(* providers answer and however requests interleave: questions are asked   *)
(* one at a time and never taken back, each is resolved once (answered or  *)
(* skipped by the user), at most AbsoluteCap of them are asked, and the    *)
(* Interview is concluded once, when no question is open, as ready for a   *)
(* Reflection exactly when some question was answered.                     *)
(*                                                                         *)
(* The module is abstract: it has no requests, no Coverage and no pending  *)
(* decisions.  Interview.tla implements it (RefinesLifecycle there).       *)
(***************************************************************************)
EXTENDS Naturals

CONSTANTS AbsoluteCap    \* the most questions an Interview asks

VARIABLES
    status,     \* Interview.status, "ABSENT" before the row exists
    outcome     \* outcome[i]: what became of the i-th question

lifecycleVars == <<status, outcome>>

Asked == DOMAIN outcome

\* No question is waiting for the user.
NothingOpen == \A i \in Asked : outcome[i] # "OPEN"

SomeAnswer == \E i \in Asked : outcome[i] = "ANSWERED"

(***************************************************************************)
(* A new Interview, or one that a previous release left in progress with   *)
(* every question answered.                                                *)
(***************************************************************************)
LifecycleInit ==
    \/ status = "ABSENT" /\ outcome = <<>>
    \/ /\ status = "IN_PROGRESS"
       /\ \E n \in 1..AbsoluteCap : outcome = [i \in 1..n |-> "ANSWERED"]

Begin ==
    /\ status = "ABSENT"
    /\ status' = "IN_PROGRESS"
    /\ UNCHANGED outcome

Ask ==
    /\ status = "IN_PROGRESS"
    /\ NothingOpen
    /\ \E n \in 0..(AbsoluteCap - 1) :
         /\ Asked = 1..n
         /\ outcome' = [i \in 1..(n + 1) |-> IF i \in Asked THEN outcome[i] ELSE "OPEN"]
    /\ UNCHANGED status

\* A skip that leaves nothing more to ask concludes in the same step.
Resolve ==
    /\ status = "IN_PROGRESS"
    /\ \E i \in Asked, result \in {"ANSWERED", "SKIPPED"} :
         /\ outcome[i] = "OPEN"
         /\ outcome' = [outcome EXCEPT ![i] = result]
         /\ \/ UNCHANGED status
            \/ /\ result = "SKIPPED"
               /\ NothingOpen'
               /\ status' = IF SomeAnswer THEN "REFLECTION_READY" ELSE "ENDED_NO_REFLECTION"

Conclude ==
    /\ status = "IN_PROGRESS"
    /\ NothingOpen
    /\ Asked # {}
    /\ status' = IF SomeAnswer THEN "REFLECTION_READY" ELSE "ENDED_NO_REFLECTION"
    /\ UNCHANGED outcome

LifecycleNext == Begin \/ Ask \/ Resolve \/ Conclude

LifecycleSpec == LifecycleInit /\ [][LifecycleNext]_lifecycleVars

===============================================================================
