-------------------------- MODULE ReflectionLifecycle --------------------------
(***************************************************************************)
(* What an Interview and its Reflection promise together: the Interview    *)
(* goes through its lifecycle, a Reflection is drafted once it is ready    *)
(* for one, and completing the Reflection completes both.  The promise has *)
(* one hole, LateSkip.                                                     *)
(*                                                                         *)
(* The module is abstract, as InterviewLifecycle is: what a Reflection     *)
(* says, and the requests for it, are not in it.  Reflection.tla           *)
(* implements it (RefinesReflectionLifecycle there).                       *)
(***************************************************************************)
EXTENDS InterviewLifecycle

VARIABLES note      \* Reflection.state, "NONE" before the row exists

promiseVars == <<status, outcome, note>>

Discuss ==
    /\ LifecycleNext
    /\ note = "NONE"
    /\ UNCHANGED note

Draft ==
    /\ status = "REFLECTION_READY"
    /\ note = "NONE"
    /\ note' = "DRAFT"
    /\ UNCHANGED lifecycleVars

Complete ==
    /\ status = "REFLECTION_READY" /\ note = "DRAFT"
    /\ status' = "COMPLETED" /\ note' = "COMPLETED"
    /\ UNCHANGED outcome

(***************************************************************************)
(* A skip of the last question that waited for its provider while the      *)
(* Reflection was completed: the Interview is taken back to ready, or one  *)
(* question is asked that nobody can answer any more.                      *)
(***************************************************************************)
LateSkip ==
    /\ status = "COMPLETED"
    /\ NothingOpen
    /\ \E n \in Asked :
         /\ Asked = 1..n
         /\ outcome[n] = "SKIPPED"
         /\ \/ status' = "REFLECTION_READY" /\ UNCHANGED outcome
            \/ /\ n < AbsoluteCap
               /\ outcome' = [i \in 1..(n + 1) |-> IF i = n + 1 THEN "OPEN" ELSE outcome[i]]
               /\ UNCHANGED status
    /\ UNCHANGED note

PromiseInit == LifecycleInit /\ note = "NONE"

PromiseNext == Discuss \/ Draft \/ Complete \/ LateSkip

PromiseSpec == PromiseInit /\ [][PromiseNext]_promiseVars

===============================================================================
