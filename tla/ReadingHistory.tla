----------------------------- MODULE ReadingHistory -----------------------------
(***************************************************************************)
(* What the Readings of one Book promise, with no transaction in sight:    *)
(* every request that writes is one atomic step, allowed by the tables as  *)
(* they are when it is taken.                                              *)
(***************************************************************************)
EXTENDS Integers

CONSTANTS Users, Ids, Dates, None

VARIABLES readings, interviews

history == <<readings, interviews>>

Active   == {"want_to_read", "reading"}
Statuses == Active \cup {"completed"}

Of(u)      == {r \in DOMAIN readings : readings[r].user = u}
IsFree(u)  == \A r \in Of(u) : readings[r].status \notin Active

\* A completed Reading has the day it was completed, another has none.
Dated(status, date) == status = "completed" <=> date # None

-------------------------------------------------------------------------------
Add(u, status, date) ==
    /\ IsFree(u)
    /\ Dated(status, date)
    /\ \E r \in Ids \ DOMAIN readings :
         readings' = [i \in DOMAIN readings \cup {r} |->
                        IF i = r THEN [user |-> u, status |-> status, completed_on |-> date]
                        ELSE readings[i]]
    /\ UNCHANGED interviews

\* The user's first Reading of the Book.
ReadFirst(u, status, date) == Of(u) = {} /\ Add(u, status, date)

\* Another one, after one was completed.
ReadAgain(u, status, date) ==
    /\ \E r \in Of(u) : readings[r].status = "completed"
    /\ Add(u, status, date)

Rewrite(r, status, date) ==
    /\ interviews[r] = 0
    /\ readings' = [readings EXCEPT ![r] = [user |-> readings[r].user, status |-> status,
                                            completed_on |-> date]]
    /\ UNCHANGED interviews

\* Its status changes, to an active one only if no other Reading is active.
ChangeStatus(r, status, date) ==
    /\ readings[r].status # status
    /\ status \in Active => \A i \in Of(readings[r].user) \ {r} : readings[i].status \notin Active
    /\ Dated(status, date)
    /\ Rewrite(r, status, date)

ChangeDate(r, date) ==
    /\ readings[r].status = "completed"
    /\ date # None
    /\ Rewrite(r, "completed", date)

\* A completed Reading gets its one Interview.
Discuss(r) ==
    /\ readings[r].status = "completed"
    /\ interviews[r] = 0
    /\ interviews' = [interviews EXCEPT ![r] = 1]
    /\ UNCHANGED readings

-------------------------------------------------------------------------------
HistoryInit ==
    /\ readings = <<>>
    /\ interviews = [r \in Ids |-> 0]

HistoryNext ==
    \E status \in Statuses, date \in Dates \cup {None} :
        \/ \E u \in Users : ReadFirst(u, status, date) \/ ReadAgain(u, status, date)
        \/ \E r \in DOMAIN readings :
             ChangeStatus(r, status, date) \/ ChangeDate(r, date) \/ Discuss(r)

HistorySpec == HistoryInit /\ [][HistoryNext]_history

===============================================================================
