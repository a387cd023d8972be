-------------------------------- MODULE Reading --------------------------------
(***************************************************************************)
(* The Readings of one Book: the rows readings_reading, and the            *)
(* transactions that create them, change them (src/readings/services.py)   *)
(* and start their Interview (start_interview, src/reflections/            *)
(* services.py).                                                           *)
(*                                                                         *)
(* Here a transaction is not one action: these lock different rows in      *)
(* different orders, so each lock taken, each decision under the locks and *)
(* the commit are steps.  A statement that locks several rows takes them   *)
(* in the order of its joins (the Reading, the user, the Book), those of a *)
(* result set in any order.  Nothing is seen of a transaction before its   *)
(* commit (READ COMMITTED).  The unique constraints of the tables are left *)
(* out: the locks alone have to keep what they would enforce.              *)
(***************************************************************************)
EXTENDS Integers, FiniteSets, Sequences

CONSTANTS
    Users,
    Ids,            \* primary keys, a bound on the Readings ever created
    Dates,          \* completion dates up to today
    Transactions,   \* requests that may be in a transaction at once
    None            \* SQL NULL

ASSUME LocksAssumption ==
    /\ Users \cap Ids = {}
    /\ {"book", "share"} \cap (Users \cup Ids) = {}
    /\ None \notin Dates \cup Ids

VARIABLES
    readings,       \* the Reading rows, by primary key
    interviews,     \* how many Interview rows each Reading has
    txn             \* what each transaction wants, holds and is about to do

readingVars == <<readings, interviews, txn>>
tables == <<readings, interviews>>

-------------------------------------------------------------------------------
(* Data *)

Active   == {"want_to_read", "reading"}
Statuses == Active \cup {"completed"}

Row == [user : Users, status : Statuses, completed_on : Dates \cup {None}]

\* _validate_state_date, and the CHECK of the table.
ValidStateDate(status, date) == status = "completed" <=> date # None

ReadingsOf(u) == {r \in DOMAIN readings : readings[r].user = u}
ActiveOf(u)   == {r \in ReadingsOf(u) : readings[r].status \in Active}

Idle == [op |-> "idle", held |-> {}]

-------------------------------------------------------------------------------
(***************************************************************************)
(* Locks.  "book" is the Book row FOR UPDATE, "share" is the FOR KEY SHARE *)
(* of it that the foreign key of a new Reading takes: it is deferred, so   *)
(* that is the last thing a creation waits for, at its commit.             *)
(***************************************************************************)
Conflicts(k, l) == (k = l /\ k # "share") \/ {k, l} = {"book", "share"}

\* Mutant: no lock on the user before the Readings are looked at.
UserLock_None(u) == <<>>

\* _lock_user
UserLock(u) == <<{u}>>

\* Mutant: only the Reading is locked, without its user and Book.
ReadingLocks_Alone(r) == <<{r}>>

\* _lock_reading, whose select_related makes the lock include user and Book.
ReadingLocks(r) == <<{r}, {readings[r].user}, {"book"}>>

\* Mutant: the Reading is read, not locked.
StartLocks_None(r) == <<>>

\* Mutant: the Book is first locked as a foreign key locks it.
StartLocks_Upgraded(r) == <<{r}, {"share"}, {"book"}>>

\* start_interview, and the source of a rereading.
StartLocks(r) == <<{r}, {"book"}>>

FirstLocks(op, u, r) ==
    CASE op \in {"create", "reread"} -> UserLock(u)
      [] op \in {"change", "date"}   -> ReadingLocks(r)
      [] op = "start"                -> StartLocks(r)

Begin(t, op, u, r, status, date) ==
    /\ txn[t] = Idle
    /\ txn' = [txn EXCEPT ![t] =
                 [op |-> op, user |-> u, target |-> r, status |-> status, date |-> date,
                  stage |-> "begun", wants |-> FirstLocks(op, u, r), held |-> {}]]
    /\ UNCHANGED tables

\* What is left to lock once k is.
Remaining(wants, k) ==
    IF Head(wants) = {k} THEN Tail(wants) ELSE <<Head(wants) \ {k}>> \o Tail(wants)

Acquire(t, k) ==
    /\ txn[t] # Idle
    /\ txn[t].wants # <<>>
    /\ k \in Head(txn[t].wants)
    /\ \A o \in Transactions \ {t} : \A l \in txn[o].held : ~Conflicts(k, l)
    /\ txn' = [txn EXCEPT ![t] = [txn[t] EXCEPT !.held = txn[t].held \cup {k},
                                               !.wants = Remaining(txn[t].wants, k)]]
    /\ UNCHANGED tables

\* Transaction t of one of the kinds ops has all it asked for in that stage.
At(t, ops, stage) ==
    /\ txn[t].op \in ops
    /\ txn[t].stage = stage
    /\ txn[t].wants = <<>>

\* A statement that finds no row locks none.
Found(rows) == IF rows = {} THEN <<>> ELSE <<rows>>

\* Its next statement locks these rows (sets of them, one after the other).
Statement(t, stage, locks) ==
    /\ txn' = [txn EXCEPT ![t] = [txn[t] EXCEPT !.stage = stage, !.wants = locks]]
    /\ UNCHANGED tables

\* Every lock is released at the end.
Release(t) == txn' = [txn EXCEPT ![t] = Idle]

-------------------------------------------------------------------------------
(* create_initial_reading and create_rereading *)

LockSource(t) ==
    /\ At(t, {"reread"}, "begun")
    /\ Statement(t, "source", StartLocks(txn[t].target))

LockHistory(t) ==
    /\ \/ At(t, {"create"}, "begun")
       \/ At(t, {"reread"}, "source") /\ readings[txn[t].target].status = "completed"
    /\ Statement(t, "history", Found(ReadingsOf(txn[t].user)))

\* No active Reading to return and, for the first one, no history.
CheckHistory(t) ==
    LET q == txn[t] IN
    /\ At(t, {"create", "reread"}, "history")
    /\ ActiveOf(q.user) = {}
    /\ q.op = "create" => ReadingsOf(q.user) = {}
    /\ ValidStateDate(q.status, q.date)
    /\ Statement(t, "insert", <<{"share"}>>)

InsertReading(t) ==
    LET q == txn[t] IN
    /\ At(t, {"create", "reread"}, "insert")
    /\ \E r \in Ids \ DOMAIN readings :
         readings' = [i \in DOMAIN readings \cup {r} |->
                        IF i = r THEN [user |-> q.user, status |-> q.status,
                                       completed_on |-> q.date]
                        ELSE readings[i]]
    /\ Release(t)
    /\ UNCHANGED interviews

-------------------------------------------------------------------------------
(* change_reading_state, update_completion_date and start_interview *)

\* Mutant: a Reading whose Interview is started changes all the same.
CheckChange_AnyInterview(t) ==
    LET q      == txn[t]
        others == ActiveOf(q.user) \ {q.target}
    IN
    /\ At(t, {"change"}, "begun")
    /\ readings[q.target].status # q.status
    /\ \/ /\ q.status = "completed" /\ q.date # None
          /\ Statement(t, "write", <<>>)
       \/ /\ q.status \in Active /\ others = {}
          /\ Statement(t, "write", <<>>)
       \/ /\ q.status \in Active
          /\ \E o \in others : Statement(t, "conflict", <<{o}>>)

\* The other active Reading that is found is locked before it is reported.
CheckChange(t) ==
    LET q      == txn[t]
        others == ActiveOf(q.user) \ {q.target}
    IN
    /\ At(t, {"change"}, "begun")
    /\ readings[q.target].status # q.status
    /\ interviews[q.target] = 0
    /\ \/ /\ q.status = "completed" /\ q.date # None
          /\ Statement(t, "write", <<>>)
       \/ /\ q.status \in Active /\ others = {}
          /\ Statement(t, "write", <<>>)
       \/ /\ q.status \in Active
          /\ \E o \in others : Statement(t, "conflict", <<{o}>>)

\* Mutant: the date of a Reading that is no longer completed is kept.
UpdateState_KeepsDate(t) ==
    LET q == txn[t] IN
    /\ At(t, {"change"}, "write")
    /\ readings' = [readings EXCEPT
         ![q.target].status = q.status,
         ![q.target].completed_on = IF q.status = "completed" THEN q.date ELSE @]
    /\ Release(t)
    /\ UNCHANGED interviews

UpdateState(t) ==
    LET q == txn[t] IN
    /\ At(t, {"change"}, "write")
    /\ readings' = [readings EXCEPT
         ![q.target].status = q.status,
         ![q.target].completed_on = IF q.status = "completed" THEN q.date ELSE None]
    /\ Release(t)
    /\ UNCHANGED interviews

\* Mutant: the Interview is not looked for.
CheckDate_AnyInterview(t) ==
    /\ At(t, {"date"}, "begun")
    /\ readings[txn[t].target].status = "completed"
    /\ Statement(t, "write", <<>>)

CheckDate(t) ==
    /\ At(t, {"date"}, "begun")
    /\ readings[txn[t].target].status = "completed"
    /\ interviews[txn[t].target] = 0
    /\ Statement(t, "write", <<>>)

UpdateDate(t) ==
    /\ At(t, {"date"}, "write")
    /\ readings' = [readings EXCEPT ![txn[t].target].completed_on = txn[t].date]
    /\ Release(t)
    /\ UNCHANGED interviews

CheckStart(t) ==
    /\ At(t, {"start"}, "begun")
    /\ readings[txn[t].target].status = "completed"
    /\ readings[txn[t].target].completed_on # None
    /\ interviews[txn[t].target] = 0
    /\ Statement(t, "write", <<>>)

InsertInterview(t) ==
    /\ At(t, {"start"}, "write")
    /\ interviews' = [interviews EXCEPT ![txn[t].target] = @ + 1]
    /\ Release(t)
    /\ UNCHANGED readings

\* It returns early, is refused, fails, or PostgreSQL ends it to break a cycle
\* of waiting transactions: nothing is written.
EndUnchanged(t) ==
    /\ txn[t] # Idle
    /\ Release(t)
    /\ UNCHANGED tables

-------------------------------------------------------------------------------
ReadingInit ==
    /\ readings = <<>>
    /\ interviews = [r \in Ids |-> 0]
    /\ txn = [t \in Transactions |-> Idle]

Request(t) ==
    \E date \in Dates \cup {None} :
      \/ \E u \in Users, status \in Statuses : Begin(t, "create", u, None, status, date)
      \/ \E r \in DOMAIN readings :
           LET u == readings[r].user IN
           \/ \E status \in Statuses :
                \/ /\ readings[r].status = "completed"
                   /\ Begin(t, "reread", u, r, status, date)
                \/ Begin(t, "change", u, r, status, date)
           \/ date # None /\ Begin(t, "date", u, r, "completed", date)
           \/ date = None /\ Begin(t, "start", u, r, "completed", date)

ReadingNext ==
    \E t \in Transactions :
        \/ Request(t)
        \/ \E k \in Users \cup Ids \cup {"book", "share"} : Acquire(t, k)
        \/ LockSource(t) \/ LockHistory(t) \/ CheckHistory(t) \/ InsertReading(t)
        \/ CheckChange(t) \/ UpdateState(t)
        \/ CheckDate(t) \/ UpdateDate(t)
        \/ CheckStart(t) \/ InsertInterview(t)
        \/ EndUnchanged(t)

ReadingSpec == ReadingInit /\ [][ReadingNext]_readingVars

-------------------------------------------------------------------------------
(* Safety *)

\* The rows keep their shapes, a date exactly where the Reading is completed.
ReadingTypeOK ==
    /\ DOMAIN readings \subseteq Ids
    /\ \A r \in DOMAIN readings :
         readings[r] \in Row /\ ValidStateDate(readings[r].status, readings[r].completed_on)
    /\ \A r \in Ids : interviews[r] > 0 => r \in DOMAIN readings

\* A user reads the Book at most once at a time (spec 006, FR-007): creations,
\* rereadings and Readings set back to an active state never get past one
\* another, and the unique index is never what stops one of them.
OneActiveReading == \A u \in Users : Cardinality(ActiveOf(u)) <= 1

\* However a start races with changes of its Reading, the Interview is one of
\* a completed Reading, and the only one.
InterviewOnCompletedReading ==
    \A r \in Ids : interviews[r] > 0 =>
        /\ interviews[r] = 1
        /\ readings[r].status = "completed"

\* Once the Interview is started nothing about its Reading changes, not even
\* by a request that had looked for the Interview before.
FrozenOnceStarted ==
    [][\A r \in DOMAIN readings : interviews[r] > 0 => readings'[r] = readings[r]]_readingVars

\* create_initial_reading makes the first Reading only: the loser of two
\* concurrent ones finds the winner's, completed or not.
FirstReadingOnce ==
    [][\A t \in Transactions :
         txn[t].op = "create" /\ txn'[t] = Idle /\ readings' # readings
           => ReadingsOf(txn[t].user) = {}]_readingVars

-------------------------------------------------------------------------------
(* Deadlocks *)

\* t waits for a row that o has locked.
WaitsFor(t, o) ==
    /\ txn[t] # Idle
    /\ txn[t].wants # <<>>
    /\ \E k \in Head(txn[t].wants), l \in txn[o].held : Conflicts(k, l)

\* Each of these transactions waits for another of them.
Deadlocked(C) == C # {} /\ \A t \in C : \E o \in C \ {t} : WaitsFor(t, o)

\* The user is locked before a Reading in some transactions and after it in
\* others, and all of them share the Book: requests of one user may wait for
\* one another in a circle (PostgreSQL then ends one), those of several never
\* do.
DeadlockWithinUser ==
    \A C \in SUBSET Transactions :
        Deadlocked(C) => \E u \in Users : Deadlocked({t \in C : txn[t].user = u})

-------------------------------------------------------------------------------
(* What the documents say and the code does not do *)

\* Locking the Book was rejected because it "needlessly serializes different
\* users who chose the same Book" (specs/006 research): users do not wait for
\* one another.
UsersIndependent ==
    \A t, o \in Transactions :
        t # o /\ WaitsFor(t, o) => txn[t].user = txn[o].user

-------------------------------------------------------------------------------
(***************************************************************************)
(* What the transactions amount to: each that writes is one step of the    *)
(* history, decided and done at its commit.                                *)
(***************************************************************************)
History == INSTANCE ReadingHistory

RefinesReadingHistory == History!HistorySpec

===============================================================================
