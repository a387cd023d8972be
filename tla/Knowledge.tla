-------------------------------- MODULE Knowledge --------------------------------
(***************************************************************************)
(* The Books and what is known about them: the rows books_book and         *)
(* knowledge_bookknowledge, the commands that fill them                    *)
(* (src/knowledge/services.py), the selection of a searched Book           *)
(* (src/books/services.py), and the Interviews that keep the readiness of  *)
(* their Book as it was when they started.                                 *)
(*                                                                         *)
(* All four writers do the same with every row: look for it, insert it if  *)
(* it is not there, and take the other one if the insert loses against a   *)
(* unique constraint.  They differ in which rows, and in what is one       *)
(* transaction.  A look and an insert are steps of their own; an insert    *)
(* waits while another transaction holds an uncommitted row of that key,   *)
(* and nothing is seen of a transaction before its commit.                 *)
(***************************************************************************)
EXTENDS Integers, FiniteSets, Sequences, Functions

CONSTANTS
    Descriptors,    \* validation_books.json: its ISBNs, in order
    LimitedBook,    \* the one of them described as READY_LIMITED
    SeedClaims,     \* book_knowledge.json: its claims <<isbn, number>>, in order
    OtherClaims,    \* claims an operator may register that are not in that file
    Searched,       \* the ISBNs a search may find
    Sources,        \* the metadata a search may find for one of them
    Tasks,          \* commands and requests that may run at once
    Interviews,     \* Interviews that may be started, a bound
    None            \* no row

Isbns == Range(Descriptors) \cup Searched
Claims == Range(SeedClaims) \cup OtherClaims

\* What the validation of the two files lets through; that the rows of the two
\* tables, and the metadata of the file and of a search, have nothing in common
\* is for naming.
FilesValid ==
    /\ LimitedBook \in Range(Descriptors)
    /\ {c[1] : c \in Range(SeedClaims)} = Range(Descriptors) \ {LimitedBook}
    /\ {c[1] : c \in OtherClaims} \subseteq Isbns
    /\ SeedClaims \in Seq(Range(SeedClaims)) /\ Descriptors \in Seq(Range(Descriptors))
    /\ Isbns \cap Claims = {}
    /\ "prepared" \notin Sources

ASSUME FilesAssumption == FilesValid

VARIABLES
    books,          \* books[i]: the metadata of the Book with ISBN i
    claims,         \* the BookKnowledge rows
    task,           \* what each command or request is doing
    interview       \* interview[v]: the Book and the readiness v started with

tables == <<books, claims>>
knowledgeVars == <<books, claims, task, interview>>

-------------------------------------------------------------------------------
(* Data *)

BookOf(claim) == claim[1]

\* A row is known by its unique key: the ISBN of a Book, or the claim itself.
Rows == Isbns \cup Claims
Committed == DOMAIN books \cup claims

Idle == [op |-> "idle"]

\* wrote is what the transaction has inserted; source the metadata it brings.
TaskState ==
    {Idle} \cup
    [op : {"seed", "prepare", "claim", "select"}, source : Sources \cup {"prepared"},
     plan : Seq(Rows), at : Nat, stage : {"check", "look", "insert", "done"},
     wrote : SUBSET Rows]

Running(t) == task[t].op # "idle" /\ task[t].stage # "done"

\* The row its next statement is about.
Row(t) == task[t].plan[task[t].at]

\* What t has inserted and not committed yet.
Uncommitted(t) == IF Running(t) THEN task[t].wrote ELSE {}

\* READ COMMITTED: its own rows, and those of finished transactions.
Sees(t, row) == row \in Committed \cup task[t].wrote

ClaimsOf(i) == {c \in claims : BookOf(c) = i}

\* get_book_knowledge_readiness, and its mutant: any Book's claim will do.
Readiness_AnyBook(i) == IF claims # {} THEN "READY" ELSE "READY_LIMITED"

Readiness(i) == IF ClaimsOf(i) # {} THEN "READY" ELSE "READY_LIMITED"

-------------------------------------------------------------------------------
(* Starting: which rows, in which order *)

Begin(t, op, source, plan) ==
    /\ task[t] = Idle
    /\ task' = [task EXCEPT ![t] =
         [op |-> op, source |-> source, plan |-> plan, at |-> 1,
          stage |-> IF op = "prepare" THEN "check" ELSE "look", wrote |-> {}]]
    /\ UNCHANGED <<tables, interview>>

\* Mutant: the claims of the file are gone through in another order.
SeedPlan_Reversed(file) == [n \in DOMAIN file |-> file[Len(file) + 1 - n]]

\* The order in which the claims of a file are registered.
SeedPlan(file) == file

\* Mutant: the Books are not looked up.
BeginSeed_AnyBooks(t) == Begin(t, "seed", "prepared", SeedPlan(SeedClaims))

\* The seed command: its Books are looked up before the transaction, and
\* have to be there.
BeginSeed(t) ==
    /\ {BookOf(c) : c \in Range(SeedClaims)} \subseteq DOMAIN books
    /\ Begin(t, "seed", "prepared", SeedPlan(SeedClaims))

\* The preparation: the Books first, then the claims.
BeginPrepare(t) == Begin(t, "prepare", "prepared", Descriptors \o SeedClaims)

\* create_book_knowledge on its own, of a claim of the file or of another one.
BeginClaim(t, c) ==
    /\ BookOf(c) \in DOMAIN books
    /\ Begin(t, "claim", "prepared", <<c>>)

\* The preparation looks, without a lock, whether the limited Book has claims.
CheckLimited(t) ==
    /\ task[t].op = "prepare" /\ task[t].stage = "check"
    /\ task' = [task EXCEPT ![t] = IF LimitedBook \in DOMAIN books /\ ClaimsOf(LimitedBook) # {}
                                   THEN Idle ELSE [@ EXCEPT !.stage = "look"]]
    /\ UNCHANGED <<tables, interview>>

-------------------------------------------------------------------------------
(* One row: look for it, insert it *)

\* The row is there, or has just been written: on to the next one.
Onward(t, wrote) ==
    LET of == task[t] IN
    task' = [task EXCEPT ![t] = [of EXCEPT !.at = of.at + 1, !.stage = "look", !.wrote = wrote]]

Look(t) ==
    /\ Running(t)
    /\ task[t].stage = "look"
    /\ task[t].at <= Len(task[t].plan)
    /\ IF Sees(t, Row(t)) THEN Onward(t, task[t].wrote)
       ELSE task' = [task EXCEPT ![t].stage = "insert"]
    /\ UNCHANGED <<tables, interview>>

\* t waits for the transaction of u to end.
WaitsFor(t, u) ==
    /\ t # u
    /\ Running(t)
    /\ task[t].stage = "insert"
    /\ Row(t) \in Uncommitted(u)

\* Mutant: every row is committed as it is written.
Insert_OneByOne(t) ==
    /\ Running(t)
    /\ task[t].stage = "insert"
    /\ \A u \in Tasks : ~WaitsFor(t, u)
    /\ Onward(t, {})
    /\ IF Row(t) \in Isbns
       THEN /\ books' = [i \in DOMAIN books \cup {Row(t)} |->
                           IF i \in DOMAIN books THEN books[i] ELSE task[t].source]
            /\ UNCHANGED claims
       ELSE claims' = claims \cup {Row(t)} /\ UNCHANGED books
    /\ UNCHANGED interview

\* Mutant: a lost insert undoes the whole transaction, which goes on.
Insert_NoSavepoint(t) ==
    /\ Running(t)
    /\ task[t].stage = "insert"
    /\ \A u \in Tasks : ~WaitsFor(t, u)
    /\ Onward(t, IF Row(t) \in Committed THEN {} ELSE task[t].wrote \cup {Row(t)})
    /\ UNCHANGED <<tables, interview>>

\* An insert that comes second fails, is undone on its own (the savepoint) and
\* the row is read again; if the first one was rolled back, it succeeds.
Insert(t) ==
    /\ Running(t)
    /\ task[t].stage = "insert"
    /\ \A u \in Tasks : ~WaitsFor(t, u)
    /\ Onward(t, IF Row(t) \in Committed THEN task[t].wrote ELSE task[t].wrote \cup {Row(t)})
    /\ UNCHANGED <<tables, interview>>

-------------------------------------------------------------------------------
(* The end of a transaction *)

\* Mutant: update_or_create, so the metadata is written again.
BooksAfter_Updated(t) ==
    LET of == task[t] IN
    [i \in DOMAIN books \cup (Range(of.plan) \cap Isbns) |->
       IF i \in Range(of.plan) THEN of.source ELSE books[i]]

BooksAfter(t) ==
    LET of == task[t] IN
    [i \in DOMAIN books \cup (of.wrote \cap Isbns) |->
       IF i \in of.wrote THEN of.source ELSE books[i]]

Commit(t) ==
    /\ Running(t)
    /\ task[t].stage = "look"
    /\ task[t].at > Len(task[t].plan)
    /\ books' = BooksAfter(t)
    /\ claims' = claims \cup (task[t].wrote \cap Claims)
    /\ task' = [task EXCEPT ![t].stage = "done"]
    /\ UNCHANGED interview

\* The database refuses, or the process dies: nothing was written.
Abort(t) ==
    /\ Running(t)
    /\ task' = [task EXCEPT ![t] = Idle]
    /\ UNCHANGED <<tables, interview>>

\* The report of the command, or the page of the Book, is out.
Report(t) ==
    /\ task[t].op # "idle" /\ task[t].stage = "done"
    /\ task' = [task EXCEPT ![t] = Idle]
    /\ UNCHANGED <<tables, interview>>

-------------------------------------------------------------------------------
(* The Interviews of a Book *)

\* start_interview reads the committed claims.  A transaction with uncommitted
\* ones does not hold it off: their foreign keys are deferred, so their Book is
\* locked only at the commit.
StartInterview(v, i) ==
    /\ interview[v] = None
    /\ i \in DOMAIN books
    /\ interview' = [interview EXCEPT ![v] = [book |-> i, readiness |-> Readiness(i)]]
    /\ UNCHANGED <<tables, task>>

\* The claims a question of Interview v is prepared from.
ContextClaims(v) ==
    IF interview[v].readiness = "READY" THEN ClaimsOf(interview[v].book) ELSE {}

-------------------------------------------------------------------------------
KnowledgeInit ==
    /\ books = <<>>
    /\ claims = {}
    /\ task = [t \in Tasks |-> Idle]
    /\ interview = [v \in Interviews |-> None]

KnowledgeNext ==
    \/ \E t \in Tasks :
         \/ BeginSeed(t)
         \/ BeginPrepare(t)
         \/ \E c \in Claims : BeginClaim(t, c)
         \/ CheckLimited(t)
         \/ Look(t)
         \/ Insert(t)
         \/ Commit(t)
         \/ Abort(t)
         \/ Report(t)
    \/ \E v \in Interviews, i \in Isbns : StartInterview(v, i)

-------------------------------------------------------------------------------
(* Safety *)

\* The rows keep their shapes, a claim belongs to a Book that exists, and so
\* does an Interview.
KnowledgeTypeOK ==
    /\ books \in UNION {[S -> Sources \cup {"prepared"}] : S \in SUBSET Isbns}
    /\ claims \subseteq Claims
    /\ \A c \in claims : BookOf(c) \in DOMAIN books
    /\ task \in [Tasks -> TaskState]
    /\ interview \in [Interviews ->
         {None} \cup [book : DOMAIN books, readiness : {"READY", "READY_LIMITED"}]]

\* An Interview told that its Book is READY has claims to ask from, for as long
\* as it goes on, although it never looks at the readiness of the Book again.
ReadyMeansClaims ==
    \A v \in Interviews :
        interview[v] # None /\ interview[v].readiness = "READY" => ContextClaims(v) # {}

\* Commands and requests never wait for one another in a circle: those that
\* write several rows write them in the order of the same files.
NoWaitCycle ==
    ~\E S \in (SUBSET Tasks) \ {{}} : \A t \in S : \E u \in S : WaitsFor(t, u)

\* What a finished command or selection reports is in the tables: a row it took
\* from another transaction was not one that has been rolled back.
ReportTrue ==
    \A t \in Tasks :
        task[t].op # "idle" /\ task[t].stage = "done" => Range(task[t].plan) \subseteq Committed

\* A Book and its metadata, once there, stay what they are, whoever selects or
\* prepares the same ISBN later.
BooksKept ==
    [][\A i \in DOMAIN books : i \in DOMAIN books' /\ books'[i] = books[i]]_knowledgeVars

\* However many commands run, fail or are interrupted, a command brings the
\* approved claims all together or not at all (one transaction around them all);
\* only a claim that an operator registers on its own comes on its own.
ApprovedClaimsTogether ==
    [][claims' # claims =>
         \/ Range(SeedClaims) \subseteq claims'
         \/ \E t \in Tasks : /\ task[t].op = "claim"
                           /\ claims' = claims \cup Range(task[t].plan)]_knowledgeVars

===============================================================================
