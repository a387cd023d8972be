----------------------------- MODULE SelectionProofs -----------------------------
(***************************************************************************)
(* Theorems about Knowledge and Selection, for any files that pass their   *)
(* validation and any number of commands, requests, searches and           *)
(* Interviews.                                                             *)
(*                                                                         *)
(* KnowledgeInv says what a transaction that has not ended can count on:   *)
(* the rows behind it are committed or its own, and its own rows are       *)
(* nobody else's.  The properties of the tables are consequences of what   *)
(* a commit does to that.                                                  *)
(***************************************************************************)
EXTENDS Selection, WellFoundedInduction, TLAPS

-------------------------------------------------------------------------------
(* The invariant *)

Active(t) == task[t].op # "idle"

\* What a command or request knows of the rows of its plan.
PlanInv(t) ==
    LET of == task[t] IN
    /\ of.at >= 1
    /\ of.stage = "insert" => of.at \in DOMAIN of.plan
    /\ of.stage # "done" => \A k \in DOMAIN of.plan : k < of.at => Sees(t, of.plan[k])
    /\ of.stage = "done" => Range(of.plan) \subseteq Committed
    /\ \A row \in of.wrote : \E k \in DOMAIN of.plan : k < of.at /\ row = of.plan[k]

\* The preparation goes through the Books and then the claims.
FileRows == Descriptors \o SeedClaims

\* What a plan holds, and in which order: the whole file, or one row that for a
\* selection is a Book; and the Book of every claim unless it is there already.
PlanWhole(t) ==
    LET of == task[t]  rows == Range(of.plan) IN
    /\ of.op = "seed" => of.plan = SeedClaims
    /\ of.op = "prepare" => of.plan = FileRows
    /\ of.op \in {"claim", "select"} => Len(of.plan) = 1
    /\ of.op = "select" => rows \cap Claims = {}
    /\ \A c \in rows \cap Claims : BookOf(c) \in DOMAIN books \cup rows

\* A row that is not committed yet has been inserted by one transaction only.
Exclusive ==
    /\ \A t \in Tasks : Uncommitted(t) \cap Committed = {}
    /\ \A t, u \in Tasks : t # u => Uncommitted(t) \cap Uncommitted(u) = {}

KnowledgeInv ==
    /\ KnowledgeTypeOK
    /\ ReadyMeansClaims
    /\ \A t \in Tasks : Active(t) => PlanInv(t) /\ PlanWhole(t)
    /\ Exclusive

\* What a search has begun after has ended, and nothing of it is left.
SearchInv ==
    /\ SelectionTypeOK
    /\ \A k \in 1..MaxSearches : search[k].after \subseteq Ended
    /\ session # None => \A k \in Ended : session.of \notin search[k].after

-------------------------------------------------------------------------------
(* Plans *)

\* The rows of a sequence.
LEMMA RangeOfSeq ==
    ASSUME NEW S, NEW s \in Seq(S)
    PROVE  /\ Range(s) \subseteq S
           /\ DOMAIN s = 1..Len(s)
           /\ \A k \in DOMAIN s : s[k] \in Range(s)
           /\ \A e \in Range(s) : \E k \in DOMAIN s : e = s[k]
BY DEF Range

\* The rows of the three kinds of plans.
LEMMA RangeOfPlans ==
    /\ Descriptors \in Seq(Rows) /\ SeedClaims \in Seq(Rows)
    /\ Descriptors \o SeedClaims \in Seq(Rows)
    /\ Range(Descriptors \o SeedClaims) = Range(Descriptors) \cup Range(SeedClaims)
    /\ \A c \in Rows : <<c>> \in Seq(Rows) /\ Range(<<c>>) = {c}
<1>1. Descriptors \in Seq(Range(Descriptors)) /\ SeedClaims \in Seq(Range(SeedClaims))
  BY FilesAssumption DEF FilesValid
<1>2. Descriptors \in Seq(Rows) /\ SeedClaims \in Seq(Rows)
  <2>1. Range(Descriptors) \subseteq Rows /\ Range(SeedClaims) \subseteq Rows
    BY DEF Rows, Isbns, Claims
  <2> HIDE DEF Rows
  <2> QED BY <1>1, <2>1, RangeOfSeq
<1>3. Descriptors \o SeedClaims \in Seq(Rows)
  BY <1>2
<1>4. Range(Descriptors \o SeedClaims) = Range(Descriptors) \cup Range(SeedClaims)
  <2> DEFINE s == Descriptors \o SeedClaims  n == Len(Descriptors)  m == Len(SeedClaims)
  <2>1. /\ n \in Nat /\ m \in Nat
        /\ DOMAIN s = 1..(n + m) /\ DOMAIN Descriptors = 1..n /\ DOMAIN SeedClaims = 1..m
        /\ \A k \in 1..(n + m) : s[k] = IF k <= n THEN Descriptors[k] ELSE SeedClaims[k - n]
    BY <1>2
  <2>2. ASSUME NEW e \in Range(s) PROVE e \in Range(Descriptors) \cup Range(SeedClaims)
    <3>1. PICK k \in 1..(n + m) : e = s[k]
      BY <2>1, <2>2 DEF Range
    <3>2. CASE k <= n
      BY <2>1, <3>1, <3>2 DEF Range
    <3>3. CASE ~(k <= n)
      <4>1. k - n \in 1..m /\ e = SeedClaims[k - n]
        BY <2>1, <3>1, <3>3
      <4> QED BY <2>1, <4>1 DEF Range
    <3> QED BY <3>2, <3>3
  <2>3. ASSUME NEW e \in Range(Descriptors) PROVE e \in Range(s)
    <3>1. PICK k \in 1..n : e = Descriptors[k]
      BY <2>1, <2>3 DEF Range
    <3>2. k \in 1..(n + m) /\ s[k] = e
      BY <2>1, <3>1
    <3> QED BY <2>1, <3>2 DEF Range
  <2>4. ASSUME NEW e \in Range(SeedClaims) PROVE e \in Range(s)
    <3>1. PICK k \in 1..m : e = SeedClaims[k]
      BY <2>1, <2>4 DEF Range
    <3>2. n + k \in 1..(n + m) /\ s[n + k] = e
      BY <2>1, <3>1
    <3> QED BY <2>1, <3>2 DEF Range
  <2> QED BY <2>2, <2>3, <2>4
<1>5. \A c \in Rows : <<c>> \in Seq(Rows) /\ Range(<<c>>) = {c}
  BY DEF Range
<1> QED BY <1>2, <1>3, <1>4, <1>5

-------------------------------------------------------------------------------
(* Steps of the tables *)

\* What TaskState says of a task.
LEMMA TaskFields ==
    ASSUME KnowledgeTypeOK, NEW t \in Tasks
    PROVE  /\ task \in [Tasks -> TaskState]
           /\ Active(t) =>
                /\ task[t].op \in {"seed", "prepare", "claim", "select"}
                /\ task[t].source \in Sources \cup {"prepared"}
                /\ task[t].plan \in Seq(Rows)
                /\ task[t].at \in Nat
                /\ task[t].stage \in {"check", "look", "insert", "done"}
                /\ task[t].wrote \subseteq Rows
           /\ ~Active(t) => task[t] = Idle
BY DEF KnowledgeTypeOK, TaskState, Active, Idle

\* What one task knows is not disturbed by what the others commit.
LEMMA OthersKept ==
    ASSUME NEW u \in Tasks,
           task'[u] = task[u],
           Committed \subseteq Committed', DOMAIN books \subseteq DOMAIN books',
           Active(u) => PlanInv(u) /\ PlanWhole(u)
    PROVE  (Active(u) => PlanInv(u) /\ PlanWhole(u))'
<1> SUFFICES ASSUME Active(u) PROVE PlanInv(u)' /\ PlanWhole(u)'
  BY DEF Active
<1>1. PlanInv(u)'
  BY DEF PlanInv, Sees
<1>2. PlanWhole(u)'
  BY DEF PlanWhole
<1> QED BY <1>1, <1>2

\* A step of one task that writes no table.
LEMMA TaskStep ==
    ASSUME KnowledgeInv, NEW t \in Tasks, NEW new \in TaskState,
           UNCHANGED <<tables, interview>>,
           task' = [task EXCEPT ![t] = new],
           (Active(t) => PlanInv(t) /\ PlanWhole(t))',
           Uncommitted(t)' \cap Committed = {},
           \A u \in Tasks \ {t} : Uncommitted(t)' \cap Uncommitted(u) = {}
    PROVE  KnowledgeInv'
<1>1. /\ task \in [Tasks -> TaskState] /\ task' \in [Tasks -> TaskState]
      /\ \A u \in Tasks \ {t} : task'[u] = task[u]
      /\ Committed' = Committed /\ DOMAIN books' = DOMAIN books
  BY DEF KnowledgeInv, KnowledgeTypeOK, tables, Committed
<1>2. KnowledgeTypeOK'
  BY <1>1 DEF KnowledgeInv, KnowledgeTypeOK, tables
<1>3. ReadyMeansClaims'
  BY DEF KnowledgeInv, ReadyMeansClaims, ContextClaims, ClaimsOf, tables
<1>4. \A u \in Tasks : (Active(u) => PlanInv(u) /\ PlanWhole(u))'
  <2> TAKE u \in Tasks
  <2>1. CASE u = t
    BY <2>1
  <2>2. CASE u # t
    BY <1>1, <2>2, OthersKept DEF KnowledgeInv
  <2> QED BY <2>1, <2>2
<1>5. Exclusive'
  <2>1. \A u \in Tasks \ {t} : Uncommitted(u)' = Uncommitted(u)
    BY <1>1 DEF Uncommitted, Running
  <2> QED BY <1>1, <2>1 DEF KnowledgeInv, Exclusive
<1> QED BY <1>2, <1>3, <1>4, <1>5 DEF KnowledgeInv

\* A transaction or a report that ends leaves nothing behind.
LEMMA GoneIdle ==
    ASSUME KnowledgeInv, NEW t \in Tasks, UNCHANGED <<tables, interview>>,
           task' = [task EXCEPT ![t] = Idle]
    PROVE  KnowledgeInv'
<1>1. Idle \in TaskState
  BY DEF TaskState
<1>2. task'[t] = Idle
  BY DEF KnowledgeInv, KnowledgeTypeOK
<1>3. Uncommitted(t)' = {} /\ ~Active(t)'
  BY <1>2 DEF Uncommitted, Running, Active, Idle
<1> QED BY <1>1, <1>3, TaskStep

\* A command or request that begins.
LEMMA Begins ==
    ASSUME KnowledgeInv, NEW t \in Tasks,
           NEW op \in {"seed", "prepare", "claim", "select"},
           NEW source \in Sources \cup {"prepared"}, NEW plan \in Seq(Rows),
           Begin(t, op, source, plan),
           op = "seed" => plan = SeedClaims, op = "prepare" => plan = FileRows,
           op \in {"claim", "select"} => Len(plan) = 1,
           op = "select" => Range(plan) \cap Claims = {},
           \A c \in Range(plan) \cap Claims : BookOf(c) \in DOMAIN books \cup Range(plan)
    PROVE  KnowledgeInv'
<1> DEFINE new == [op |-> op, source |-> source, plan |-> plan, at |-> 1,
                   stage |-> IF op = "prepare" THEN "check" ELSE "look", wrote |-> {}]
<1>1. new \in TaskState
  BY DEF TaskState
<1>2. task' = [task EXCEPT ![t] = new] /\ UNCHANGED <<tables, interview>>
  BY DEF Begin
<1>3. task'[t] = new /\ books' = books
  BY <1>2 DEF KnowledgeInv, KnowledgeTypeOK, tables
<1>4. PlanInv(t)'
  BY <1>3, RangeOfSeq DEF PlanInv
<1>5. PlanWhole(t)'
  BY <1>3 DEF PlanWhole
<1>6. Uncommitted(t)' = {}
  BY <1>3 DEF Uncommitted
<1> HIDE DEF new
<1> QED BY <1>1, <1>2, <1>4, <1>5, <1>6, TaskStep

\* The limited Book is looked for: the preparation is refused or goes on.
LEMMA CheckLimitedStep ==
    ASSUME KnowledgeInv, NEW t \in Tasks, CheckLimited(t)
    PROVE  KnowledgeInv'
<1>1. CASE task' = [task EXCEPT ![t] = Idle]
  BY <1>1, GoneIdle DEF CheckLimited
<1>2. CASE task' = [task EXCEPT ![t] = [task[t] EXCEPT !.stage = "look"]]
  <2> DEFINE new == [task[t] EXCEPT !.stage = "look"]
  <2>1. Active(t) /\ task[t].stage = "check"
    BY DEF CheckLimited, Active
  <2>2. new \in TaskState
    BY <2>1 DEF KnowledgeInv, KnowledgeTypeOK, TaskState, Active, Idle
  <2>3. UNCHANGED <<tables, interview>> /\ task'[t] = new /\ books' = books /\ Committed' = Committed
    BY <1>2 DEF CheckLimited, KnowledgeInv, KnowledgeTypeOK, tables, Committed
  <2>4. /\ new.op = task[t].op /\ new.plan = task[t].plan /\ new.at = task[t].at
        /\ new.stage = "look" /\ new.wrote = task[t].wrote
    BY <2>1 DEF KnowledgeInv, KnowledgeTypeOK, TaskState, Active, Idle
  <2> HIDE DEF new
  <2>5. PlanInv(t)' /\ PlanWhole(t)'
    BY <2>1, <2>3, <2>4 DEF KnowledgeInv, PlanInv, PlanWhole, Sees
  <2>6. Uncommitted(t)' = Uncommitted(t)
    BY <2>1, <2>3, <2>4 DEF Uncommitted, Running, Active
  <2>7. task' = [task EXCEPT ![t] = new]
    BY <1>2 DEF new
  <2>8. /\ Uncommitted(t)' \cap Committed = {}
        /\ \A u \in Tasks \ {t} : Uncommitted(t)' \cap Uncommitted(u) = {}
    BY <2>6 DEF KnowledgeInv, Exclusive
  <2> QED BY <2>2, <2>3, <2>5, <2>7, <2>8, TaskStep
<1> QED BY <1>1, <1>2 DEF CheckLimited

\* On to the next row: the row is there, or t has just written it.
LEMMA OnwardStep ==
    ASSUME KnowledgeInv, NEW t \in Tasks, Running(t),
           task[t].at \in DOMAIN task[t].plan, task[t].stage \in {"look", "insert"},
           NEW wrote, task[t].wrote \subseteq wrote,
           wrote \subseteq task[t].wrote \cup {Row(t)},
           Row(t) \in Committed \cup wrote,
           wrote \cap Committed = {},
           \A u \in Tasks \ {t} : wrote \cap Uncommitted(u) = {},
           Onward(t, wrote), UNCHANGED <<tables, interview>>
    PROVE  KnowledgeInv'
<1> DEFINE of == task[t]
           new == [of EXCEPT !.at = of.at + 1, !.stage = "look", !.wrote = wrote]
<1>1. Active(t)
  BY DEF Running, Active
<1>2. /\ of \in [op : {"seed", "prepare", "claim", "select"}, source : Sources \cup {"prepared"},
                 plan : Seq(Rows), at : Nat, stage : {"check", "look", "insert", "done"},
                 wrote : SUBSET Rows]
      /\ task[t].op \in {"seed", "prepare", "claim", "select"}
      /\ task[t].source \in Sources \cup {"prepared"}
      /\ task[t].plan \in Seq(Rows) /\ task[t].at \in Nat /\ task[t].wrote \subseteq Rows
  BY <1>1 DEF KnowledgeInv, KnowledgeTypeOK, TaskState, Active, Idle
<1>3. /\ task' = [task EXCEPT ![t] = new]
      /\ new.op = of.op /\ new.source = of.source /\ new.plan = of.plan
      /\ new.at = of.at + 1 /\ new.stage = "look" /\ new.wrote = wrote
      /\ wrote \subseteq Rows => new \in TaskState
  <2>1. \A z \in Nat, w \in SUBSET Rows :
          [of EXCEPT !.at = z, !.stage = "look", !.wrote = w] \in TaskState
    BY <1>2 DEF TaskState
  <2>2. /\ new.op = of.op /\ new.source = of.source /\ new.plan = of.plan
        /\ new.at = of.at + 1 /\ new.stage = "look" /\ new.wrote = wrote
    BY <1>2
  <2>3. task' = [task EXCEPT ![t] = new]
    BY DEF Onward
  <2>4. ASSUME wrote \subseteq Rows PROVE new \in TaskState
    <3>1. of.at + 1 \in Nat /\ wrote \in SUBSET Rows
      BY <1>2, <2>4
    <3> HIDE DEF of
    <3> QED BY <2>1, <3>1, Zenon
  <2> HIDE DEF new
  <2> QED BY <2>2, <2>3, <2>4
<1> HIDE DEF new
<1>4. task'[t] = new /\ books' = books /\ Committed' = Committed
  BY <1>3 DEF KnowledgeInv, KnowledgeTypeOK, tables, Committed
<1>5. Row(t) \in Rows /\ Row(t) \in Range(task[t].plan) /\ DOMAIN task[t].plan = 1..Len(task[t].plan)
  BY <1>2, RangeOfSeq DEF Row
<1>6. new \in TaskState
  BY <1>2, <1>3, <1>5
<1>7. PlanInv(t)'
  <2>1. PlanInv(t)
    BY <1>1 DEF KnowledgeInv
  <2>2. new.at >= 1 /\ new.stage # "insert" /\ new.stage # "done"
    BY <1>2, <1>3
  <2>3. \A k \in DOMAIN new.plan : k < new.at => new.plan[k] \in Committed \cup new.wrote
    <3> SUFFICES ASSUME NEW k \in DOMAIN task[t].plan, k < task[t].at + 1
                 PROVE  task[t].plan[k] \in Committed \cup wrote
      BY <1>3
    <3>1. k < task[t].at \/ k = task[t].at
      BY <1>2, <1>5
    <3>2. CASE k < task[t].at
      BY <2>1, <3>2 DEF PlanInv, Sees
    <3>3. CASE k = task[t].at
      BY <3>3 DEF Row
    <3> QED BY <3>1, <3>2, <3>3
  <2>4. \A row \in new.wrote : \E k \in DOMAIN new.plan : k < new.at /\ row = new.plan[k]
    <3> SUFFICES ASSUME NEW row \in wrote
                 PROVE  \E k \in DOMAIN task[t].plan : k < task[t].at + 1 /\ row = task[t].plan[k]
      BY <1>3
    <3>1. CASE row = Row(t)
      <4>1. task[t].at < task[t].at + 1
        BY <1>2
      <4> QED BY <3>1, <4>1 DEF Row
    <3>2. CASE row \in task[t].wrote
      BY <1>2, <1>5, <2>1, <3>2 DEF PlanInv
    <3> QED BY <3>1, <3>2
  <2> QED BY <1>4, <2>2, <2>3, <2>4 DEF PlanInv, Sees
<1>8. PlanWhole(t)'
  BY <1>1, <1>3, <1>4 DEF KnowledgeInv, PlanWhole
<1>9. Uncommitted(t)' \subseteq wrote
  BY <1>3, <1>4 DEF Uncommitted
<1>10. /\ Uncommitted(t)' \cap Committed = {}
       /\ \A u \in Tasks \ {t} : Uncommitted(t)' \cap Uncommitted(u) = {}
  BY <1>9
<1> QED BY <1>3, <1>6, <1>7, <1>8, <1>10, TaskStep

\* A look finds the row, or there will be an insert.
LEMMA LookStep ==
    ASSUME KnowledgeInv, NEW t \in Tasks, Look(t)
    PROVE  KnowledgeInv'
<1>1. Active(t) /\ Running(t) /\ task[t].stage = "look" /\ UNCHANGED <<tables, interview>>
  BY DEF Look, Running, Active
<1>2. /\ task[t] = [op |-> task[t].op, source |-> task[t].source, plan |-> task[t].plan,
                    at |-> task[t].at, stage |-> task[t].stage, wrote |-> task[t].wrote]
      /\ task[t].op \in {"seed", "prepare", "claim", "select"}
      /\ task[t].source \in Sources \cup {"prepared"}
      /\ task[t].plan \in Seq(Rows) /\ task[t].at \in Nat /\ task[t].wrote \subseteq Rows
  BY <1>1 DEF KnowledgeInv, KnowledgeTypeOK, TaskState, Active, Idle
<1>3. PlanInv(t) /\ PlanWhole(t)
  BY <1>1 DEF KnowledgeInv
<1>4. task[t].at \in DOMAIN task[t].plan
  BY <1>2, <1>3, RangeOfSeq DEF Look, PlanInv
<1>5. /\ task[t].wrote \cap Committed = {}
      /\ \A u \in Tasks \ {t} : task[t].wrote \cap Uncommitted(u) = {}
  BY <1>1 DEF KnowledgeInv, Exclusive, Uncommitted
<1>6. CASE Sees(t, Row(t))
  <2>1. Onward(t, task[t].wrote) /\ Row(t) \in Committed \cup task[t].wrote
    BY <1>6 DEF Look, Sees
  <2> QED BY <1>1, <1>4, <1>5, <2>1, OnwardStep
<1>7. CASE ~Sees(t, Row(t))
  <2> DEFINE new == [op |-> task[t].op, source |-> task[t].source, plan |-> task[t].plan,
                     at |-> task[t].at, stage |-> "insert", wrote |-> task[t].wrote]
  <2>1. task' = [task EXCEPT ![t] = new]
    BY <1>2, <1>7 DEF Look
  <2>2. task'[t] = new /\ books' = books /\ Committed' = Committed
    BY <1>1, <2>1 DEF KnowledgeInv, KnowledgeTypeOK, tables, Committed
  <2>3. new \in TaskState
    BY <1>2 DEF TaskState
  <2>4. PlanInv(t)' /\ PlanWhole(t)'
    BY <1>1, <1>3, <1>4, <2>2 DEF PlanInv, PlanWhole, Sees
  <2>5. Uncommitted(t)' \subseteq task[t].wrote
    BY <2>2 DEF Uncommitted
  <2>6. /\ Uncommitted(t)' \cap Committed = {}
        /\ \A u \in Tasks \ {t} : Uncommitted(t)' \cap Uncommitted(u) = {}
    BY <1>5, <2>5
  <2> HIDE DEF new
  <2> QED BY <1>1, <2>1, <2>3, <2>4, <2>6, TaskStep
<1> QED BY <1>6, <1>7

\* An insert takes a row that nobody has, or finds that it is there.
LEMMA InsertStep ==
    ASSUME KnowledgeInv, NEW t \in Tasks, Insert(t)
    PROVE  KnowledgeInv'
<1> DEFINE wrote == IF Row(t) \in Committed THEN task[t].wrote ELSE task[t].wrote \cup {Row(t)}
<1>1. Active(t) /\ Running(t) /\ task[t].stage = "insert" /\ UNCHANGED <<tables, interview>>
  BY DEF Insert, Running, Active
<1>2. task[t].at \in DOMAIN task[t].plan
  BY <1>1 DEF KnowledgeInv, PlanInv
<1>3. /\ task[t].wrote \cap Committed = {}
      /\ \A u \in Tasks \ {t} : task[t].wrote \cap Uncommitted(u) = {}
  BY <1>1 DEF KnowledgeInv, Exclusive, Uncommitted
<1>4. \A u \in Tasks \ {t} : Row(t) \notin Uncommitted(u)
  BY DEF Insert, WaitsFor
<1>5. wrote \cap Committed = {} /\ \A u \in Tasks \ {t} : wrote \cap Uncommitted(u) = {}
  BY <1>3, <1>4
<1>6. Onward(t, wrote)
  BY DEF Insert
<1>7. /\ task[t].wrote \subseteq wrote /\ wrote \subseteq task[t].wrote \cup {Row(t)}
      /\ Row(t) \in Committed \cup wrote
  OBVIOUS
<1> HIDE DEF wrote
<1> QED BY <1>1, <1>2, <1>5, <1>6, <1>7, OnwardStep

\* What a commit does to the tables: the rows of t are added, no other changes,
\* and all that t was to write is there.
LEMMA CommitTables ==
    ASSUME KnowledgeInv, NEW t \in Tasks, Commit(t)
    PROVE  /\ DOMAIN books' = DOMAIN books \cup (task[t].wrote \cap Isbns)
           /\ \A i \in DOMAIN books : books'[i] = books[i]
           /\ books' \in [DOMAIN books' -> Sources \cup {"prepared"}]
           /\ claims' = claims \cup (task[t].wrote \cap Claims)
           /\ Committed' = Committed \cup task[t].wrote
           /\ Range(task[t].plan) \subseteq Committed'
<1> DEFINE wrote == task[t].wrote
<1>1. Active(t) /\ Running(t) /\ task[t].stage = "look" /\ task[t].at > Len(task[t].plan)
  BY DEF Commit, Running, Active
<1>2. /\ task[t].source \in Sources \cup {"prepared"}
      /\ task[t].plan \in Seq(Rows) /\ task[t].at \in Nat /\ wrote \subseteq Rows
  BY <1>1, TaskFields DEF KnowledgeInv
<1>3. wrote \cap Committed = {}
  BY <1>1 DEF KnowledgeInv, Exclusive, Uncommitted
<1>4. books \in [DOMAIN books -> Sources \cup {"prepared"}]
  BY DEF KnowledgeInv, KnowledgeTypeOK
<1>5. books' = [i \in DOMAIN books \cup (wrote \cap Isbns) |->
                  IF i \in wrote THEN task[t].source ELSE books[i]]
  BY DEF Commit, BooksAfter
<1>6. DOMAIN books' = DOMAIN books \cup (wrote \cap Isbns)
  BY <1>5
<1>7. \A i \in DOMAIN books : books'[i] = books[i]
  BY <1>3, <1>5 DEF Committed
<1>8. books' \in [DOMAIN books' -> Sources \cup {"prepared"}]
  BY <1>2, <1>4, <1>5
<1>9. claims' = claims \cup (wrote \cap Claims)
  BY DEF Commit
<1>10. Committed' = Committed \cup wrote
  BY <1>2, <1>6, <1>9 DEF Committed, Rows
<1>11. Range(task[t].plan) \subseteq Committed \cup wrote
  <2> SUFFICES ASSUME NEW row \in Range(task[t].plan) PROVE row \in Committed \cup wrote
    OBVIOUS
  <2>1. PICK k \in 1..Len(task[t].plan) : row = task[t].plan[k] /\ k \in DOMAIN task[t].plan
    BY <1>2, RangeOfSeq
  <2>2. k < task[t].at
    BY <1>1, <1>2
  <2> QED BY <1>1, <2>1, <2>2 DEF KnowledgeInv, PlanInv, Sees
<1> QED BY <1>6, <1>7, <1>8, <1>9, <1>10, <1>11

\* A claim has its Book, which is no claim itself.
LEMMA BooksOfClaims == \A c \in Claims : BookOf(c) \in Isbns \ Claims
<1>1. \A c \in Range(SeedClaims) : c[1] \in Isbns
  BY FilesAssumption DEF FilesValid, Isbns
<1>2. \A c \in OtherClaims : c[1] \in Isbns
  BY FilesAssumption DEF FilesValid
<1> QED BY <1>1, <1>2, FilesAssumption DEF FilesValid, Claims, BookOf

LEMMA CommitStep ==
    ASSUME KnowledgeInv, NEW t \in Tasks, Commit(t)
    PROVE  KnowledgeInv'
<1> DEFINE wrote == task[t].wrote
           new == [task[t] EXCEPT !.stage = "done"]
<1>1. Active(t) /\ Running(t) /\ task[t].stage = "look" /\ interview' = interview
  BY DEF Commit, Running, Active
<1>2. PlanInv(t) /\ PlanWhole(t)
  BY <1>1 DEF KnowledgeInv
<1>3. /\ task' = [task EXCEPT ![t] = new]
      /\ new \in TaskState
      /\ new.op = task[t].op /\ new.plan = task[t].plan /\ new.at = task[t].at
      /\ new.stage = "done" /\ new.wrote = wrote
  <2>1. task[t] \in [op : {"seed", "prepare", "claim", "select"}, source : Sources \cup {"prepared"},
                     plan : Seq(Rows), at : Nat, stage : {"check", "look", "insert", "done"},
                     wrote : SUBSET Rows]
    BY <1>1 DEF KnowledgeInv, KnowledgeTypeOK, TaskState, Active, Idle
  <2>2. task' = [task EXCEPT ![t] = new]
    BY DEF Commit
  <2>3. new \in TaskState
    BY <2>1 DEF TaskState
  <2> QED BY <2>1, <2>2, <2>3
<1> HIDE DEF new
<1>4. /\ task \in [Tasks -> TaskState] /\ task' \in [Tasks -> TaskState]
      /\ task'[t] = new /\ \A u \in Tasks \ {t} : task'[u] = task[u]
  BY <1>3 DEF KnowledgeInv, KnowledgeTypeOK
<1>5. /\ DOMAIN books' = DOMAIN books \cup (wrote \cap Isbns)
      /\ books' \in [DOMAIN books' -> Sources \cup {"prepared"}]
      /\ claims' = claims \cup (wrote \cap Claims)
      /\ Committed' = Committed \cup wrote
      /\ Range(task[t].plan) \subseteq Committed'
  BY CommitTables
<1>6. KnowledgeTypeOK'
  <2>1. /\ DOMAIN books \subseteq Isbns /\ claims \subseteq Claims
        /\ \A c \in claims : BookOf(c) \in DOMAIN books
        /\ interview \in [Interviews ->
             {None} \cup [book : DOMAIN books, readiness : {"READY", "READY_LIMITED"}]]
    BY DEF KnowledgeInv, KnowledgeTypeOK
  <2>2. \A c \in claims' : BookOf(c) \in DOMAIN books'
    <3> SUFFICES ASSUME NEW c \in wrote \cap Claims PROVE BookOf(c) \in DOMAIN books'
      BY <1>5, <2>1
    <3>1. BookOf(c) \in DOMAIN books \cup Range(task[t].plan)
      BY <1>2 DEF PlanInv, PlanWhole, Range
    <3>2. BookOf(c) \in Isbns /\ BookOf(c) \notin Claims
      BY BooksOfClaims
    <3> QED BY <1>5, <2>1, <3>1, <3>2 DEF Committed
  <2>3. books' \in UNION {[S -> Sources \cup {"prepared"}] : S \in SUBSET Isbns}
    BY <1>5, <2>1
  <2>4. claims' \subseteq Claims
    BY <1>5, <2>1
  <2>5. interview' \in [Interviews ->
             {None} \cup [book : DOMAIN books', readiness : {"READY", "READY_LIMITED"}]]
    <3> DEFINE B == DOMAIN books  C == DOMAIN books'
    <3>1. B \subseteq C
      BY <1>5
    <3>2. interview \in [Interviews -> {None} \cup [book : B, readiness : {"READY", "READY_LIMITED"}]]
      BY <2>1
    <3> HIDE DEF B, C
    <3>3. interview \in [Interviews -> {None} \cup [book : C, readiness : {"READY", "READY_LIMITED"}]]
      BY <3>1, <3>2
    <3> QED BY <1>1, <3>3 DEF C
  <2> QED BY <1>4, <2>2, <2>3, <2>4, <2>5 DEF KnowledgeTypeOK
<1>7. ReadyMeansClaims'
  <2>1. \A v \in Interviews : ContextClaims(v) \subseteq ContextClaims(v)'
    BY <1>1, <1>5 DEF ContextClaims, ClaimsOf
  <2> QED BY <1>1, <2>1 DEF KnowledgeInv, ReadyMeansClaims
<1>8. \A u \in Tasks : (Active(u) => PlanInv(u) /\ PlanWhole(u))'
  <2> TAKE u \in Tasks
  <2>1. CASE u = t
    <3>1. PlanInv(t)'
      BY <1>2, <1>3, <1>4, <1>5 DEF PlanInv
    <3>2. PlanWhole(t)'
      BY <1>2, <1>3, <1>4, <1>5 DEF PlanWhole
    <3> QED BY <2>1, <3>1, <3>2
  <2>2. CASE u # t
    BY <1>4, <1>5, <2>2, OthersKept DEF KnowledgeInv
  <2> QED BY <2>1, <2>2
<1>9. Exclusive'
  <2>1. Uncommitted(t)' = {} /\ \A u \in Tasks \ {t} : Uncommitted(u)' = Uncommitted(u)
    BY <1>3, <1>4 DEF Uncommitted, Running
  <2>2. Uncommitted(t) = wrote
    BY <1>1 DEF Uncommitted
  <2> QED BY <1>5, <2>1, <2>2 DEF KnowledgeInv, Exclusive
<1> QED BY <1>6, <1>7, <1>8, <1>9 DEF KnowledgeInv

\* An Interview starts, and is told READY only of a Book with claims.
LEMMA StartStep ==
    ASSUME KnowledgeInv, NEW v \in Interviews, NEW i \in Isbns, StartInterview(v, i)
    PROVE  KnowledgeInv'
<1> DEFINE new == [book |-> i, readiness |-> Readiness(i)]
<1>1. /\ interview' = [interview EXCEPT ![v] = new] /\ i \in DOMAIN books
      /\ books' = books /\ claims' = claims /\ task' = task
  BY DEF StartInterview, tables
<1>2. KnowledgeTypeOK'
  <2>1. new \in [book : DOMAIN books, readiness : {"READY", "READY_LIMITED"}]
    BY <1>1 DEF Readiness
  <2> HIDE DEF new
  <2>2. interview' \in [Interviews ->
             {None} \cup [book : DOMAIN books, readiness : {"READY", "READY_LIMITED"}]]
    BY <1>1, <2>1 DEF KnowledgeInv, KnowledgeTypeOK
  <2> QED BY <1>1, <2>2 DEF KnowledgeInv, KnowledgeTypeOK
<1>3. ReadyMeansClaims'
  <2> SUFFICES ASSUME NEW w \in Interviews, interview'[w] # None, interview'[w].readiness = "READY"
               PROVE  ContextClaims(w)' # {}
    BY DEF ReadyMeansClaims
  <2>1. CASE w = v
    <3>1. interview'[w] = new
      BY <1>1, <2>1 DEF KnowledgeInv, KnowledgeTypeOK
    <3>2. ClaimsOf(i) # {}
      BY <3>1 DEF Readiness
    <3> QED BY <1>1, <3>1, <3>2 DEF ContextClaims, ClaimsOf
  <2>2. CASE w # v
    BY <1>1, <2>2 DEF KnowledgeInv, KnowledgeTypeOK, ReadyMeansClaims, ContextClaims, ClaimsOf
  <2> QED BY <2>1, <2>2
<1>4. Exclusive'
  BY <1>1 DEF KnowledgeInv, Exclusive, Uncommitted, Running, Committed
<1>5. \A u \in Tasks : (Active(u) => PlanInv(u) /\ PlanWhole(u))'
  BY <1>1 DEF KnowledgeInv, Active, PlanInv, PlanWhole, Sees, Committed
<1> QED BY <1>2, <1>3, <1>4, <1>5 DEF KnowledgeInv

-------------------------------------------------------------------------------
(* Every step *)

LEMMA KnowledgeInvInit == KnowledgeInit => KnowledgeInv
<1> SUFFICES ASSUME KnowledgeInit PROVE KnowledgeInv
  OBVIOUS
<1>1. \A t \in Tasks : task[t] = Idle
  BY DEF KnowledgeInit
<1>2. DOMAIN books = {} /\ books \in [{} -> Sources \cup {"prepared"}]
  BY DEF KnowledgeInit
<1>3. KnowledgeTypeOK
  BY <1>2 DEF KnowledgeInit, KnowledgeTypeOK, TaskState
<1>4. ReadyMeansClaims
  BY DEF KnowledgeInit, ReadyMeansClaims
<1>5. (\A t \in Tasks : ~Active(t)) /\ Exclusive
  BY <1>1 DEF Active, Idle, Exclusive, Uncommitted, Running
<1> QED BY <1>3, <1>4, <1>5 DEF KnowledgeInv

LEMMA KnowledgeInvNext ==
    ASSUME KnowledgeInv, KnowledgeNext
    PROVE  KnowledgeInv'
<1>1. ASSUME NEW t \in Tasks, BeginSeed(t) PROVE KnowledgeInv'
  <2>1. Begin(t, "seed", "prepared", SeedClaims)
    BY <1>1 DEF BeginSeed, SeedPlan
  <2>2. \A c \in Range(SeedClaims) : BookOf(c) \in DOMAIN books
    BY <1>1 DEF BeginSeed
  <2> QED BY <2>1, <2>2, RangeOfPlans, Begins
<1>2. ASSUME NEW t \in Tasks, BeginPrepare(t) PROVE KnowledgeInv'
  <2>1. Begin(t, "prepare", "prepared", FileRows) /\ FileRows \in Seq(Rows)
    BY <1>2, RangeOfPlans DEF BeginPrepare, FileRows
  <2>2. \A c \in Range(FileRows) \cap Claims : BookOf(c) \in Range(FileRows)
    <3> TAKE c \in Range(FileRows) \cap Claims
    <3>1. c \in Range(SeedClaims)
      BY RangeOfPlans, FilesAssumption DEF FileRows, FilesValid, Isbns
    <3>2. c[1] \in Range(Descriptors)
      BY <3>1, FilesAssumption DEF FilesValid
    <3> QED BY <3>2, RangeOfPlans DEF FileRows, BookOf
  <2> HIDE DEF FileRows
  <2> QED BY <2>1, <2>2, Begins
<1>3. ASSUME NEW t \in Tasks, NEW c \in Claims, BeginClaim(t, c) PROVE KnowledgeInv'
  <2>1. Begin(t, "claim", "prepared", <<c>>) /\ BookOf(c) \in DOMAIN books
    BY <1>3 DEF BeginClaim
  <2>2. c \in Rows
    BY DEF Rows
  <2>3. <<c>> \in Seq(Rows) /\ Range(<<c>>) = {c} /\ Len(<<c>>) = 1
    BY <2>2, RangeOfPlans
  <2> QED BY <2>1, <2>2, <2>3, Begins
<1>4. ASSUME NEW t \in Tasks, Abort(t) \/ Report(t) PROVE KnowledgeInv'
  BY <1>4, GoneIdle DEF Abort, Report
<1> QED BY <1>1, <1>2, <1>3, <1>4, CheckLimitedStep, LookStep, InsertStep, CommitStep, StartStep
        DEF KnowledgeNext

\* A selection begins as the commands do, with the one Book it is about.
LEMMA SelectStep ==
    ASSUME KnowledgeInv, SelectionTypeOK,
           NEW t \in Tasks, NEW k \in 1..MaxSearches, NEW i \in Searched, Select(t, k, i)
    PROVE  KnowledgeInv'
<1>1. session \in Batches /\ i \in DOMAIN session.found
  BY DEF Select, Selectable, SelectionTypeOK
<1>2. session.found[i] \in Sources
  <2>1. session.found \in UNION {[S -> Sources] : S \in (SUBSET Searched) \ {{}}}
    BY <1>1 DEF Batches
  <2> QED BY <1>1, <2>1
<1>3. i \in Rows /\ i \notin Claims
  BY FilesAssumption DEF FilesValid, Rows, Isbns, Claims
<1>4. <<i>> \in Seq(Rows) /\ Range(<<i>>) = {i} /\ Len(<<i>>) = 1
  BY <1>3, RangeOfPlans
<1>5. Begin(t, "select", session.found[i], <<i>>)
  BY DEF Select
<1> QED BY <1>2, <1>3, <1>4, <1>5, Begins

LEMMA KnowledgeInvUnchanged ==
    ASSUME KnowledgeInv, UNCHANGED knowledgeVars
    PROVE  KnowledgeInv'
<1>1. books' = books /\ claims' = claims /\ task' = task /\ interview' = interview
  BY DEF knowledgeVars, tables
<1> QED BY <1>1 DEF KnowledgeInv, KnowledgeTypeOK, ReadyMeansClaims,
             ContextClaims, ClaimsOf, Active, PlanInv, PlanWhole, Sees, Exclusive, Uncommitted,
             Running, Committed

LEMMA SearchInvNext ==
    ASSUME SearchInv, [SelectionNext]_selectionVars
    PROVE  SearchInv'
<1>1. CASE UNCHANGED sessionVars
  BY <1>1 DEF SearchInv, SelectionTypeOK, sessionVars, Ended
<1>2. ASSUME NEW k \in 1..MaxSearches, SearchBegins(k) PROVE SearchInv'
  <2> DEFINE new == [stage |-> "running", after |-> Ended]
  <2>1. /\ search \in [1..MaxSearches -> SearchState] /\ session' = session
        /\ search' = [search EXCEPT ![k] = new] /\ search[k].stage = "none"
        /\ new \in SearchState /\ new.stage = "running" /\ new.after = Ended
    BY <1>2 DEF SearchBegins, SearchInv, SelectionTypeOK, SearchState, Ended
  <2> HIDE DEF new
  <2>2. search'[k] = new /\ \A j \in 1..MaxSearches \ {k} : search'[j] = search[j]
    BY <2>1
  <2>3. Ended' = Ended /\ k \notin Ended
    BY <2>1, <2>2 DEF Ended
  <2>4. SelectionTypeOK'
    BY <2>1 DEF SearchInv, SelectionTypeOK, Batches, SearchState
  <2> QED BY <2>1, <2>2, <2>3, <2>4 DEF SearchInv, Ended
<1>3. ASSUME NEW k \in 1..MaxSearches, NEW stage \in {"ended", "failed"}, Ends(k, stage),
             \/ stage = "failed" /\ session' = session
             \/ stage = "ended" /\ session' = None
             \/ stage = "ended" /\ session' \in Batches /\ session'.of = k
      PROVE  SearchInv'
  <2>1. /\ search \in [1..MaxSearches -> SearchState] /\ search[k].stage = "running"
        /\ search' = [search EXCEPT ![k].stage = stage]
    BY <1>3 DEF Ends, SearchInv, SelectionTypeOK
  <2>2. /\ search' \in [1..MaxSearches -> SearchState]
        /\ \A j \in 1..MaxSearches : search'[j].after = search[j].after
        /\ search'[k].stage = stage
        /\ \A j \in 1..MaxSearches \ {k} : search'[j].stage = search[j].stage
    BY <2>1 DEF SearchState
  <2>3. k \notin Ended /\ Ended \subseteq Ended' /\ Ended' \subseteq Ended \cup {k}
    BY <2>1, <2>2 DEF Ended
  <2>4. SelectionTypeOK'
    BY <1>3, <2>2 DEF SearchInv, SelectionTypeOK, Batches, SearchState
  <2>5. \A j \in 1..MaxSearches : search'[j].after \subseteq Ended'
    BY <2>2, <2>3 DEF SearchInv
  <2>6. ASSUME session' # None, NEW j \in Ended' PROVE session'.of \notin search'[j].after
    <3>1. j \in 1..MaxSearches
      BY DEF Ended
    <3>2. CASE stage = "ended"
      BY <1>3, <2>2, <2>3, <2>6, <3>1, <3>2 DEF SearchInv
    <3>3. CASE stage = "failed"
      <4>1. j \in Ended /\ session' = session
        BY <1>3, <2>2, <2>3, <3>3 DEF Ended
      <4> QED BY <2>2, <2>6, <3>1, <4>1 DEF SearchInv
    <3> QED BY <3>2, <3>3
  <2> QED BY <2>4, <2>5, <2>6 DEF SearchInv
<1>4. ASSUME NEW k \in 1..MaxSearches, NEW S \in (SUBSET Searched) \ {{}}, NEW found \in [S -> Sources],
             SearchSucceeds(k, found)
      PROVE  SearchInv'
  <2>1. session' \in Batches /\ session'.of = k /\ Ends(k, "ended")
    BY <1>4 DEF SearchSucceeds, Batches
  <2> QED BY <2>1, <1>3
<1>5. ASSUME NEW k \in 1..MaxSearches, SearchFindsNothing(k) \/ SearchCrashes(k) PROVE SearchInv'
  BY <1>3, <1>5 DEF SearchFindsNothing, SearchCrashes
<1>6. CASE CandidatesExpire
  <2>1. session' \in Batches /\ session'.of = session.of /\ session # None /\ search' = search
    BY <1>6 DEF CandidatesExpire, SearchInv, SelectionTypeOK, Batches
  <2> QED BY <2>1 DEF SearchInv, SelectionTypeOK, Ended
<1>7. CASE UNCHANGED selectionVars
  BY <1>1, <1>7 DEF selectionVars
<1> QED BY <1>1, <1>2, <1>4, <1>5, <1>6, <1>7 DEF SelectionNext, Select

LEMMA SelectionInductive == SelectionSpec => [](KnowledgeInv /\ SearchInv)
<1>1. SelectionInit => KnowledgeInv /\ SearchInv
  BY KnowledgeInvInit DEF SelectionInit, SearchInv, SelectionTypeOK, SearchState, Ended
<1>2. KnowledgeInv /\ SearchInv /\ [SelectionNext]_selectionVars => (KnowledgeInv /\ SearchInv)'
  <2> SUFFICES ASSUME KnowledgeInv, SearchInv, [SelectionNext]_selectionVars
               PROVE  KnowledgeInv'
    BY SearchInvNext
  <2>1. CASE KnowledgeNext
    BY <2>1, KnowledgeInvNext
  <2>2. CASE UNCHANGED knowledgeVars
    BY <2>2, KnowledgeInvUnchanged
  <2>3. ASSUME NEW t \in Tasks, NEW k \in 1..MaxSearches, NEW i \in Searched, Select(t, k, i)
        PROVE  KnowledgeInv'
    BY <2>3, SelectStep DEF SearchInv
  <2> QED BY <2>1, <2>2, <2>3
          DEF SelectionNext, selectionVars, SearchBegins, SearchSucceeds, SearchFindsNothing,
              SearchCrashes, Ends, CandidatesExpire
<1> QED BY <1>1, <1>2, PTL DEF SelectionSpec

-------------------------------------------------------------------------------
(* No circle of waits *)

\* A bounded set of numbers has a greatest one.
LEMMA GreatestExists ==
    ASSUME NEW M, M \subseteq Nat, M # {}, NEW bound \in Nat, \A m \in M : m <= bound
    PROVE  \E m \in M : \A k \in M : k <= m
<1> DEFINE N == {bound - m : m \in M}
<1>1. N \subseteq Nat
  BY SMT
<1>2. N # {}
  OBVIOUS
<1>3. PICK x \in N : \A y \in N : ~(<<y, x>> \in OpToRel(<, Nat))
  <2> HIDE DEF N
  <2> QED BY <1>1, <1>2, WFMin, NatLessThanWellFounded
<1>4. \A y \in N : ~(y < x)
  BY <1>1, <1>3 DEF OpToRel
<1>5. PICK m \in M : x = bound - m
  OBVIOUS
<1>6. ASSUME NEW k \in M PROVE k <= m
  <2>1. bound - k \in N /\ k \in Nat /\ m \in Nat
    OBVIOUS
  <2>2. ~(bound - k < bound - m)
    BY <1>4, <1>5, <2>1
  <2> HIDE DEF N
  <2> QED BY <2>1, <2>2
<1> QED BY <1>6

\* How far a command that writes several rows is in the file.
Position(t) == IF task[t].op = "prepare" THEN task[t].at ELSE Len(Descriptors) + task[t].at

\* Who waits for somebody is behind him in the file: what the other one has
\* inserted he has not come to yet.
LEMMA WaitsBehind ==
    ASSUME KnowledgeInv, NEW t \in Tasks, NEW u \in Tasks, WaitsFor(t, u)
    PROVE  /\ task[u].stage = "insert" => task[u].op \in {"seed", "prepare"}
           /\ {task[t].op, task[u].op} \subseteq {"seed", "prepare"} => Position(t) < Position(u)
<1>1. /\ Active(t) /\ Active(u) /\ t # u
      /\ task[t].stage = "insert" /\ Row(t) \in task[u].wrote /\ Row(t) \in Uncommitted(u)
  BY DEF WaitsFor, Running, Uncommitted, Active
<1>2. PlanInv(t) /\ PlanWhole(t) /\ PlanInv(u) /\ PlanWhole(u)
  BY <1>1 DEF KnowledgeInv
<1>3. /\ task[t].plan \in Seq(Rows) /\ task[t].at \in Nat
      /\ task[u].plan \in Seq(Rows) /\ task[u].at \in Nat
      /\ task[u].op \in {"seed", "prepare", "claim", "select"}
  BY <1>1, TaskFields DEF KnowledgeInv
<1>4. PICK j \in DOMAIN task[u].plan : j < task[u].at /\ Row(t) = task[u].plan[j]
  BY <1>1, <1>2 DEF PlanInv
<1>5. task[t].at \in DOMAIN task[t].plan /\ Row(t) = task[t].plan[task[t].at]
  BY <1>1, <1>2 DEF PlanInv, Row
<1>6. /\ DOMAIN task[t].plan = 1..Len(task[t].plan) /\ DOMAIN task[u].plan = 1..Len(task[u].plan)
  BY <1>3, RangeOfSeq
<1>7. task[u].stage = "insert" => task[u].op \in {"seed", "prepare"}
  <2> SUFFICES ASSUME task[u].stage = "insert", task[u].op \in {"claim", "select"} PROVE FALSE
    BY <1>3
  <2>1. Len(task[u].plan) = 1 /\ task[u].at \in 1..Len(task[u].plan)
    BY <1>2, <1>6 DEF PlanInv, PlanWhole
  <2> QED BY <1>3, <1>4, <1>6, <2>1
<1>8. ASSUME task[t].op \in {"seed", "prepare"}, task[u].op \in {"seed", "prepare"}
      PROVE  Position(t) < Position(u)
  <2> DEFINE n == Len(Descriptors)  m == Len(SeedClaims)
  <2>1. /\ n \in Nat /\ m \in Nat /\ DOMAIN Descriptors = 1..n /\ DOMAIN SeedClaims = 1..m
        /\ DOMAIN FileRows = 1..(n + m) /\ Len(FileRows) = n + m
        /\ \A k \in 1..n : FileRows[k] \in Isbns
        /\ \A k \in 1..m : FileRows[n + k] = SeedClaims[k] /\ SeedClaims[k] \in Claims
    <3>1. Descriptors \in Seq(Rows) /\ SeedClaims \in Seq(Rows)
      BY RangeOfPlans
    <3>2. /\ n \in Nat /\ m \in Nat /\ DOMAIN Descriptors = 1..n /\ DOMAIN SeedClaims = 1..m
          /\ DOMAIN FileRows = 1..(n + m) /\ Len(FileRows) = n + m
          /\ \A k \in 1..(n + m) : FileRows[k] = IF k <= n THEN Descriptors[k] ELSE SeedClaims[k - n]
      BY <3>1 DEF FileRows
    <3>3. \A k \in 1..n : FileRows[k] = Descriptors[k] /\ Descriptors[k] \in Isbns
      BY <3>2 DEF Range, Isbns
    <3>4. \A k \in 1..m : SeedClaims[k] \in Claims
      BY <3>2 DEF Range, Claims
    <3>5. \A k \in 1..m : FileRows[n + k] = SeedClaims[k]
      BY <3>2
    <3> QED BY <3>2, <3>3, <3>4, <3>5
  <2> HIDE DEF n, m
  <2>2. Isbns \cap Claims = {}
    BY FilesAssumption DEF FilesValid
  <2>3. \* What t has behind it is not what it waits for.
        \A k \in DOMAIN task[t].plan : k < task[t].at => task[t].plan[k] # Row(t)
    <3>1. Row(t) \notin Committed /\ Row(t) \notin task[t].wrote
      BY <1>1 DEF KnowledgeInv, Exclusive, Uncommitted, Running, WaitsFor
    <3> QED BY <1>1, <1>2, <3>1 DEF PlanInv, Sees
  <2>4. \* Where Row(t) stands in the file for t, and for u.
        \A s \in {t, u} : task[s].op = "prepare" => task[s].plan = FileRows
    BY <1>2 DEF PlanWhole
  <2>5. \A s \in {t, u} : task[s].op = "seed" => task[s].plan = SeedClaims
    BY <1>2 DEF PlanWhole
  <2>6. CASE task[t].op = "prepare" /\ task[u].op = "prepare"
    <3>1. ~(j < task[t].at)
      BY <1>4, <2>3, <2>4, <2>6
    <3>2. Position(t) = task[t].at /\ Position(u) = task[u].at
      BY <2>6 DEF Position
    <3> QED BY <1>3, <1>4, <1>6, <3>1, <3>2
  <2>7. CASE task[t].op = "seed" /\ task[u].op = "seed"
    <3>1. ~(j < task[t].at)
      BY <1>4, <2>3, <2>5, <2>7
    <3>2. Position(t) = n + task[t].at /\ Position(u) = n + task[u].at
      BY <2>7 DEF Position, n
    <3> QED BY <1>3, <1>4, <1>6, <2>1, <3>1, <3>2
  <2>8. CASE task[t].op = "prepare" /\ task[u].op = "seed"
    <3>1. j \in 1..m /\ n + j \in DOMAIN FileRows /\ FileRows[n + j] = Row(t)
      BY <1>4, <2>1, <2>5, <2>8
    <3>2. ~(n + j < task[t].at)
      BY <2>3, <2>4, <2>8, <3>1
    <3>3. Position(t) = task[t].at /\ Position(u) = n + task[u].at
      BY <2>8 DEF Position, n
    <3> QED BY <1>3, <1>4, <2>1, <3>1, <3>2, <3>3
  <2>9. CASE task[t].op = "seed" /\ task[u].op = "prepare"
    <3>1. j \in 1..(n + m) /\ FileRows[j] = Row(t)
      BY <1>4, <2>1, <2>4, <2>9
    <3>2. Row(t) \in Claims
      BY <1>5, <2>1, <2>5, <2>9
    <3>3. ~(j \in 1..n)
      BY <2>1, <2>2, <3>1, <3>2
    <3>4. j - n \in 1..m /\ SeedClaims[j - n] = Row(t)
      <4>1. j - n \in 1..m
        BY <2>1, <3>1, <3>3
      <4>2. FileRows[n + (j - n)] = SeedClaims[j - n] /\ n + (j - n) = j
        BY <2>1, <3>1, <4>1
      <4> QED BY <3>1, <4>1, <4>2
    <3>5. ~(j - n < task[t].at)
      BY <2>1, <2>3, <2>5, <2>9, <3>4
    <3>6. Position(t) = n + task[t].at /\ Position(u) = task[u].at
      BY <2>9 DEF Position, n
    <3> QED BY <1>3, <1>4, <2>1, <3>1, <3>5, <3>6
  <2> QED BY <1>8, <2>6, <2>7, <2>8, <2>9
<1> QED BY <1>7, <1>8

LEMMA NoCircle == KnowledgeInv => NoWaitCycle
<1> SUFFICES ASSUME KnowledgeInv,
                    NEW S \in (SUBSET Tasks) \ {{}}, \A t \in S : \E u \in S : WaitsFor(t, u)
             PROVE  FALSE
  BY DEF NoWaitCycle
<1> DEFINE Several == {t \in S : task[t].op \in {"seed", "prepare"}}
           places == {Position(t) : t \in Several}
           bound == Len(Descriptors) + Len(Descriptors) + Len(SeedClaims)
<1>1. \A t \in S : \E u \in Several : WaitsFor(t, u)
  <2> TAKE t \in S
  <2>1. PICK u \in S : WaitsFor(t, u)
    OBVIOUS
  <2>2. task[u].stage = "insert"
    BY DEF WaitsFor
  <2> QED BY <2>1, <2>2, WaitsBehind
<1>2. places # {}
  <2>1. PICK t \in S : TRUE
    OBVIOUS
  <2>2. PICK u \in Several : WaitsFor(t, u)
    BY <1>1
  <2>3. Position(u) \in places
    OBVIOUS
  <2> QED BY <2>3
<1>3. bound \in Nat /\ \A t \in Several : Position(t) \in Nat /\ Position(t) <= bound
  <2>1. /\ Len(Descriptors) \in Nat /\ Len(SeedClaims) \in Nat
        /\ Len(FileRows) = Len(Descriptors) + Len(SeedClaims)
    BY RangeOfPlans DEF FileRows
  <2> SUFFICES ASSUME NEW t \in Several PROVE Position(t) \in Nat /\ Position(t) <= bound
    BY <2>1
  <2>2. Active(t) /\ task[t].stage = "insert"
    BY DEF WaitsFor, Running, Active
  <2>3. task[t].plan \in Seq(Rows) /\ task[t].at \in Nat /\ PlanInv(t) /\ PlanWhole(t)
    BY <2>2, TaskFields DEF KnowledgeInv
  <2>4. task[t].at \in 1..Len(task[t].plan)
    BY <2>2, <2>3, RangeOfSeq DEF PlanInv
  <2>5. task[t].plan = FileRows \/ (task[t].op # "prepare" /\ task[t].plan = SeedClaims)
    BY <2>3 DEF PlanWhole
  <2> QED BY <2>1, <2>4, <2>5 DEF Position
<1>4. PICK t \in Several : \A u \in Several : Position(u) <= Position(t)
  <2> HIDE DEF bound
  <2>1. places \subseteq Nat /\ \A p \in places : p <= bound
    BY <1>3
  <2>2. PICK p \in places : \A q \in places : q <= p
    <3> HIDE DEF places
    <3> QED BY <1>2, <1>3, <2>1, GreatestExists
  <2> QED BY <2>2
<1>5. PICK u \in Several : WaitsFor(t, u)
  BY <1>1
<1>6. Position(t) < Position(u)
  BY <1>5, WaitsBehind
<1> QED BY <1>3, <1>4, <1>5, <1>6

-------------------------------------------------------------------------------
(* Theorems *)

\* Books, claims, tasks and Interviews keep their shapes, and no claim and no
\* Interview is without its Book.
THEOREM KnowledgeTypeCorrect == SelectionSpec => []KnowledgeTypeOK
<1>1. KnowledgeInv => KnowledgeTypeOK
  BY DEF KnowledgeInv
<1> QED BY <1>1, SelectionInductive, PTL

\* An Interview that was told READY has claims to ask from for good.
THEOREM ReadyHasClaims == SelectionSpec => []ReadyMeansClaims
<1>1. KnowledgeInv => ReadyMeansClaims
  BY DEF KnowledgeInv
<1> QED BY <1>1, SelectionInductive, PTL

\* A command that reports its rows, taken over from others or its own, reports
\* rows that are committed.
THEOREM ReportsAreTrue == SelectionSpec => []ReportTrue
<1>1. KnowledgeInv => ReportTrue
  BY DEF KnowledgeInv, ReportTrue, Active, PlanInv
<1> QED BY <1>1, SelectionInductive, PTL

\* However many commands and selections run, no circle of them waits for one
\* another's uncommitted rows.
THEOREM NoCircularWait == SelectionSpec => []NoWaitCycle
<1> QED BY NoCircle, SelectionInductive, PTL

\* No commit changes the metadata of a Book that is there.
THEOREM BooksStay == SelectionSpec => BooksKept
<1>1. KnowledgeInv /\ [SelectionNext]_selectionVars =>
        [\A i \in DOMAIN books : i \in DOMAIN books' /\ books'[i] = books[i]]_knowledgeVars
  <2> SUFFICES ASSUME KnowledgeInv, [SelectionNext]_selectionVars
               PROVE  \A i \in DOMAIN books : i \in DOMAIN books' /\ books'[i] = books[i]
    OBVIOUS
  <2>1. ASSUME NEW t \in Tasks, Commit(t)
        PROVE  \A i \in DOMAIN books : i \in DOMAIN books' /\ books'[i] = books[i]
    BY <2>1, CommitTables
  <2>2. CASE books' = books
    BY <2>2
  <2> QED BY <2>1, <2>2
          DEF SelectionNext, selectionVars, knowledgeVars, tables, KnowledgeNext, BeginSeed,
              BeginPrepare, BeginClaim, Begin, CheckLimited, Look, Insert, Abort, Report,
              StartInterview, SearchBegins, SearchSucceeds, SearchFindsNothing, SearchCrashes,
              Ends, CandidatesExpire, Select
<1> QED BY <1>1, SelectionInductive, PTL DEF SelectionSpec, BooksKept

\* Whatever is interrupted and whoever wins an insert, a command brings the claims
\* of the file all together or not at all.
THEOREM ClaimsAllOrNone == SelectionSpec => ApprovedClaimsTogether
<1> DEFINE Together == \/ Range(SeedClaims) \subseteq claims'
                       \/ \E t \in Tasks : /\ task[t].op = "claim"
                                         /\ claims' = claims \cup Range(task[t].plan)
<1>1. ASSUME KnowledgeInv, NEW t \in Tasks, Commit(t), claims' # claims
      PROVE  Together
  <2> DEFINE plan == task[t].plan  wrote == task[t].wrote
  <2>1. Active(t)
    BY <1>1 DEF Commit, Running, Active
  <2>2. PlanInv(t) /\ PlanWhole(t) /\ plan \in Seq(Rows)
        /\ task[t].op \in {"seed", "prepare", "claim", "select"}
    BY <1>1, <2>1, TaskFields DEF KnowledgeInv
  <2>3. /\ claims' = claims \cup (wrote \cap Claims)
        /\ DOMAIN books' = DOMAIN books \cup (wrote \cap Isbns)
        /\ Range(plan) \subseteq Committed'
    BY <1>1, CommitTables
  <2>4. \A row \in wrote : row \in Range(plan)
    BY <2>2, RangeOfSeq DEF PlanInv
  <2>5. PICK c \in wrote \cap Claims : TRUE
    BY <1>1, <2>3
  <2>6. CASE task[t].op = "select"
    BY <2>2, <2>4, <2>5, <2>6 DEF PlanWhole
  <2>7. CASE task[t].op = "claim"
    <3>1. DOMAIN plan = {1}
      BY <2>2, <2>7, RangeOfSeq DEF PlanWhole
    <3>2. Range(plan) = {c}
      BY <2>4, <2>5, <3>1 DEF Range
    <3>3. claims' = claims \cup Range(plan)
      BY <2>3, <2>4, <2>5, <3>2
    <3> QED BY <2>7, <3>3
  <2>8. CASE task[t].op \in {"seed", "prepare"}
    <3>1. Range(SeedClaims) \subseteq Range(plan)
      BY <2>2, <2>8, RangeOfPlans DEF PlanWhole, FileRows
    <3>2. Range(SeedClaims) \subseteq Claims /\ Claims \cap Isbns = {}
      BY FilesAssumption DEF FilesValid, Claims
    <3>3. DOMAIN books' \subseteq Isbns
      BY <1>1, <2>3 DEF KnowledgeInv, KnowledgeTypeOK
    <3> QED BY <2>3, <3>1, <3>2, <3>3 DEF Committed
  <2> QED BY <2>2, <2>6, <2>7, <2>8
<1>2. KnowledgeInv /\ [SelectionNext]_selectionVars =>
        [claims' # claims => Together]_knowledgeVars
  <2> SUFFICES ASSUME KnowledgeInv, [SelectionNext]_selectionVars, claims' # claims
               PROVE  Together
    OBVIOUS
  <2> HIDE DEF Together
  <2>1. CASE \E t \in Tasks : Commit(t)
    BY <1>1, <2>1
  <2>2. CASE claims' = claims
    BY <2>2
  <2> QED BY <2>1, <2>2
          DEF SelectionNext, selectionVars, knowledgeVars, tables, KnowledgeNext, BeginSeed,
              BeginPrepare, BeginClaim, Begin, CheckLimited, Look, Insert, Abort, Report,
              StartInterview, SearchBegins, SearchSucceeds, SearchFindsNothing, SearchCrashes,
              Ends, CandidatesExpire, Select
<1> QED BY <1>2, SelectionInductive, PTL DEF SelectionSpec, ApprovedClaimsTogether

\* The batch in the session and the searches keep their shapes.
THEOREM SelectionTypeCorrect == SelectionSpec => []SelectionTypeOK
<1>1. SearchInv => SelectionTypeOK
  BY DEF SearchInv
<1> QED BY <1>1, SelectionInductive, PTL

\* However searches overlap, the end of one takes away every candidate of those
\* that had ended before it began.
THEOREM OnlyLaterCandidates == SelectionSpec => []EarlierCandidatesGone
<1>1. SearchInv => EarlierCandidatesGone
  BY DEF SearchInv, EarlierCandidatesGone, Selectable, Ended
<1> QED BY <1>1, SelectionInductive, PTL

===============================================================================
