------------------------------ MODULE ReadingProofs ------------------------------
(***************************************************************************)
(* Proofs about the Readings of a Book, for every number of users,         *)
(* Readings and transactions: what a transaction has decided under its     *)
(* locks is still true when it writes, so the locks alone keep what the    *)
(* unique constraints would, and an Interview freezes its Reading.         *)
(***************************************************************************)
EXTENDS Reading, FiniteSetTheorems, SequenceTheorems, TLAPS

Keys == Users \cup Ids \cup {"book", "share"}

\* The Readings of u, and the active ones, in the table rds.
RowsOf(rds, u)       == {r \in DOMAIN rds : rds[r].user = u}
ActiveRowsOf(rds, u) == {r \in RowsOf(rds, u) : rds[r].status \in Active}

\* What a transaction has locked or its first statement is still to lock.
Locking(q) == q.held \cup {k \in Keys : \E i \in DOMAIN q.wants : k \in q.wants[i]}

IsTransaction(q) ==
    /\ DOMAIN q = {"op", "user", "target", "status", "date", "stage", "wants", "held"}
    /\ q.op \in {"create", "reread", "change", "date", "start"}
    /\ q.user \in Users /\ q.target \in Ids \cup {None}
    /\ q.status \in Statuses /\ q.date \in Dates \cup {None}
    /\ q.stage \in {"begun", "source", "history", "insert", "write", "conflict"}
    /\ q.held \subseteq Keys /\ q.wants \in Seq(SUBSET Keys)

\* What a transaction of u may lock: u, u's Readings, and the Book.
Lockable(u, rds) == {u, "book", "share"} \cup RowsOf(rds, u)

\* The locks a transaction has and asks for, the Book's foreign key last.
Modest(q, rds) ==
    /\ q.held \subseteq Lockable(q.user, rds)
    /\ \A i \in DOMAIN q.wants : q.wants[i] \subseteq Lockable(q.user, rds)
    /\ q.stage = "insert" => q.wants \in {<<{"share"}>>, <<>>}
    /\ q.stage # "insert" => "share" \notin q.held /\ \A i \in DOMAIN q.wants : "share" \notin q.wants[i]
    /\ "share" \in q.held => q.wants = <<>>

\* The rows that protect what a transaction decides.
Protects(q) == CASE q.op \in {"create", "reread"} -> {q.user}
                 [] q.op \in {"change", "date"}   -> {q.user, q.target}
                 [] q.op = "start"                -> {q.target}

\* What a transaction about to write has decided, of the tables.
Decided(q, rds, ivs) ==
    /\ q.op \in {"create", "reread"} /\ q.stage = "insert" =>
         /\ ActiveRowsOf(rds, q.user) = {}
         /\ q.op = "create" => RowsOf(rds, q.user) = {}
         /\ ValidStateDate(q.status, q.date)
    /\ q.op = "change" /\ q.stage = "write" =>
         /\ ivs[q.target] = 0 /\ rds[q.target].status # q.status
         /\ q.status \in Active => ActiveRowsOf(rds, q.user) \subseteq {q.target}
         /\ q.status = "completed" => q.date # None
    /\ q.op = "date" /\ q.stage = "write" =>
         rds[q.target].status = "completed" /\ ivs[q.target] = 0
    /\ q.op = "start" /\ q.stage = "write" =>
         rds[q.target].status = "completed" /\ ivs[q.target] = 0

\* What a transaction can count on.
Sound(q, rds, ivs) ==
    /\ IsTransaction(q)
    /\ q.op # "create" => q.target \in DOMAIN rds
    /\ q.op # "create" => rds[q.target].user = q.user
    /\ q.op = "date" => q.date # None
    /\ Protects(q) \subseteq Locking(q)
    /\ q.stage # "begun" => Protects(q) \subseteq q.held
    /\ Modest(q, rds)
    /\ Decided(q, rds, ivs)

RowsInv(rds, ivs) ==
    /\ DOMAIN rds \subseteq Ids
    /\ ivs \in [Ids -> Nat]
    /\ \A r \in DOMAIN rds : rds[r] \in Row /\ ValidStateDate(rds[r].status, rds[r].completed_on)
    /\ \A u \in Users : \A r, s \in ActiveRowsOf(rds, u) : r = s
    /\ \A r \in Ids : ivs[r] > 0 => /\ r \in DOMAIN rds /\ ivs[r] = 1
                                    /\ rds[r].status = "completed"

\* No two transactions hold locks that exclude each other.
Exclusive ==
    \A t, o \in Transactions : t # o =>
        \A k \in txn[t].held, l \in txn[o].held : ~Conflicts(k, l)

ReadingInv ==
    /\ RowsInv(readings, interviews)
    /\ DOMAIN txn = Transactions
    /\ \A t \in Transactions : txn[t] = Idle \/ Sound(txn[t], readings, interviews)
    /\ Exclusive

-------------------------------------------------------------------------------
(* Locks *)

LEMMA IdleHolds == Idle.op = "idle" /\ Idle.held = {}
BY DEF Idle

LEMMA ActiveTransactions ==
    ASSUME ReadingInv, NEW t \in Transactions, txn[t].op # "idle"
    PROVE  Sound(txn[t], readings, interviews)
BY IdleHolds DEF ReadingInv

\* What a lock excludes does not depend on who has it.
LEMMA ConflictsBothWays == \A k, l : Conflicts(k, l) <=> Conflicts(l, k)
BY DEF Conflicts

\* Two transactions that are past their first statement protect different rows.
LEMMA Apart ==
    ASSUME ReadingInv, NEW t \in Transactions, NEW o \in Transactions, t # o,
           Sound(txn[t], readings, interviews), txn[t].stage # "begun",
           Sound(txn[o], readings, interviews), txn[o].stage # "begun"
    PROVE  Protects(txn[t]) \cap Protects(txn[o]) = {}
<1> SUFFICES ASSUME NEW k \in Protects(txn[t]), k \in Protects(txn[o]) PROVE FALSE
  OBVIOUS
<1>1. k \in txn[t].held /\ k \in txn[o].held
  BY DEF Sound
<1>2. k # "share"
  BY LocksAssumption DEF Sound, Protects, IsTransaction, ReadingInv, RowsInv
<1> QED BY <1>1, <1>2 DEF ReadingInv, Exclusive, Conflicts

\* A transaction moves on without writing, or ends.
LEMMA MovesOn ==
    ASSUME ReadingInv, NEW t \in Transactions, NEW q, UNCHANGED tables,
           txn' = [txn EXCEPT ![t] = q], q = Idle \/ Sound(q, readings, interviews),
           \A o \in Transactions \ {t} : \A k \in q.held, l \in txn[o].held : ~Conflicts(k, l)
    PROVE  ReadingInv'
<1>1. UNCHANGED <<readings, interviews>>
  BY DEF tables
<1>2. DOMAIN txn' = Transactions /\ \A o \in Transactions : txn'[o] = IF o = t THEN q ELSE txn[o]
  BY DEF ReadingInv
<1>3. \A o \in Transactions : txn'[o] = Idle \/ Sound(txn'[o], readings', interviews')
  <2> TAKE o \in Transactions
  <2>1. txn'[o] = q \/ txn'[o] = txn[o]
    BY <1>2
  <2> QED BY <1>1, <2>1 DEF ReadingInv
<1>4. Exclusive'
  <2> SUFFICES ASSUME NEW s \in Transactions, NEW o \in Transactions, s # o,
                      NEW k \in txn'[s].held, NEW l \in txn'[o].held
               PROVE  ~Conflicts(k, l)
    BY DEF Exclusive
  <2>1. CASE s # t /\ o # t
    BY <1>2, <2>1 DEF ReadingInv, Exclusive
  <2>2. CASE s = t
    BY <1>2, <2>2
  <2>3. CASE o = t
    <3>1. ~Conflicts(l, k)
      BY <1>2, <2>3
    <3> QED BY <3>1, ConflictsBothWays
  <2> QED BY <2>1, <2>2, <2>3
<1>5. RowsInv(readings', interviews')
  BY <1>1 DEF ReadingInv
<1> QED BY <1>2, <1>3, <1>4, <1>5 DEF ReadingInv

\* A transaction keeps its locks.
LEMMA HoldsOn ==
    ASSUME ReadingInv, NEW t \in Transactions, NEW q, UNCHANGED tables,
           txn' = [txn EXCEPT ![t] = q], Sound(q, readings, interviews), q.held = txn[t].held
    PROVE  ReadingInv'
<1>1. \A o \in Transactions \ {t} : \A k \in q.held, l \in txn[o].held : ~Conflicts(k, l)
  BY DEF ReadingInv, Exclusive
<1> QED BY <1>1, MovesOn

\* A transaction that writes ends, and releases its locks.
LEMMA Writes ==
    ASSUME ReadingInv, NEW t \in Transactions, txn' = [txn EXCEPT ![t] = Idle],
           RowsInv(readings', interviews'),
           \A o \in Transactions \ {t} :
             Sound(txn[o], readings, interviews) => Sound(txn[o], readings', interviews')
    PROVE  ReadingInv'
<1>1. DOMAIN txn' = Transactions /\ \A o \in Transactions : txn'[o] = IF o = t THEN Idle ELSE txn[o]
  BY DEF ReadingInv
<1>2. \A o \in Transactions : txn'[o] = Idle \/ Sound(txn'[o], readings', interviews')
  <2> SUFFICES ASSUME NEW o \in Transactions, o # t
               PROVE  txn'[o] = Idle \/ Sound(txn'[o], readings', interviews')
    BY <1>1
  <2>1. txn'[o] = txn[o] /\ (txn[o] = Idle \/ Sound(txn[o], readings, interviews))
    BY <1>1 DEF ReadingInv
  <2> QED BY <2>1
<1>3. Exclusive'
  BY <1>1, IdleHolds DEF ReadingInv, Exclusive
<1> QED BY <1>1, <1>2, <1>3 DEF ReadingInv

-------------------------------------------------------------------------------
(* Every step keeps the invariant *)

LEMMA InitInv == ReadingInit => ReadingInv
<1> SUFFICES ASSUME ReadingInit PROVE ReadingInv
  OBVIOUS
<1>1. DOMAIN readings = {}
  BY DEF ReadingInit
<1>2. RowsInv(readings, interviews)
  BY <1>1 DEF ReadingInit, RowsInv, ActiveRowsOf, RowsOf
<1> QED BY <1>2, IdleHolds DEF ReadingInit, ReadingInv, Exclusive

\* Short sequences, and one with an element put before it.
LEMMA Tuples ==
    ASSUME NEW S, NEW a \in S, NEW b \in S, NEW c \in S
    PROVE  /\ <<a>> \in Seq(S) /\ <<a>>[1] = a /\ DOMAIN <<a>> = {1}
           /\ <<a, b>> \in Seq(S) /\ <<a, b>>[1] = a /\ 1 \in DOMAIN <<a, b>>
           /\ <<a, b, c>> \in Seq(S) /\ <<a, b, c>>[1] = a /\ <<a, b, c>>[2] = b
           /\ 1 \in DOMAIN <<a, b, c>> /\ 2 \in DOMAIN <<a, b, c>>
           /\ \A i \in DOMAIN <<a, b>> : <<a, b>>[i] \in {a, b}
           /\ \A i \in DOMAIN <<a, b, c>> : <<a, b, c>>[i] \in {a, b, c}
OBVIOUS

LEMMA Prepended ==
    ASSUME NEW S, NEW a \in S, NEW s \in Seq(S)
    PROVE  /\ <<a>> \o s \in Seq(S) /\ DOMAIN (<<a>> \o s) = 1..(Len(s) + 1)
           /\ (<<a>> \o s)[1] = a
           /\ \A i \in 1..Len(s) : (<<a>> \o s)[i + 1] = s[i]
<1>1. <<a>> \in Seq(S) /\ Len(<<a>>) = 1 /\ <<a>>[1] = a
  OBVIOUS
<1> DEFINE h == <<a>>
<1>2. h \in Seq(S) /\ Len(h) = 1 /\ h[1] = a
  BY <1>1
<1> HIDE DEF h
<1>3. h \o s \in Seq(S) /\ Len(h \o s) = Len(s) + 1
      /\ \A i \in 1..(Len(s) + 1) : (h \o s)[i] = IF i <= 1 THEN h[i] ELSE s[i - 1]
  <2>1. h \in Seq(S) /\ s \in Seq(S)
    BY <1>2
  <2>2. /\ h \o s \in Seq(S) /\ Len(h \o s) = Len(h) + Len(s)
        /\ \A i \in 1..Len(h) + Len(s) : (h \o s)[i] = IF i <= Len(h) THEN h[i] ELSE s[i - Len(h)]
    BY <2>1, ConcatProperties
  <2>3. Len(s) \in Nat
    OBVIOUS
  <2> HIDE DEF h
  <2>4. Len(h) + Len(s) = Len(s) + 1
    BY <1>2, <2>3
  <2> QED BY <1>2, <2>2, <2>4
<1>4. Len(s) \in Nat
  OBVIOUS
<1>5. (h \o s)[1] = a
  BY <1>2, <1>3, <1>4
<1>6. ASSUME NEW i \in 1..Len(s) PROVE (h \o s)[i + 1] = s[i]
  <2>1. i + 1 \in 1..(Len(s) + 1) /\ ~(i + 1 <= 1) /\ (i + 1) - 1 = i
    BY <1>4
  <2>2. (h \o s)[i + 1] = s[(i + 1) - 1]
    BY <1>3, <2>1
  <2> QED BY <2>1, <2>2
<1>7. DOMAIN (h \o s) = 1..(Len(s) + 1)
  BY <1>3
<1> QED BY <1>3, <1>5, <1>6, <1>7 DEF h

LEMMA BeginInv ==
    ASSUME ReadingInv, NEW t \in Transactions,
           NEW op \in {"create", "reread", "change", "date", "start"},
           NEW u \in Users, NEW r \in DOMAIN readings \cup {None},
           NEW status \in Statuses, NEW date \in Dates \cup {None},
           op # "create" => r \in DOMAIN readings /\ readings[r].user = u,
           op = "date" => date # None,
           Begin(t, op, u, r, status, date)
    PROVE  ReadingInv'
<1> DEFINE q == [op |-> op, user |-> u, target |-> r, status |-> status, date |-> date,
                 stage |-> "begun", wants |-> FirstLocks(op, u, r), held |-> {}]
<1>1. DOMAIN readings \subseteq Ids
  BY DEF ReadingInv, RowsInv
<1>2. /\ q.wants \in Seq(SUBSET Keys) /\ Protects(q) \subseteq Locking(q)
      /\ \A i \in DOMAIN q.wants : \/ q.wants[i] \in {{u}, {"book"}}
                                   \/ op # "create" /\ q.wants[i] = {r}
  <2>1. CASE op \in {"create", "reread"}
    <3>1. q.wants = <<{u}>>
      BY <2>1 DEF FirstLocks, UserLock
    <3>2. q.wants[1] = {u} /\ DOMAIN q.wants = {1} /\ q.wants \in Seq(SUBSET Keys)
      <4>1. {u} \in SUBSET Keys
        BY DEF Keys
      <4> HIDE DEF q
      <4> QED BY <3>1, <4>1, Tuples
    <3>3. u \in Locking(q)
      BY <3>2 DEF Locking, Keys
    <3>4. \A i \in DOMAIN q.wants : q.wants[i] = {u}
      <4> HIDE DEF q
      <4> QED BY <3>2
    <3> QED BY <3>2, <3>3, <3>4, <2>1 DEF Protects
  <2>2. CASE op \in {"change", "date"}
    <3>1. q.wants = <<{r}, {u}, {"book"}>> /\ r \in Ids
      BY <2>2, <1>1 DEF FirstLocks, ReadingLocks
    <3>2. /\ q.wants[1] = {r} /\ q.wants[2] = {u} /\ 1 \in DOMAIN q.wants /\ 2 \in DOMAIN q.wants
          /\ q.wants \in Seq(SUBSET Keys)
          /\ \A i \in DOMAIN q.wants : q.wants[i] \in {{r}, {u}, {"book"}}
      <4>1. {r} \in SUBSET Keys /\ {u} \in SUBSET Keys /\ {"book"} \in SUBSET Keys
        BY <3>1 DEF Keys
      <4> HIDE DEF q
      <4> QED BY <3>1, <4>1, Tuples
    <3>3. u \in Locking(q) /\ r \in Locking(q)
      BY <3>1, <3>2 DEF Locking, Keys
    <3> QED BY <3>2, <3>3, <2>2 DEF Protects
  <2>3. CASE op = "start"
    <3>1. q.wants = <<{r}, {"book"}>> /\ r \in Ids
      BY <2>3, <1>1 DEF FirstLocks, StartLocks
    <3>2. /\ q.wants[1] = {r} /\ 1 \in DOMAIN q.wants /\ q.wants \in Seq(SUBSET Keys)
          /\ \A i \in DOMAIN q.wants : q.wants[i] \in {{r}, {"book"}}
      <4>1. {r} \in SUBSET Keys /\ {"book"} \in SUBSET Keys
        BY <3>1 DEF Keys
      <4> HIDE DEF q
      <4> QED BY <3>1, <4>1, Tuples
    <3>3. r \in Locking(q)
      BY <3>1, <3>2 DEF Locking, Keys
    <3> QED BY <3>2, <3>3, <2>3 DEF Protects
  <2> QED BY <2>1, <2>2, <2>3
<1>3. IsTransaction(q)
  BY <1>1, <1>2 DEF IsTransaction
<1>4. Decided(q, readings, interviews)
  BY DEF Decided
<1>5. Modest(q, readings)
  <2>1. u # "share" /\ (r # "share" \/ op = "create")
    BY <1>1, LocksAssumption
  <2>2. op # "create" => r \in RowsOf(readings, u)
    BY DEF RowsOf
  <2>3. \A i \in DOMAIN q.wants : q.wants[i] \subseteq Lockable(u, readings) /\ "share" \notin q.wants[i]
    <3> TAKE i \in DOMAIN q.wants
    <3>1. CASE q.wants[i] = {u}
      BY <3>1, LocksAssumption DEF Lockable
    <3>2. CASE q.wants[i] = {"book"}
      BY <3>2 DEF Lockable
    <3>3. CASE op # "create" /\ q.wants[i] = {r}
      BY <2>1, <2>2, <3>3 DEF Lockable
    <3> QED BY <1>2, <3>1, <3>2, <3>3
  <2>4. q.held = {} /\ q.stage = "begun" /\ q.user = u
    OBVIOUS
  <2> HIDE DEF q
  <2> QED BY <2>3, <2>4 DEF Modest
<1>6. Sound(q, readings, interviews)
  BY <1>2, <1>3, <1>4, <1>5 DEF Sound
<1>7. txn' = [txn EXCEPT ![t] = q] /\ UNCHANGED tables /\ q.held = {}
  BY DEF Begin
<1> HIDE DEF q
<1> QED BY <1>6, <1>7, MovesOn

LEMMA RequestInv ==
    ASSUME ReadingInv, NEW t \in Transactions, Request(t) PROVE ReadingInv'
<1>1. PICK date \in Dates \cup {None} :
        \/ \E u \in Users, status \in Statuses : Begin(t, "create", u, None, status, date)
        \/ \E r \in DOMAIN readings :
             LET u == readings[r].user IN
             \/ \E status \in Statuses :
                  \/ Begin(t, "reread", u, r, status, date)
                  \/ Begin(t, "change", u, r, status, date)
             \/ date # None /\ Begin(t, "date", u, r, "completed", date)
             \/ Begin(t, "start", u, r, "completed", date)
  BY DEF Request
<1>2. \A r \in DOMAIN readings : readings[r].user \in Users
  BY DEF ReadingInv, RowsInv, Row
<1>3. "completed" \in Statuses
  BY DEF Statuses
<1>4. CASE \E u \in Users, status \in Statuses : Begin(t, "create", u, None, status, date)
  BY <1>4, BeginInv
<1>5. CASE \E r \in DOMAIN readings, status \in Statuses, op \in {"reread", "change", "date", "start"} :
             /\ op = "date" => date # None
             /\ Begin(t, op, readings[r].user, r, status, date)
  <2>1. PICK r \in DOMAIN readings, status \in Statuses, op \in {"reread", "change", "date", "start"} :
               /\ op = "date" => date # None
               /\ Begin(t, op, readings[r].user, r, status, date)
    BY <1>5
  <2>2. readings[r].user \in Users /\ r \in DOMAIN readings \cup {None}
        /\ op \in {"create", "reread", "change", "date", "start"}
    BY <1>2
  <2> HIDE DEF ReadingInv
  <2> QED BY <2>1, <2>2, BeginInv
<1> QED BY <1>1, <1>3, <1>4, <1>5

LEMMA RemainingKeeps ==
    ASSUME NEW w \in Seq(SUBSET Keys), w # <<>>, NEW k \in Head(w)
    PROVE  /\ Remaining(w, k) \in Seq(SUBSET Keys)
           /\ \A i \in DOMAIN w : \A x \in w[i] :
                x = k \/ \E j \in DOMAIN Remaining(w, k) : x \in Remaining(w, k)[j]
           /\ \A j \in DOMAIN Remaining(w, k) : \E i \in DOMAIN w : Remaining(w, k)[j] \subseteq w[i]
           /\ k \in w[1] /\ 1 \in DOMAIN w
<1>1. /\ Tail(w) \in Seq(SUBSET Keys) /\ Len(Tail(w)) = Len(w) - 1 /\ Head(w) = w[1]
      /\ Head(w) \in SUBSET Keys /\ Len(w) \in Nat /\ Len(w) >= 1 /\ DOMAIN w = 1..Len(w)
      /\ \A j \in 1..Len(Tail(w)) : Tail(w)[j] = w[j + 1]
  OBVIOUS
<1>2. CASE Head(w) = {k}
  <2>1. Remaining(w, k) = Tail(w) /\ DOMAIN Tail(w) = 1..(Len(w) - 1)
    BY <1>1, <1>2 DEF Remaining
  <2>2. ASSUME NEW i \in DOMAIN w, NEW x \in w[i], x # k
        PROVE  \E j \in DOMAIN Remaining(w, k) : x \in Remaining(w, k)[j]
    <3>1. i # 1
      BY <1>1, <1>2, <2>2
    <3>2. i - 1 \in DOMAIN Tail(w) /\ Tail(w)[i - 1] = w[i]
      BY <1>1, <2>1, <3>1
    <3> QED BY <2>1, <2>2, <3>2
  <2>3. \A j \in DOMAIN Tail(w) : j + 1 \in DOMAIN w /\ Tail(w)[j] = w[j + 1]
    BY <1>1, <2>1
  <2> QED BY <1>1, <2>1, <2>2, <2>3
<1>3. CASE Head(w) # {k}
  <2> DEFINE v == <<Head(w) \ {k}>> \o Tail(w)
  <2>1. Remaining(w, k) = v
    BY <1>3 DEF Remaining
  <2>2. Head(w) \ {k} \in SUBSET Keys
    BY <1>1
  <2>3. v \in Seq(SUBSET Keys) /\ DOMAIN v = 1..(Len(Tail(w)) + 1)
    BY <1>1, <2>2, Prepended
  <2>4. v[1] = Head(w) \ {k} /\ \A i \in 1..Len(Tail(w)) : v[i + 1] = Tail(w)[i]
    BY <1>1, <2>2, Prepended
  <2> HIDE DEF v
  <2>5. ASSUME NEW i \in DOMAIN w, NEW x \in w[i], x # k
        PROVE  i \in DOMAIN v /\ x \in v[i]
    <3>1. i \in 1..Len(w)
      BY <1>1
    <3>2. CASE i = 1
      BY <1>1, <2>3, <2>4, <2>5, <3>2
    <3>3. CASE i # 1
      <4>1. i - 1 \in 1..Len(Tail(w)) /\ (i - 1) + 1 = i
        BY <1>1, <3>1, <3>3
      <4>2. v[i] = w[i]
        BY <1>1, <2>4, <4>1
      <4> QED BY <2>3, <2>5, <3>1, <4>2
    <3> QED BY <3>2, <3>3
  <2>6. ASSUME NEW j \in DOMAIN v PROVE \E i \in DOMAIN w : v[j] \subseteq w[i]
    <3>1. CASE j = 1
      BY <1>1, <2>4, <3>1
    <3>2. CASE j # 1
      <4>1. j - 1 \in 1..Len(Tail(w)) /\ (j - 1) + 1 = j /\ j \in DOMAIN w
        BY <1>1, <2>3, <2>6, <3>2
      <4>2. v[j] = w[j]
        BY <1>1, <2>4, <4>1
      <4> QED BY <4>1, <4>2
    <3> QED BY <3>1, <3>2
  <2> QED BY <1>1, <2>1, <2>3, <2>5, <2>6
<1> QED BY <1>2, <1>3

LEMMA AcquireInv ==
    ASSUME ReadingInv, NEW t \in Transactions, NEW k \in Keys, Acquire(t, k)
    PROVE  ReadingInv'
<1> DEFINE p == txn[t]
           q == [txn[t] EXCEPT !.held = txn[t].held \cup {k}, !.wants = Remaining(txn[t].wants, k)]
<1>1. Sound(p, readings, interviews) /\ p.wants # <<>> /\ k \in Head(p.wants)
  BY DEF Acquire, ReadingInv
<1>2. DOMAIN p = {"op", "user", "target", "status", "date", "stage", "wants", "held"}
  BY <1>1 DEF Sound, IsTransaction
<1>3. /\ q.op = p.op /\ q.user = p.user /\ q.target = p.target /\ q.status = p.status
      /\ q.date = p.date /\ q.stage = p.stage /\ DOMAIN q = DOMAIN p
      /\ q.held = p.held \cup {k} /\ q.wants = Remaining(p.wants, k)
  BY <1>2
<1>4. txn' = [txn EXCEPT ![t] = q] /\ UNCHANGED tables
  BY DEF Acquire
<1>5. \A o \in Transactions \ {t} : \A l \in txn[o].held : ~Conflicts(k, l)
  BY DEF Acquire
<1> HIDE DEF p, q
<1>6. p = txn[t]
  BY DEF p
<1>7. IsTransaction(q)
  <2>1. q.wants \in Seq(SUBSET Keys)
    BY <1>1, <1>3, RemainingKeeps DEF Sound, IsTransaction
  <2> QED BY <1>1, <1>3, <2>1 DEF Sound, IsTransaction
<1>8. Protects(q) = Protects(p)
  BY <1>3 DEF Protects
<1>9. Protects(q) \subseteq Locking(q)
  <2>1. CASE p.stage # "begun"
    BY <1>1, <1>3, <1>8, <2>1 DEF Sound, Locking
  <2>2. CASE p.stage = "begun"
    <3>1. p.wants \in Seq(SUBSET Keys)
      BY <1>1 DEF Sound, IsTransaction
    <3>2. \A i \in DOMAIN p.wants : \A x \in p.wants[i] :
            x = k \/ \E j \in DOMAIN q.wants : x \in q.wants[j]
      BY <1>1, <1>3, <3>1, RemainingKeeps
    <3>3. Locking(p) \subseteq Locking(q)
      BY <1>3, <3>2 DEF Locking
    <3> QED BY <1>1, <1>8, <3>3 DEF Sound
  <2> QED BY <2>1, <2>2
<1>10. Decided(q, readings, interviews)
  BY <1>1, <1>3 DEF Sound, Decided
<1>11. Modest(q, readings)
  <2>1. p.wants \in Seq(SUBSET Keys) /\ Modest(p, readings)
    BY <1>1 DEF Sound, IsTransaction
  <2>2. /\ \A j \in DOMAIN q.wants : \E i \in DOMAIN p.wants : q.wants[j] \subseteq p.wants[i]
        /\ k \in p.wants[1] /\ 1 \in DOMAIN p.wants
    BY <1>1, <1>3, <2>1, RemainingKeeps
  <2>3. CASE p.stage = "insert"
    <3>1. p.wants = <<{"share"}>>
      BY <1>1, <2>1, <2>3 DEF Modest
    <3>2. p.wants[1] = {"share"} /\ Head(p.wants) = {"share"} /\ Tail(p.wants) = <<>>
      BY <3>1
    <3>3. k = "share"
      BY <2>2, <3>2
    <3>4. q.wants = <<>> /\ DOMAIN q.wants = {}
      BY <1>3, <3>2, <3>3 DEF Remaining
    <3> QED BY <1>3, <2>1, <2>3, <3>3, <3>4 DEF Modest, Lockable
  <2>4. CASE p.stage # "insert"
    BY <1>3, <2>1, <2>2, <2>4 DEF Modest
  <2> QED BY <2>3, <2>4
<1>12. Sound(q, readings, interviews)
  BY <1>1, <1>3, <1>7, <1>8, <1>9, <1>10, <1>11 DEF Sound
<1>13. \A o \in Transactions \ {t} : \A j \in q.held, l \in txn[o].held : ~Conflicts(j, l)
  BY <1>3, <1>5, <1>6 DEF ReadingInv, Exclusive
<1> QED BY <1>4, <1>12, <1>13, MovesOn

\* Between two statements of a transaction: it holds what protects its
\* decision, and the decision is what the tables say now.
LEMMA StatementInv ==
    ASSUME ReadingInv, NEW t \in Transactions, NEW stage, NEW locks \in Seq(SUBSET Keys),
           stage \in {"source", "history", "insert", "write", "conflict"},
           txn[t].op # "idle", txn[t].stage # "insert", txn[t].wants = <<>>,
           Statement(t, stage, locks),
           IF stage = "insert" THEN locks = <<{"share"}>>
           ELSE \A i \in DOMAIN locks :
                  locks[i] \subseteq Lockable(txn[t].user, readings) \ {"share"},
           \A q : /\ q.op = txn[t].op /\ q.user = txn[t].user /\ q.target = txn[t].target
                  /\ q.status = txn[t].status /\ q.date = txn[t].date /\ q.stage = stage
                  => Decided(q, readings, interviews)
    PROVE  ReadingInv'
<1> DEFINE p == txn[t]
           q == [txn[t] EXCEPT !.stage = stage, !.wants = locks]
<1>1. Sound(p, readings, interviews)
  BY ActiveTransactions
<1>2. DOMAIN p = {"op", "user", "target", "status", "date", "stage", "wants", "held"}
  BY <1>1 DEF Sound, IsTransaction
<1>3. /\ q.op = p.op /\ q.user = p.user /\ q.target = p.target /\ q.status = p.status
      /\ q.date = p.date /\ q.stage = stage /\ DOMAIN q = DOMAIN p /\ q.held = p.held
      /\ q.wants = locks
  BY <1>2
<1>4. txn' = [txn EXCEPT ![t] = q] /\ UNCHANGED tables
  BY DEF Statement
<1>5. p.wants = <<>> /\ p = txn[t]
  OBVIOUS
<1> HIDE DEF p, q
<1>6. Decided(q, readings, interviews)
  BY <1>3, <1>5
<1>7. Protects(q) \subseteq q.held
  <2>1. Protects(q) = Protects(p)
    BY <1>3 DEF Protects
  <2>2. DOMAIN p.wants = {}
    BY <1>5
  <2>3. Locking(p) = p.held
    BY <2>2 DEF Locking
  <2> QED BY <1>1, <1>3, <2>1, <2>3 DEF Sound
<1>8. IsTransaction(q)
  BY <1>1, <1>3 DEF Sound, IsTransaction
<1>9. Modest(q, readings)
  <2>1. /\ p.held \subseteq Lockable(p.user, readings) /\ "share" \notin p.held
    BY <1>1, <1>5 DEF Sound, Modest
  <2>2. CASE stage = "insert"
    <3>1. locks = <<{"share"}>> /\ \A i \in DOMAIN locks : locks[i] = {"share"}
      BY <2>2
    <3> QED BY <1>3, <2>1, <2>2, <3>1 DEF Modest, Lockable
  <2>3. CASE stage # "insert"
    BY <1>3, <1>5, <2>1, <2>3 DEF Modest
  <2> QED BY <2>2, <2>3
<1>10. Sound(q, readings, interviews)
  BY <1>1, <1>3, <1>6, <1>7, <1>8, <1>9 DEF Sound, Locking
<1> QED BY <1>3, <1>4, <1>5, <1>10, HoldsOn

\* No lock to wait for.
LEMMA NoLocks == <<>> \in Seq(SUBSET Keys) /\ DOMAIN <<>> = {}
OBVIOUS

LEMMA LocksInv ==
    ASSUME ReadingInv, NEW t \in Transactions, LockSource(t) \/ LockHistory(t)
    PROVE  ReadingInv'
<1>1. CASE LockSource(t)
  <2> DEFINE r == txn[t].target
             locks == StartLocks(r)
  <2>1. /\ txn[t].op = "reread" /\ txn[t].wants = <<>> /\ txn[t].stage = "begun"
        /\ Statement(t, "source", locks)
    BY <1>1 DEF LockSource, At
  <2>2. \A q : q.op = "reread" /\ q.stage = "source" => Decided(q, readings, interviews)
    BY DEF Decided
  <2>3. r \in RowsOf(readings, txn[t].user) /\ r \in Ids
    BY <2>1, ActiveTransactions DEF Sound, ReadingInv, RowsInv, RowsOf
  <2>4. {r} \in SUBSET Keys /\ {"book"} \in SUBSET Keys
    BY <2>3 DEF Keys
  <2>5. locks = <<{r}, {"book"}>>
    BY DEF StartLocks
  <2> HIDE DEF locks, r
  <2>6. locks \in Seq(SUBSET Keys) /\ \A i \in DOMAIN locks : locks[i] \in {{r}, {"book"}}
    BY <2>4, <2>5, Tuples
  <2>7. \A i \in DOMAIN locks : locks[i] \subseteq Lockable(txn[t].user, readings) \ {"share"}
    BY <2>3, <2>6, LocksAssumption DEF Lockable
  <2> QED BY <2>1, <2>2, <2>6, <2>7, StatementInv
<1>2. CASE LockHistory(t)
  <2> DEFINE rows == ReadingsOf(txn[t].user)
             locks == Found(rows)
  <2>1. /\ txn[t].op \in {"create", "reread"} /\ txn[t].wants = <<>>
        /\ txn[t].stage \in {"begun", "source"} /\ Statement(t, "history", locks)
    BY <1>2 DEF LockHistory, At
  <2>2. \A q : q.op \in {"create", "reread"} /\ q.stage = "history" => Decided(q, readings, interviews)
    BY DEF Decided
  <2>3. rows \subseteq RowsOf(readings, txn[t].user) /\ rows \in SUBSET Keys /\ "share" \notin rows
    BY LocksAssumption DEF ReadingsOf, RowsOf, ReadingInv, RowsInv, Keys
  <2>4. locks = IF rows = {} THEN <<>> ELSE <<rows>>
    BY DEF Found
  <2> HIDE DEF locks, rows
  <2>5. locks \in Seq(SUBSET Keys) /\ \A i \in DOMAIN locks : locks[i] = rows
    <3>1. CASE rows = {}
      BY <2>4, <3>1, NoLocks
    <3>2. CASE rows # {}
      <4>1. <<rows>> \in Seq(SUBSET Keys) /\ <<rows>>[1] = rows /\ DOMAIN <<rows>> = {1}
        BY <2>3, Tuples
      <4> QED BY <2>4, <3>2, <4>1
    <3> QED BY <3>1, <3>2
  <2>6. \A i \in DOMAIN locks : locks[i] \subseteq Lockable(txn[t].user, readings) \ {"share"}
    BY <2>3, <2>5 DEF Lockable
  <2> QED BY <2>1, <2>2, <2>5, <2>6, StatementInv
<1> QED BY <1>1, <1>2

LEMMA CheckHistoryInv ==
    ASSUME ReadingInv, NEW t \in Transactions, CheckHistory(t) PROVE ReadingInv'
<1>1. /\ txn[t].op \in {"create", "reread"} /\ txn[t].wants = <<>> /\ txn[t].stage = "history"
      /\ Statement(t, "insert", <<{"share"}>>)
  BY DEF CheckHistory, At
<1>2. /\ ActiveRowsOf(readings, txn[t].user) = {}
      /\ txn[t].op = "create" => RowsOf(readings, txn[t].user) = {}
      /\ ValidStateDate(txn[t].status, txn[t].date)
  BY DEF CheckHistory, ActiveOf, ReadingsOf, ActiveRowsOf, RowsOf
<1>3. ASSUME NEW q, q.op = txn[t].op, q.user = txn[t].user, q.status = txn[t].status,
             q.date = txn[t].date, q.stage = "insert"
      PROVE  Decided(q, readings, interviews)
  BY <1>1, <1>2, <1>3 DEF Decided
<1>4. <<{"share"}>> \in Seq(SUBSET Keys)
  BY DEF Keys
<1> QED BY <1>1, <1>3, <1>4, StatementInv

LEMMA CheckChangeInv ==
    ASSUME ReadingInv, NEW t \in Transactions, CheckChange(t) PROVE ReadingInv'
<1>1. /\ txn[t].op = "change" /\ txn[t].wants = <<>> /\ txn[t].stage = "begun"
      /\ interviews[txn[t].target] = 0 /\ readings[txn[t].target].status # txn[t].status
  BY DEF CheckChange, At
<1>2. CASE /\ \/ txn[t].status = "completed" /\ txn[t].date # None
              \/ txn[t].status \in Active /\ ActiveOf(txn[t].user) \ {txn[t].target} = {}
           /\ Statement(t, "write", <<>>)
  <2>1. /\ txn[t].status \in Active => ActiveRowsOf(readings, txn[t].user) \subseteq {txn[t].target}
        /\ txn[t].status = "completed" => txn[t].date # None
    BY <1>2 DEF Active, ActiveOf, ReadingsOf, ActiveRowsOf, RowsOf
  <2>2. ASSUME NEW q, q.op = txn[t].op, q.user = txn[t].user, q.target = txn[t].target,
               q.status = txn[t].status, q.date = txn[t].date, q.stage = "write"
        PROVE  Decided(q, readings, interviews)
    BY <1>1, <2>1, <2>2 DEF Decided
  <2> QED BY <1>1, <1>2, <2>2, NoLocks, StatementInv
<1>3. CASE \E o \in ActiveOf(txn[t].user) : Statement(t, "conflict", <<{o}>>)
  <2>1. \A q : q.op = "change" /\ q.stage = "conflict" => Decided(q, readings, interviews)
    BY DEF Decided
  <2>2. PICK o \in ActiveOf(txn[t].user) : Statement(t, "conflict", <<{o}>>)
    BY <1>3
  <2>3. o \in RowsOf(readings, txn[t].user) /\ o \in Ids /\ o # "share"
    BY LocksAssumption DEF ActiveOf, ReadingsOf, RowsOf, ReadingInv, RowsInv
  <2>4. {o} \in SUBSET Keys
    BY <2>3 DEF Keys
  <2> DEFINE locks == <<{o}>>
  <2>5. locks \in Seq(SUBSET Keys) /\ \A i \in DOMAIN locks : locks[i] = {o}
    BY <2>4, Tuples
  <2> HIDE DEF locks
  <2>6. \A i \in DOMAIN locks : locks[i] \subseteq Lockable(txn[t].user, readings) \ {"share"}
    BY <2>3, <2>5 DEF Lockable
  <2>7. Statement(t, "conflict", locks)
    BY <2>2 DEF locks
  <2> QED BY <1>1, <2>1, <2>5, <2>6, <2>7, StatementInv
<1> QED BY <1>2, <1>3 DEF CheckChange

LEMMA CheckInv ==
    ASSUME ReadingInv, NEW t \in Transactions, CheckDate(t) \/ CheckStart(t) PROVE ReadingInv'
<1>1. /\ txn[t].op \in {"date", "start"} /\ txn[t].wants = <<>> /\ txn[t].stage = "begun"
      /\ readings[txn[t].target].status = "completed" /\ interviews[txn[t].target] = 0
      /\ Statement(t, "write", <<>>)
  BY DEF CheckDate, CheckStart, At
<1>2. ASSUME NEW q, q.op = txn[t].op, q.target = txn[t].target, q.stage = "write"
      PROVE  Decided(q, readings, interviews)
  BY <1>1, <1>2 DEF Decided
<1> QED BY <1>1, <1>2, NoLocks, StatementInv

LEMMA EndInv ==
    ASSUME ReadingInv, NEW t \in Transactions, EndUnchanged(t) PROVE ReadingInv'
BY IdleHolds, MovesOn DEF EndUnchanged, Release

LEMMA InsertReadingInv ==
    ASSUME ReadingInv, NEW t \in Transactions, InsertReading(t) PROVE ReadingInv'
<1> DEFINE p == txn[t]
<1>1. /\ p.op \in {"create", "reread"} /\ p.stage = "insert" /\ UNCHANGED interviews
      /\ txn' = [txn EXCEPT ![t] = Idle]
  BY DEF InsertReading, At, Release
<1>2. PICK r \in Ids \ DOMAIN readings :
        readings' = [i \in DOMAIN readings \cup {r} |->
                       IF i = r THEN [user |-> p.user, status |-> p.status,
                                      completed_on |-> p.date]
                       ELSE readings[i]]
  BY DEF InsertReading
<1>3. Sound(p, readings, interviews)
  BY <1>1, ActiveTransactions
<1>4. /\ ActiveRowsOf(readings, p.user) = {} /\ ValidStateDate(p.status, p.date)
      /\ p.user \in Users /\ p.status \in Statuses /\ p.date \in Dates \cup {None}
  BY <1>1, <1>3 DEF Sound, Decided, IsTransaction
<1>5. /\ DOMAIN readings' = DOMAIN readings \cup {r}
      /\ readings'[r].user = p.user /\ readings'[r].status = p.status
      /\ readings'[r].completed_on = p.date /\ readings'[r] \in Row
      /\ \A i \in DOMAIN readings : readings'[i] = readings[i]
  BY <1>2, <1>4 DEF Row
<1>6. \A u : u # p.user => /\ RowsOf(readings', u) = RowsOf(readings, u)
                           /\ ActiveRowsOf(readings', u) = ActiveRowsOf(readings, u)
  BY <1>2, <1>5 DEF RowsOf, ActiveRowsOf
<1>7. ActiveRowsOf(readings', p.user) \subseteq {r}
  BY <1>4, <1>5 DEF RowsOf, ActiveRowsOf
<1>8. RowsInv(readings', interviews')
  <2> USE <1>1 DEF ReadingInv, RowsInv
  <2>1. DOMAIN readings' \subseteq Ids /\ interviews' \in [Ids -> Nat]
    BY <1>5
  <2>2. \A i \in DOMAIN readings' :
          readings'[i] \in Row /\ ValidStateDate(readings'[i].status, readings'[i].completed_on)
    BY <1>4, <1>5
  <2>3. \A u \in Users : \A i, j \in ActiveRowsOf(readings', u) : i = j
    BY <1>6, <1>7
  <2>4. \A i \in Ids : interviews'[i] > 0 => /\ i \in DOMAIN readings' /\ interviews'[i] = 1
                                             /\ readings'[i].status = "completed"
    BY <1>5
  <2> QED BY <2>1, <2>2, <2>3, <2>4
<1>9. ASSUME NEW o \in Transactions \ {t}, Sound(txn[o], readings, interviews)
      PROVE  Sound(txn[o], readings', interviews')
  <2>1. txn[o].stage # "begun" /\ txn[o].op # "start" => txn[o].user # p.user
    BY <1>1, <1>3, <1>9, Apart DEF Protects, Sound, IsTransaction
  <2>2. txn[o].op # "create" => /\ txn[o].target \in DOMAIN readings'
                                /\ readings'[txn[o].target] = readings[txn[o].target]
    BY <1>5, <1>9 DEF Sound
  <2>3. Decided(txn[o], readings', interviews')
    BY <1>1, <1>6, <1>9, <2>1, <2>2 DEF Sound, Decided
  <2>4. RowsOf(readings, txn[o].user) \subseteq RowsOf(readings', txn[o].user)
    BY <1>5 DEF RowsOf
  <2>5. Modest(txn[o], readings')
    BY <1>9, <2>4 DEF Sound, Modest, Lockable
  <2> QED BY <1>9, <2>2, <2>3, <2>5 DEF Sound
<1> HIDE DEF p
<1> QED BY <1>1, <1>8, <1>9, Writes

\* An update of one Reading that its transaction has locked with its user.
LEMMA RowUpdated ==
    ASSUME ReadingInv, NEW t \in Transactions, txn[t].op \in {"change", "date"},
           txn[t].stage = "write", txn' = [txn EXCEPT ![t] = Idle], UNCHANGED interviews,
           NEW x, x = txn[t].target, interviews[x] = 0,
           DOMAIN readings' = DOMAIN readings,
           \A i \in DOMAIN readings \ {x} : readings'[i] = readings[i],
           readings'[x] \in Row, readings'[x].user = readings[x].user,
           ValidStateDate(readings'[x].status, readings'[x].completed_on),
           readings'[x].status \in Active => ActiveRowsOf(readings, txn[t].user) \subseteq {x}
    PROVE  ReadingInv'
<1> DEFINE p == txn[t]
<1>1. Sound(p, readings, interviews)
  BY ActiveTransactions
<1>2. x \in DOMAIN readings /\ readings[x].user = p.user /\ DOMAIN readings \subseteq Ids
  BY <1>1 DEF Sound, ReadingInv, RowsInv
<1>3. \A u : RowsOf(readings', u) = RowsOf(readings, u)
  BY DEF RowsOf
<1>4. \A u : u # p.user => ActiveRowsOf(readings', u) = ActiveRowsOf(readings, u)
  BY <1>2, <1>3 DEF RowsOf, ActiveRowsOf
<1>5. \/ ActiveRowsOf(readings', p.user) \subseteq {x}
      \/ ActiveRowsOf(readings', p.user) \subseteq ActiveRowsOf(readings, p.user)
  BY <1>2 DEF RowsOf, ActiveRowsOf
<1>6. RowsInv(readings', interviews')
  <2> USE DEF ReadingInv, RowsInv
  <2>1. DOMAIN readings' \subseteq Ids /\ interviews' \in [Ids -> Nat]
    BY <1>2
  <2>2. \A i \in DOMAIN readings' :
          readings'[i] \in Row /\ ValidStateDate(readings'[i].status, readings'[i].completed_on)
    <3> TAKE i \in DOMAIN readings'
    <3>1. CASE i = x
      BY <3>1
    <3>2. CASE i # x
      BY <3>2
    <3> QED BY <3>1, <3>2
  <2>3. \A u \in Users : \A i, j \in ActiveRowsOf(readings', u) : i = j
    BY <1>4, <1>5
  <2>4. \A i \in Ids : interviews'[i] > 0 => /\ i \in DOMAIN readings' /\ interviews'[i] = 1
                                             /\ readings'[i].status = "completed"
    <3> TAKE i \in Ids
    <3> HAVE interviews'[i] > 0
    <3>1. i # x
      BY <1>2
    <3> QED BY <3>1
  <2> QED BY <2>1, <2>2, <2>3, <2>4
<1>7. ASSUME NEW o \in Transactions \ {t}, Sound(txn[o], readings, interviews)
      PROVE  Sound(txn[o], readings', interviews')
  <2>1. txn[o].stage # "begun" =>
          Protects(p) = {p.user, x} /\ Protects(p) \cap Protects(txn[o]) = {}
    BY <1>1, <1>7, Apart DEF Protects
  <2>2. txn[o].op # "create" => txn[o].target \in DOMAIN readings'
    BY <1>7 DEF Sound
  <2>3. txn[o].op # "create" => readings'[txn[o].target].user = txn[o].user
    BY <1>7, <2>2 DEF Sound
  <2>4. txn[o].stage # "begun" /\ txn[o].op # "start" => txn[o].user # p.user
    BY <1>7, <2>1 DEF Protects, Sound, IsTransaction
  <2>5. txn[o].stage # "begun" /\ txn[o].op \in {"change", "date", "start"} =>
          readings'[txn[o].target] = readings[txn[o].target]
    BY <1>7, <2>1 DEF Protects, Sound
  <2>6. Decided(txn[o], readings', interviews')
    BY <1>3, <1>4, <1>7, <2>4, <2>5 DEF Sound, Decided
  <2>7. Modest(txn[o], readings')
    BY <1>3, <1>7 DEF Sound, Modest, Lockable
  <2> QED BY <1>7, <2>2, <2>3, <2>6, <2>7 DEF Sound
<1> HIDE DEF p
<1> QED BY <1>6, <1>7, Writes

LEMMA UpdateStateInv ==
    ASSUME ReadingInv, NEW t \in Transactions, UpdateState(t) PROVE ReadingInv'
<1> DEFINE p == txn[t]
           x == txn[t].target
           c == IF p.status = "completed" THEN p.date ELSE None
<1>1. /\ p.op = "change" /\ p.stage = "write" /\ txn' = [txn EXCEPT ![t] = Idle]
      /\ UNCHANGED interviews
      /\ readings' = [readings EXCEPT ![x].status = p.status, ![x].completed_on = c]
  BY DEF UpdateState, At, Release
<1>2. Sound(p, readings, interviews)
  BY <1>1, ActiveTransactions
<1>3. /\ x \in DOMAIN readings /\ p.status \in Statuses /\ p.date \in Dates \cup {None}
      /\ interviews[x] = 0 /\ readings[x] \in Row
      /\ p.status \in Active => ActiveRowsOf(readings, p.user) \subseteq {x}
      /\ p.status = "completed" => p.date # None
  BY <1>1, <1>2 DEF Sound, Decided, IsTransaction, ReadingInv, RowsInv
<1>4. c \in Dates \cup {None} /\ ValidStateDate(p.status, c)
  BY <1>3 DEF ValidStateDate
<1> HIDE DEF p, x, c
<1>5. /\ DOMAIN readings' = DOMAIN readings
      /\ \A i \in DOMAIN readings \ {x} : readings'[i] = readings[i]
  BY <1>1
<1>6. /\ readings'[x] \in Row /\ readings'[x].user = readings[x].user
      /\ readings'[x].status = p.status /\ readings'[x].completed_on = c
  BY <1>1, <1>3, <1>4 DEF Row
<1>7. p = txn[t] /\ x = txn[t].target
  BY DEF p, x
<1> QED BY <1>1, <1>3, <1>4, <1>5, <1>6, <1>7, RowUpdated

LEMMA UpdateDateInv ==
    ASSUME ReadingInv, NEW t \in Transactions, UpdateDate(t) PROVE ReadingInv'
<1> DEFINE p == txn[t]
           x == txn[t].target
<1>1. /\ p.op = "date" /\ p.stage = "write" /\ txn' = [txn EXCEPT ![t] = Idle]
      /\ UNCHANGED interviews
      /\ readings' = [readings EXCEPT ![x].completed_on = p.date]
  BY DEF UpdateDate, At, Release
<1>2. Sound(p, readings, interviews)
  BY <1>1, ActiveTransactions
<1>3. /\ x \in DOMAIN readings /\ p.date \in Dates \cup {None} /\ p.date # None
      /\ interviews[x] = 0 /\ readings[x] \in Row /\ readings[x].status = "completed"
  BY <1>1, <1>2 DEF Sound, Decided, IsTransaction, ReadingInv, RowsInv
<1> HIDE DEF p, x
<1>4. /\ DOMAIN readings' = DOMAIN readings
      /\ \A i \in DOMAIN readings \ {x} : readings'[i] = readings[i]
  BY <1>1
<1>5. /\ readings'[x] \in Row /\ readings'[x].user = readings[x].user
      /\ readings'[x].status = "completed" /\ readings'[x].completed_on = p.date
  BY <1>1, <1>3 DEF Row
<1>6. ValidStateDate(readings'[x].status, readings'[x].completed_on)
      /\ readings'[x].status \notin Active
  BY <1>3, <1>5 DEF ValidStateDate, Active
<1>7. p = txn[t] /\ x = txn[t].target
  BY DEF p, x
<1> QED BY <1>1, <1>3, <1>4, <1>5, <1>6, <1>7, RowUpdated

LEMMA InsertInterviewInv ==
    ASSUME ReadingInv, NEW t \in Transactions, InsertInterview(t) PROVE ReadingInv'
<1> DEFINE p == txn[t]
           x == txn[t].target
<1>1. /\ p.op = "start" /\ p.stage = "write" /\ txn' = [txn EXCEPT ![t] = Idle]
      /\ UNCHANGED readings /\ interviews' = [interviews EXCEPT ![x] = interviews[x] + 1]
  BY DEF InsertInterview, At, Release
<1>2. Sound(p, readings, interviews)
  BY <1>1, ActiveTransactions
<1>3. /\ x \in DOMAIN readings /\ x \in Ids /\ interviews \in [Ids -> Nat]
      /\ interviews[x] = 0 /\ readings[x].status = "completed"
  BY <1>1, <1>2 DEF Sound, Decided, ReadingInv, RowsInv
<1>4. interviews' = [interviews EXCEPT ![x] = 1]
  BY <1>1, <1>3
<1>5. RowsInv(readings', interviews')
  BY <1>1, <1>3, <1>4 DEF ReadingInv, RowsInv
<1>6. ASSUME NEW o \in Transactions \ {t}, Sound(txn[o], readings, interviews)
      PROVE  Sound(txn[o], readings', interviews')
  <2>1. txn[o].stage # "begun" => Protects(txn[o]) \cap {x} = {}
    BY <1>1, <1>2, <1>6, Apart DEF Protects
  <2>2. txn[o].stage # "begun" /\ txn[o].op \in {"change", "date", "start"} =>
          interviews'[txn[o].target] = interviews[txn[o].target]
    BY <1>3, <1>4, <1>6, <2>1 DEF Protects, Sound, ReadingInv, RowsInv
  <2>3. Decided(txn[o], readings', interviews')
    BY <1>1, <1>6, <2>2 DEF Sound, Decided
  <2> QED BY <1>1, <1>6, <2>3 DEF Sound
<1> HIDE DEF p, x
<1> QED BY <1>1, <1>5, <1>6, Writes

LEMMA Inductive == ReadingInv /\ [ReadingNext]_readingVars => ReadingInv'
<1> SUFFICES ASSUME ReadingInv, [ReadingNext]_readingVars PROVE ReadingInv'
  OBVIOUS
<1>1. CASE UNCHANGED readingVars
  BY <1>1 DEF readingVars, ReadingInv, Exclusive
<1>2. CASE ReadingNext
  <2>1. PICK t \in Transactions :
          \/ Request(t)
          \/ \E k \in Keys : Acquire(t, k)
          \/ LockSource(t) \/ LockHistory(t) \/ CheckHistory(t) \/ InsertReading(t)
          \/ CheckChange(t) \/ UpdateState(t) \/ CheckDate(t) \/ UpdateDate(t)
          \/ CheckStart(t) \/ InsertInterview(t) \/ EndUnchanged(t)
    BY <1>2 DEF ReadingNext, Keys
  <2> QED BY <2>1, RequestInv, AcquireInv, LocksInv, CheckHistoryInv, InsertReadingInv,
             CheckChangeInv, UpdateStateInv, CheckInv, UpdateDateInv, InsertInterviewInv, EndInv
<1> QED BY <1>1, <1>2

THEOREM AlwaysReadingInv == ReadingSpec => []ReadingInv
BY InitInv, Inductive, PTL DEF ReadingSpec

-------------------------------------------------------------------------------
(* What it is for *)

\* The rows keep their shapes: no write leaves a completed Reading without its
\* date, or an Interview without its Reading.
THEOREM ReadingTypeCorrect == ReadingSpec => []ReadingTypeOK
<1>1. ReadingInv => ReadingTypeOK
  BY DEF ReadingInv, RowsInv, ReadingTypeOK
<1> QED BY <1>1, AlwaysReadingInv, PTL

\* The lock on the user is enough: whatever the transactions do, nobody has
\* two active Readings of the Book.
THEOREM OneActiveOnly == ReadingSpec => []OneActiveReading
<1>1. ASSUME ReadingInv PROVE OneActiveReading
  <2> SUFFICES ASSUME NEW u \in Users PROVE Cardinality(ActiveOf(u)) <= 1
    BY DEF OneActiveReading
  <2>1. \A r, s \in ActiveOf(u) : r = s
    BY <1>1 DEF ReadingInv, RowsInv, ActiveRowsOf, RowsOf, ActiveOf, ReadingsOf
  <2>2. CASE ActiveOf(u) = {}
    <3>1. Cardinality(ActiveOf(u)) = 0
      BY <2>2, FS_EmptySet
    <3> QED BY <3>1
  <2>3. CASE ActiveOf(u) # {}
    <3>1. PICK r \in ActiveOf(u) : ActiveOf(u) = {r}
      BY <2>1, <2>3
    <3>2. Cardinality({r}) = 1
      BY FS_Singleton
    <3> QED BY <3>1, <3>2
  <2> QED BY <2>2, <2>3
<1> QED BY <1>1, AlwaysReadingInv, PTL

\* A start and a change of the same Reading exclude each other: the Interview
\* is one of a completed Reading, and the only one.
THEOREM InterviewsAreOfCompleted == ReadingSpec => []InterviewOnCompletedReading
<1>1. ReadingInv => InterviewOnCompletedReading
  BY DEF ReadingInv, RowsInv, InterviewOnCompletedReading
<1> QED BY <1>1, AlwaysReadingInv, PTL

\* The steps that write.
LEMMA OnlyCommits ==
    ASSUME [ReadingNext]_readingVars, tables' # tables
    PROVE  \E t \in Transactions :
             InsertReading(t) \/ UpdateState(t) \/ UpdateDate(t) \/ InsertInterview(t)
<1>1. ReadingNext
  BY DEF readingVars, tables
<1>2. \A t, op, u, r, status, date : Begin(t, op, u, r, status, date) => UNCHANGED tables
  BY DEF Begin
<1>3. \A t : Request(t) => UNCHANGED tables
  BY <1>2 DEF Request
<1>4. \A t, k : Acquire(t, k) => UNCHANGED tables
  BY DEF Acquire
<1>5. \A t, stage, locks : Statement(t, stage, locks) => UNCHANGED tables
  BY DEF Statement
<1>6. \A t : \/ LockSource(t) \/ LockHistory(t) \/ CheckHistory(t) \/ CheckChange(t)
             \/ CheckDate(t) \/ CheckStart(t)
             => UNCHANGED tables
  BY <1>5 DEF LockSource, LockHistory, CheckHistory, CheckChange, CheckDate, CheckStart
<1>7. \A t : EndUnchanged(t) => UNCHANGED tables
  BY DEF EndUnchanged
<1> QED BY <1>1, <1>3, <1>4, <1>6, <1>7 DEF ReadingNext

LEMMA OnlyWrites ==
    ASSUME [ReadingNext]_readingVars, readings' # readings
    PROVE  \E t \in Transactions : InsertReading(t) \/ UpdateState(t) \/ UpdateDate(t)
<1>1. \A t : InsertInterview(t) => UNCHANGED readings
  BY DEF InsertInterview
<1> QED BY <1>1, OnlyCommits DEF tables

LEMMA StartedStays ==
    ASSUME ReadingInv, [ReadingNext]_readingVars, NEW r \in DOMAIN readings, interviews[r] > 0
    PROVE  readings'[r] = readings[r]
<1>1. CASE UNCHANGED readings
  BY <1>1
<1>2. CASE \E t \in Transactions : InsertReading(t)
  <2>1. PICK t \in Transactions, i \in Ids \ DOMAIN readings :
          readings' = [j \in DOMAIN readings \cup {i} |->
                         IF j = i THEN [user |-> txn[t].user, status |-> txn[t].status,
                                        completed_on |-> txn[t].date]
                         ELSE readings[j]]
    BY <1>2 DEF InsertReading
  <2> QED BY <2>1
<1>3. CASE \E t \in Transactions : UpdateState(t) \/ UpdateDate(t)
  <2>1. PICK t \in Transactions : UpdateState(t) \/ UpdateDate(t)
    BY <1>3
  <2>2. txn[t].op \in {"change", "date"} /\ txn[t].stage = "write"
    BY <2>1 DEF UpdateState, UpdateDate, At
  <2>3. interviews[txn[t].target] = 0
    BY <2>2, ActiveTransactions DEF Sound, Decided
  <2>4. r # txn[t].target
    BY <2>3
  <2> QED BY <2>1, <2>4 DEF UpdateState, UpdateDate
<1> QED BY <1>1, <1>2, <1>3, OnlyWrites

\* A transaction that looked for the Interview before it was started has the
\* Reading locked until it ends, so the start comes after its write.
THEOREM StartFreezes == ReadingSpec => FrozenOnceStarted
<1>1. ReadingInv /\ [ReadingNext]_readingVars
        => [\A r \in DOMAIN readings : interviews[r] > 0 => readings'[r] = readings[r]]_readingVars
  BY StartedStays
<1> QED BY <1>1, AlwaysReadingInv, PTL DEF ReadingSpec, FrozenOnceStarted

LEMMA FirstCreated ==
    ASSUME ReadingInv, [ReadingNext]_readingVars, NEW t \in Transactions,
           txn[t].op = "create", txn'[t] = Idle, readings' # readings
    PROVE  ReadingsOf(txn[t].user) = {}
<1>1. PICK o \in Transactions : InsertReading(o) \/ UpdateState(o) \/ UpdateDate(o)
  BY OnlyWrites
<1>2. txn' = [txn EXCEPT ![o] = Idle]
  BY <1>1 DEF InsertReading, UpdateState, UpdateDate, Release
<1>3. o = t
  BY <1>2, IdleHolds DEF ReadingInv
<1>4. txn[t].stage = "insert"
  BY <1>1, <1>3 DEF InsertReading, UpdateState, UpdateDate, At
<1> QED BY <1>4, ActiveTransactions DEF Sound, Decided, RowsOf, ReadingsOf

\* Of two first Readings created at once the second finds the first.
THEOREM FirstOnlyOnce == ReadingSpec => FirstReadingOnce
<1>1. ReadingInv /\ [ReadingNext]_readingVars
        => [\A t \in Transactions :
              txn[t].op = "create" /\ txn'[t] = Idle /\ readings' # readings
                => ReadingsOf(txn[t].user) = {}]_readingVars
  BY FirstCreated
<1> QED BY <1>1, AlwaysReadingInv, PTL DEF ReadingSpec, FirstReadingOnce

-------------------------------------------------------------------------------
(* Deadlocks *)

\* A transaction that waits for another user's, itself waiting, waits for the
\* Book.
LEMMA WaitsAcross ==
    ASSUME ReadingInv, NEW t \in Transactions, NEW o \in Transactions, WaitsFor(t, o),
           txn[t].user # txn[o].user, txn[o] # Idle, txn[o].wants # <<>>
    PROVE  "book" \in txn[o].held
<1>1. Sound(txn[t], readings, interviews) /\ Sound(txn[o], readings, interviews)
  BY DEF ReadingInv, WaitsFor
<1>2. PICK k \in Head(txn[t].wants), l \in txn[o].held : Conflicts(k, l)
  BY DEF WaitsFor
<1>3. k \in Lockable(txn[t].user, readings)
  <2>1. txn[t].wants # <<>> /\ txn[t].wants \in Seq(SUBSET Keys)
    BY <1>1 DEF WaitsFor, Sound, IsTransaction
  <2>2. 1 \in DOMAIN txn[t].wants /\ Head(txn[t].wants) = txn[t].wants[1]
    BY <2>1
  <2> QED BY <1>1, <1>2, <2>2 DEF Sound, Modest
<1>4. l \in Lockable(txn[o].user, readings) /\ l # "share"
  BY <1>1, <1>2 DEF Sound, Modest
<1>5. txn[t].user \in Users /\ txn[o].user \in Users /\ DOMAIN readings \subseteq Ids
  BY <1>1 DEF Sound, IsTransaction, ReadingInv, RowsInv
<1>6. k # l \/ l = "book"
  BY <1>3, <1>4, <1>5, LocksAssumption DEF Lockable, RowsOf
<1>7. l = "book"
  BY <1>2, <1>4, <1>6 DEF Conflicts
<1> QED BY <1>2, <1>7

\* Users share no row but the Book, which one transaction at a time has, or
\* several that wait for nothing any more: a circle through several users comes
\* back to that one transaction, and its user's requests form a circle alone.
THEOREM NoDeadlockAcrossUsers == ReadingSpec => []DeadlockWithinUser
<1>1. ASSUME ReadingInv PROVE DeadlockWithinUser
  <2> SUFFICES ASSUME NEW C \in SUBSET Transactions, Deadlocked(C)
               PROVE  \E u \in Users : Deadlocked({t \in C : txn[t].user = u})
    BY DEF DeadlockWithinUser
  <2> DEFINE Of(u) == {t \in C : txn[t].user = u}
  <2>1. \A t \in C : /\ txn[t] # Idle /\ txn[t].wants # <<>> /\ txn[t].user \in Users
                     /\ \E o \in C \ {t} : WaitsFor(t, o)
    BY <1>1 DEF Deadlocked, WaitsFor, ReadingInv, Sound, IsTransaction
  <2>2. CASE \E t \in C, o \in C : WaitsFor(t, o) /\ txn[t].user # txn[o].user
    <3>1. PICK t \in C, o \in C : WaitsFor(t, o) /\ txn[t].user # txn[o].user
      BY <2>2
    <3>2. "book" \in txn[o].held
      BY <1>1, <2>1, <3>1, WaitsAcross
    <3>3. ASSUME NEW p \in Of(txn[o].user) PROVE \E x \in Of(txn[o].user) \ {p} : WaitsFor(p, x)
      <4>1. PICK x \in C \ {p} : WaitsFor(p, x)
        BY <2>1
      <4>2. CASE txn[x].user = txn[o].user
        BY <4>1, <4>2
      <4>3. CASE txn[x].user # txn[o].user
        <5>1. "book" \in txn[x].held /\ x # o
          BY <1>1, <2>1, <4>1, <4>3, WaitsAcross
        <5> QED BY <1>1, <3>2, <5>1 DEF ReadingInv, Exclusive, Conflicts
      <4> QED BY <4>2, <4>3
    <3>4. txn[o].user \in Users /\ o \in Of(txn[o].user)
      BY <2>1
    <3> QED BY <3>3, <3>4 DEF Deadlocked
  <2>3. CASE ~\E t \in C, o \in C : WaitsFor(t, o) /\ txn[t].user # txn[o].user
    <3>1. PICK t \in C : TRUE
      BY DEF Deadlocked
    <3>2. ASSUME NEW p \in Of(txn[t].user) PROVE \E x \in Of(txn[t].user) \ {p} : WaitsFor(p, x)
      BY <2>1, <2>3
    <3>3. txn[t].user \in Users /\ t \in Of(txn[t].user)
      BY <2>1
    <3> QED BY <3>2, <3>3 DEF Deadlocked
  <2> QED BY <2>2, <2>3
<1> QED BY <1>1, AlwaysReadingInv, PTL

-------------------------------------------------------------------------------
(* The history *)

LEMMA InsertsOne ==
    ASSUME ReadingInv, NEW t \in Transactions, InsertReading(t)
    PROVE  History!HistoryNext
<1> DEFINE u == txn[t].user
           status == txn[t].status
           date == txn[t].date
<1>1. Sound(txn[t], readings, interviews) /\ txn[t].op \in {"create", "reread"} /\ txn[t].stage = "insert"
  BY ActiveTransactions DEF InsertReading, At
<1>2. /\ u \in Users /\ status \in History!Statuses /\ date \in Dates \cup {None}
      /\ ActiveRowsOf(readings, u) = {} /\ ValidStateDate(status, date)
      /\ txn[t].op = "create" => RowsOf(readings, u) = {}
      /\ txn[t].op = "reread" => txn[t].target \in RowsOf(readings, u)
  BY <1>1 DEF Sound, Decided, IsTransaction, RowsOf, Statuses, Active, History!Statuses, History!Active
<1>3. History!Of(u) = RowsOf(readings, u)
  BY DEF History!Of, RowsOf
<1>4. History!Add(u, status, date)
  BY <1>2, <1>3 DEF InsertReading, ActiveRowsOf, Active, ValidStateDate, History!Add, History!IsFree,
                    History!Active, History!Dated
<1>5. txn[t].op = "create" => History!ReadFirst(u, status, date)
  BY <1>2, <1>3, <1>4 DEF History!ReadFirst
<1>6. txn[t].op = "reread" => History!ReadAgain(u, status, date)
  <2> SUFFICES ASSUME txn[t].op = "reread" PROVE History!ReadAgain(u, status, date)
    OBVIOUS
  <2>1. txn[t].target \in RowsOf(readings, u) /\ readings[txn[t].target].status = "completed"
    BY <1>2 DEF ActiveRowsOf, RowsOf, ReadingInv, RowsInv, Row, Statuses
  <2> QED BY <1>3, <1>4, <2>1 DEF History!ReadAgain
<1> HIDE DEF u, status, date
<1> QED BY <1>1, <1>2, <1>5, <1>6 DEF History!HistoryNext

\* A row with other values of its two fields, as one record.
LEMMA Rewritten ==
    ASSUME NEW r \in DOMAIN readings, readings[r] \in Row, NEW status, NEW date,
           NEW row, row \in Row,
           row.user = readings[r].user, row.status = status, row.completed_on = date,
           DOMAIN readings' = DOMAIN readings,
           readings' = [readings EXCEPT ![r] = row],
           interviews[r] = 0, UNCHANGED interviews
    PROVE  History!Rewrite(r, status, date)
<1>1. row = [user |-> readings[r].user, status |-> status, completed_on |-> date]
  BY DEF Row
<1> QED BY <1>1 DEF History!Rewrite

LEMMA ChangesStatus ==
    ASSUME ReadingInv, NEW t \in Transactions, UpdateState(t)
    PROVE  History!HistoryNext
<1> DEFINE r == txn[t].target
           status == txn[t].status
           date == IF status = "completed" THEN txn[t].date ELSE None
           row == [readings[r] EXCEPT !.status = status, !.completed_on = date]
<1>1. /\ Sound(txn[t], readings, interviews) /\ txn[t].op = "change" /\ txn[t].stage = "write"
      /\ UNCHANGED interviews
  BY ActiveTransactions DEF UpdateState, At
<1>2. /\ r \in DOMAIN readings /\ readings[r] \in Row /\ readings[r].user = txn[t].user
      /\ status \in Statuses /\ txn[t].date \in Dates \cup {None}
      /\ interviews[r] = 0 /\ readings[r].status # status
      /\ status \in Active => ActiveRowsOf(readings, readings[r].user) \subseteq {r}
      /\ status = "completed" => txn[t].date # None
  BY <1>1 DEF Sound, Decided, IsTransaction, ReadingInv, RowsInv
<1>3. date \in Dates \cup {None} /\ (status = "completed" <=> date # None)
  BY <1>2
<1>4. readings' = [readings EXCEPT ![r] = row]
  <2>1. readings' = [readings EXCEPT ![r].status = status, ![r].completed_on = date]
    BY DEF UpdateState
  <2> HIDE DEF r, status, date
  <2> QED BY <1>2, <2>1 DEF row
<1>5. row \in Row /\ row.user = readings[r].user /\ row.status = status /\ row.completed_on = date
  BY <1>2, <1>3 DEF Row
<1>6. DOMAIN readings' = DOMAIN readings
  BY <1>4
<1> HIDE DEF r, status, date, row
<1>7. History!Rewrite(r, status, date)
  BY <1>1, <1>2, <1>4, <1>5, <1>6, Rewritten
<1>8. History!ChangeStatus(r, status, date)
  BY <1>2, <1>3, <1>7 DEF History!ChangeStatus, History!Of, History!Active, History!Dated,
                          ActiveRowsOf, RowsOf, Active
<1>9. status \in History!Statuses
  BY <1>2 DEF Statuses, Active, History!Statuses, History!Active
<1> QED BY <1>2, <1>3, <1>8, <1>9 DEF History!HistoryNext

LEMMA ChangesDate ==
    ASSUME ReadingInv, NEW t \in Transactions, UpdateDate(t)
    PROVE  History!HistoryNext
<1> DEFINE r == txn[t].target
           date == txn[t].date
           row == [readings[r] EXCEPT !.completed_on = date]
<1>1. /\ Sound(txn[t], readings, interviews) /\ txn[t].op = "date" /\ txn[t].stage = "write"
      /\ UNCHANGED interviews
  BY ActiveTransactions DEF UpdateDate, At
<1>2. /\ r \in DOMAIN readings /\ readings[r] \in Row /\ date \in Dates \cup {None} /\ date # None
      /\ interviews[r] = 0 /\ readings[r].status = "completed"
  BY <1>1 DEF Sound, Decided, IsTransaction, ReadingInv, RowsInv
<1>3. readings' = [readings EXCEPT ![r] = row]
  BY DEF UpdateDate
<1>4. row \in Row /\ row.user = readings[r].user /\ row.status = "completed" /\ row.completed_on = date
  BY <1>2 DEF Row
<1>5. DOMAIN readings' = DOMAIN readings
  BY <1>3
<1> HIDE DEF r, date, row
<1>6. History!Rewrite(r, "completed", date)
  BY <1>1, <1>2, <1>3, <1>4, <1>5, Rewritten
<1>7. History!ChangeDate(r, date)
  BY <1>2, <1>6 DEF History!ChangeDate
<1>8. "completed" \in History!Statuses
  BY DEF History!Statuses
<1> QED BY <1>2, <1>7, <1>8 DEF History!HistoryNext

LEMMA Discusses ==
    ASSUME ReadingInv, NEW t \in Transactions, InsertInterview(t)
    PROVE  History!HistoryNext
<1> DEFINE r == txn[t].target
<1>1. /\ Sound(txn[t], readings, interviews) /\ txn[t].op = "start" /\ txn[t].stage = "write"
      /\ UNCHANGED readings /\ interviews' = [interviews EXCEPT ![r] = interviews[r] + 1]
  BY ActiveTransactions DEF InsertInterview, At
<1>2. r \in DOMAIN readings /\ readings[r].status = "completed" /\ interviews[r] = 0
  BY <1>1 DEF Sound, Decided
<1>3. History!Discuss(r)
  BY <1>1, <1>2 DEF History!Discuss
<1>4. "completed" \in History!Statuses /\ txn[t].date \in Dates \cup {None}
  BY <1>1 DEF Sound, IsTransaction, History!Statuses
<1> HIDE DEF r
<1> QED BY <1>2, <1>3, <1>4 DEF History!HistoryNext

\* Whatever locks are taken in whatever order, the tables only ever change as
\* if each request that writes were one step, allowed by the tables it finds.
THEOREM ReadingsAreSerial == ReadingSpec => RefinesReadingHistory
<1>1. ReadingInit => History!HistoryInit
  BY DEF ReadingInit, History!HistoryInit
<1>2. ReadingInv /\ [ReadingNext]_readingVars => [History!HistoryNext]_(History!history)
  <2> SUFFICES ASSUME ReadingInv, [ReadingNext]_readingVars, tables' # tables
               PROVE  History!HistoryNext
    BY DEF tables, History!history
  <2> QED BY OnlyCommits, InsertsOne, ChangesStatus, ChangesDate, Discusses
<1> QED BY <1>1, <1>2, AlwaysReadingInv, PTL DEF ReadingSpec, RefinesReadingHistory, History!HistorySpec

===============================================================================
