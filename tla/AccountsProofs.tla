---------------------------- MODULE AccountsProofs ----------------------------
(***************************************************************************)
(* Proofs about Accounts for any sessions, passwords and settings, any     *)
(* finite set of names and any number of deletions.                        *)
(***************************************************************************)
EXTENDS Accounts, FiniteSetTheorems, SequenceTheorems, TLAPS

(* BList::RemoveItem or std::vector::erase yields a list of the same kind, *)
(* one shorter.                                                            *)
LEMMA RemoveAtType ==
    ASSUME NEW S, NEW q \in Seq(S), NEW i \in DOMAIN q
    PROVE  /\ RemoveAt(q, i) \in Seq(S)
           /\ Len(RemoveAt(q, i)) = Len(q) - 1
           /\ \A j \in DOMAIN RemoveAt(q, i) :
                  RemoveAt(q, i)[j] = IF j < i THEN q[j] ELSE q[j + 1]
<1> DEFINE a == SubSeq(q, 1, i - 1)
           b == SubSeq(q, i + 1, Len(q))
<1>0. Len(q) \in Nat /\ i \in 1..Len(q) /\ DOMAIN q = 1..Len(q)
  OBVIOUS
<1>1. a \in Seq(S) /\ Len(a) = i - 1 /\ \A j \in 1..i-1 : a[j] = q[j]
  BY <1>0
<1>2. b \in Seq(S) /\ Len(b) = Len(q) - i /\ \A j \in 1..Len(q)-i : b[j] = q[j + i]
  BY <1>0
<1> HIDE DEF a, b
<1>3. /\ a \o b \in Seq(S) /\ Len(a \o b) = Len(a) + Len(b)
      /\ \A j \in 1..Len(a)+Len(b) : (a \o b)[j] = IF j <= Len(a) THEN a[j] ELSE b[j - Len(a)]
  BY <1>1, <1>2, ConcatProperties
<1>4. RemoveAt(q, i) = a \o b
  BY DEF RemoveAt, a, b
<1>5. ASSUME NEW j \in 1..Len(q)-1 PROVE (a \o b)[j] = IF j < i THEN q[j] ELSE q[j + 1]
  <2>1. CASE j < i
    <3>1. j \in 1..i-1 /\ j \in 1..Len(a)+Len(b) /\ j <= Len(a)
      BY <1>0, <1>1, <1>2, <2>1
    <3>2. (a \o b)[j] = a[j]
      BY <1>3, <3>1
    <3> QED
      BY <1>1, <3>1, <3>2, <2>1
  <2>2. CASE ~(j < i)
    <3>1. Len(a) = i - 1 /\ j \in 1..Len(a)+Len(b) /\ ~(j <= Len(a))
      BY <1>0, <1>1, <1>2, <2>2
    <3>2. (a \o b)[j] = b[j - Len(a)]
      BY <1>3, <3>1
    <3>3. j - Len(a) \in 1..Len(q)-i /\ j - Len(a) + i = j + 1
      BY <1>0, <3>1, <2>2
    <3> QED
      BY <1>2, <3>2, <3>3, <2>2
  <2> QED
    BY <2>1, <2>2
<1>6. Len(a) + Len(b) = Len(q) - 1
  BY <1>0, <1>1, <1>2
<1>7. a \o b \in Seq(S) /\ Len(a \o b) = Len(q) - 1
  BY <1>3, <1>6
<1>8. DOMAIN (a \o b) = 1..Len(q)-1
  BY <1>7
<1> QED
  BY <1>4, <1>5, <1>7, <1>8

(* Inserting an item, in front of the item at a place or behind the last.  *)
LEMMA InsertAtType ==
    ASSUME NEW S, NEW q \in Seq(S), NEW x \in S, NEW k \in 1..Len(q)+1
    PROVE  /\ InsertAt(q, k, x) \in Seq(S)
           /\ Len(InsertAt(q, k, x)) = Len(q) + 1
           /\ \A i \in 1..Len(q)+1 :
                  InsertAt(q, k, x)[i] = IF i < k THEN q[i] ELSE IF i = k THEN x ELSE q[i - 1]
<1> DEFINE a == SubSeq(q, 1, k - 1)
           b == SubSeq(q, k, Len(q))
           n == Len(q)
           p == a \o <<x>>
<1>0. n \in Nat /\ k \in 1..n+1 /\ DOMAIN q = 1..n
  OBVIOUS
<1>1. a \in Seq(S) /\ Len(a) = k - 1 /\ \A j \in 1..k-1 : a[j] = q[j]
  BY <1>0
<1>2. b \in Seq(S) /\ Len(b) = n - k + 1 /\ \A j \in 1..n-k+1 : b[j] = q[j + k - 1]
  BY <1>0
<1>3. <<x>> \in Seq(S) /\ Len(<<x>>) = 1 /\ <<x>>[1] = x
  OBVIOUS
<1>4. InsertAt(q, k, x) = p \o b
  BY DEF InsertAt
<1> HIDE DEF a, b, n
<1>5. /\ p \in Seq(S) /\ Len(p) = k
      /\ \A j \in 1..k-1 : p[j] = q[j]
      /\ p[k] = x
  <2>1. /\ p \in Seq(S) /\ Len(p) = Len(a) + Len(<<x>>)
        /\ \A j \in 1..Len(a)+Len(<<x>>) :
               p[j] = IF j <= Len(a) THEN a[j] ELSE <<x>>[j - Len(a)]
    BY <1>1, <1>3, ConcatProperties
  <2>2. Len(p) = k
    BY <1>0, <1>1, <1>3, <2>1
  <2>3. ASSUME NEW j \in 1..k-1 PROVE p[j] = q[j]
    <3>1. j \in 1..Len(a)+Len(<<x>>) /\ j <= Len(a)
      BY <1>0, <1>1, <1>3
    <3> QED
      BY <1>1, <2>1, <3>1
  <2>4. p[k] = x
    <3>1. k \in 1..Len(a)+Len(<<x>>) /\ ~(k <= Len(a)) /\ k - Len(a) = 1
      BY <1>0, <1>1, <1>3
    <3> QED
      BY <1>3, <2>1, <3>1
  <2> QED
    BY <2>1, <2>2, <2>3, <2>4
<1> HIDE DEF p
<1>6. /\ p \o b \in Seq(S) /\ Len(p \o b) = Len(p) + Len(b)
      /\ \A j \in 1..Len(p)+Len(b) : (p \o b)[j] = IF j <= Len(p) THEN p[j] ELSE b[j - Len(p)]
  BY <1>2, <1>5, ConcatProperties
<1>7. Len(p) + Len(b) = n + 1
  BY <1>0, <1>2, <1>5
<1>8. ASSUME NEW i \in 1..n+1
      PROVE  (p \o b)[i] = IF i < k THEN q[i] ELSE IF i = k THEN x ELSE q[i - 1]
  <2>1. CASE i <= k
    <3>1. (p \o b)[i] = p[i]
      BY <1>5, <1>6, <1>7, <2>1
    <3>2. i \in 1..k-1 \/ i = k
      BY <1>0, <2>1
    <3> QED
      BY <1>0, <1>5, <3>1, <3>2
  <2>2. CASE ~(i <= k)
    <3>1. (p \o b)[i] = b[i - k]
      BY <1>5, <1>6, <1>7, <2>2
    <3>2. i - k \in 1..n-k+1 /\ i - k + k - 1 = i - 1
      BY <1>0, <2>2
    <3>3. b[i - k] = q[i - 1]
      BY <1>2, <3>2
    <3> QED
      BY <1>0, <2>2, <3>1, <3>3
  <2> QED
    BY <2>1, <2>2
<1> QED
  BY <1>4, <1>6, <1>7, <1>8 DEF n

-----------------------------------------------------------------------------
(* The inductive invariant *)

At == {"idle", "write"} \cup Walks
Op == {"none", "guest", "clear", "dhx", "change", "map id", "map name", "user info", "is admin"}
OrNone(S) == S \cup {None}

Job == [at : At, op : Op, name : OrNone(Name), id : OrNone(Nat), old : OrNone(Password),
        new : OrNone(Password), record : OrNone(User), index : Nat \ {0},
        absent : BOOLEAN, shrunk : BOOLEAN, stale : BOOLEAN]

NamesDiffer(list) == \A i, j \in DOMAIN list : list[i].name = list[j].name => i = j

Typed ==
    /\ users \in Seq(User)
    /\ version \in 0..2 /\ deleted \in 0..MaxDeletions
    /\ task \in [Session -> Job]
    /\ looper \in [at : {"idle", "count", "insert", "stamp", "find", "write", "upgrade",
                         "guest", "down"},
                   record : User \cup {None}, index : Nat]
    /\ login \in [Session -> BOOLEAN]
    /\ user \in [Session -> Name \cup {None}]
    /\ uam \in [Session -> {"none", "guest", "clear", "dhx"}]
    /\ blob \in [Session -> Name \cup {None}]

(* What a job knows by the time it is where it is.                         *)
Knows(job) ==
    /\ job.at = "logon" => job.name # None
    /\ job.at \in {"logon", "reread", "update"} => job.id = None
    /\ job.at = "reread" \/ (job.at = "logon" /\ job.op = "change") => job.new # None
    /\ job.at \in Keeps => job.record # None /\ job.record.name = job.name
    /\ job.index <= Cardinality(Name) + 1

(* Until a user is deleted, one who was found stays and keeps the ID.      *)
Holds(record) == \E i \in DOMAIN users : users[i].name = record.name /\ users[i].id = record.id

Kept(job) ==
    deleted = 0 => /\ job.at = "update" => Known(job.name)
                   /\ job.at = "write" => Holds(job.record)

(* A walk has what it looks for before it.                                 *)
Ahead(job) ==
    job.at \in Walks /\ ~job.absent /\ ~job.shrunk /\ (job.id # None => deleted = 0)
    => \E i \in DOMAIN users : i >= job.index /\ Sought(job, users[i])

(* A record that is not stale differs from the file's in what was changed. *)
Changes(record, i) ==
    /\ users[i].name = record.name /\ users[i].id = record.id
    /\ record.flags = users[i].flags \ {"must change"}

Current(job) ==
    job.at \in Keeps /\ ~job.stale => \E i \in DOMAIN users : Changes(job.record, i)

Fits(job) == Knows(job) /\ Kept(job) /\ Ahead(job) /\ Current(job)

JobsFit == \A s \in Session : Fits(task[s]) /\ (login[s] => user[s] # None)

(* Only the looper removes users, so what it has found stays; until a user *)
(* is deleted, one whom it has not found is not added by a session.        *)
LooperFits ==
    /\ looper.at \in {"count", "insert", "find", "write"} => looper.record # None
    /\ looper.at \in {"find", "write"} => Known(looper.record.name)
    /\ looper.at = "upgrade" => looper.index # 0
    /\ deleted = 0 =>
          /\ looper.at = "write" => Holds(looper.record)
          /\ looper.at \in {"count", "insert"} => ~Known(looper.record.name)

(* The IDs are counted, so that the next one is new.                       *)
IDsAreCounted ==
    ~unnumbered /\ deleted = 0 =>
        /\ \A i, j \in DOMAIN users : users[i].id = users[j].id => i = j
        /\ \A i \in DOMAIN users : users[i].id < Len(users)
        /\ looper.at = "insert" => looper.record.id = Len(users)

IInv == Typed /\ NamesDiffer(users) /\ JobsFit /\ LooperFits /\ IDsAreCounted

-----------------------------------------------------------------------------
(* Lemmas about the data *)

LEMMA UserFields ==
    ASSUME NEW r \in User
    PROVE  /\ r.name \in Name /\ r.name # None /\ r.id \in Nat
           /\ r.password \in Password /\ r.flags \in SUBSET Flag /\ r # None
BY NameAssumption, NoneAssumption DEF User

LEMMA UsersFacts ==
    ASSUME Typed
    PROVE  /\ Len(users) \in Nat /\ DOMAIN users = 1..Len(users)
           /\ \A i \in DOMAIN users : users[i] \in User
BY DEF Typed

(* There are no more users than names.                                     *)
LEMMA FewUsers ==
    ASSUME Typed, NamesDiffer(users)
    PROVE  /\ Cardinality(Name) \in Nat
           /\ Len(users) <= Cardinality(Name)
<1> DEFINE n == Len(users)
           f == [i \in 1..n |-> users[i].name]
<1>1. n \in Nat /\ DOMAIN users = 1..n /\ \A i \in 1..n : users[i] \in User
  BY UsersFacts
<1> HIDE DEF n
<1>2. f \in [1..n -> Name]
  BY <1>1, UserFields
<1>3. IsFiniteSet(Name) /\ Cardinality(Name) \in Nat
  BY NameAssumption, FS_CardinalityType
<1>4. IsFiniteSet(1..n) /\ Cardinality(1..n) = n
  BY <1>1, FS_Interval
<1>5. ASSUME Cardinality(Name) < n PROVE FALSE
  <2>1. \E x, y \in 1..n : x # y /\ f[x] = f[y]
    <3>1. Cardinality(Name) < Cardinality(1..n)
      BY <1>4, <1>5
    <3> HIDE DEF f
    <3> QED
      BY <1>2, <1>3, <1>4, <3>1, FS_PigeonHole, Zenon
  <2> QED
    BY <1>1, <2>1 DEF NamesDiffer
<1> QED
  BY <1>1, <1>3, <1>5 DEF n

(* A known user has one place.                                             *)
LEMMA PlaceIsPlace ==
    ASSUME Typed, NEW name, Known(name)
    PROVE  /\ Place(name) \in DOMAIN users /\ users[Place(name)].name = name
           /\ Named(name) = users[Place(name)] /\ Named(name) \in User
<1>1. Place(name) \in Index(name)
  BY DEF Known, Place
<1> QED
  BY <1>1, UsersFacts DEF Index, Named

LEMMA KnownIsListed ==
    ASSUME NEW name
    PROVE  Known(name) <=> \E i \in DOMAIN users : users[i].name = name
BY DEF Known, Index

(* What a write does, whether it overwrites an attribute or adds one:      *)
(* places are kept, or move up by one.                                     *)
LEMMA WriteFacts ==
    ASSUME Typed, NamesDiffer(users), NEW r \in User, users' \in WriteAttr(r)
    PROVE  /\ users' \in Seq(User) /\ NamesDiffer(users')
           /\ \A i \in DOMAIN users : users[i].name # r.name
                 => \E j \in DOMAIN users' : j >= i /\ users'[j] = users[i]
           /\ \A i \in DOMAIN users : users[i].name = r.name
                 => i \in DOMAIN users' /\ users'[i] = r
           /\ \E j \in DOMAIN users' : users'[j] = r
           /\ \A j \in DOMAIN users' : users'[j] # r
                 => \E i \in DOMAIN users : users'[j] = users[i] /\ users[i].name # r.name
           /\ Len(users') = IF Known(r.name) THEN Len(users) ELSE Len(users) + 1
           /\ Known(r.name) => \A i \in DOMAIN users :
                 i \in DOMAIN users' /\ (users[i].name # r.name => users'[i] = users[i])
<1> DEFINE n == Len(users)
<1>1. n \in Nat /\ DOMAIN users = 1..n /\ \A i \in 1..n : users[i] \in User
  BY UsersFacts
<1> HIDE DEF n
<1>2. CASE Known(r.name)
  <2>1. /\ users' = [i \in DOMAIN users |-> IF i \in Index(r.name) THEN r ELSE users[i]]
        /\ Index(r.name) = {i \in 1..n : users[i].name = r.name}
    BY <1>1, <1>2 DEF WriteAttr, Index
  <2>2. /\ DOMAIN users' = 1..n
        /\ \A i \in 1..n : users'[i] = IF users[i].name = r.name THEN r ELSE users[i]
    BY <1>1, <2>1
  <2>3. users' \in [1..n -> User]
    BY <1>1, <2>1
  <2>4. users' \in Seq(User) /\ Len(users') = n
    BY <1>1, <2>2, <2>3, SeqDef
  <2>5. NamesDiffer(users')
    BY <1>1, <2>2 DEF NamesDiffer
  <2>6. PICK k \in 1..n : users[k].name = r.name
    BY <1>1, <1>2, KnownIsListed
  <2>7. users'[k] = r
    BY <2>2, <2>6
  <2>8. \A i \in 1..n : i >= i
    OBVIOUS
  <2> QED
    BY <1>1, <1>2, <2>2, <2>4, <2>5, <2>7, <2>8 DEF n
<1>3. CASE ~Known(r.name)
  <2>1. PICK k \in 1..n+1 : users' = InsertAt(users, k, r)
    BY <1>3 DEF WriteAttr, n
  <2>2. /\ users' \in Seq(User) /\ Len(users') = n + 1 /\ DOMAIN users' = 1..n+1
        /\ \A i \in 1..n+1 :
              users'[i] = IF i < k THEN users[i] ELSE IF i = k THEN r ELSE users[i - 1]
    <3>1. users \in Seq(User)
      BY DEF Typed
    <3>2. /\ InsertAt(users, k, r) \in Seq(User) /\ Len(InsertAt(users, k, r)) = n + 1
          /\ \A i \in 1..n+1 : InsertAt(users, k, r)[i] =
                IF i < k THEN users[i] ELSE IF i = k THEN r ELSE users[i - 1]
      BY <3>1, InsertAtType DEF n
    <3> QED
      BY <2>1, <3>2
  <2>3. \A i \in 1..n : users[i].name # r.name
    BY <1>1, <1>3, KnownIsListed
  <2> DEFINE to(i) == IF i < k THEN i ELSE i + 1
             from(j) == IF j < k THEN j ELSE j - 1
  <2>4. \A i \in 1..n : to(i) \in 1..n+1 /\ to(i) >= i /\ users'[to(i)] = users[i]
    <3> SUFFICES ASSUME NEW i \in 1..n
                 PROVE  to(i) \in 1..n+1 /\ to(i) >= i /\ users'[to(i)] = users[i]
      OBVIOUS
    <3>1. CASE i < k
      BY <1>1, <2>2, <3>1
    <3>2. CASE ~(i < k)
      <4>1. i + 1 \in 1..n+1 /\ ~(i + 1 < k) /\ i + 1 # k /\ i + 1 - 1 = i
        BY <1>1, <3>2
      <4> QED
        BY <2>2, <3>2, <4>1
    <3> QED
      BY <3>1, <3>2
  <2>5. \A j \in 1..n+1 : j = k \/ (from(j) \in 1..n /\ users'[j] = users[from(j)])
    <3> SUFFICES ASSUME NEW j \in 1..n+1, j # k
                 PROVE  from(j) \in 1..n /\ users'[j] = users[from(j)]
      OBVIOUS
    <3>1. from(j) \in 1..n
      BY <1>1
    <3> QED
      BY <2>2, <3>1
  <2>6. \A i, j \in 1..n+1 : i # k /\ j # k /\ from(i) = from(j) => i = j
    BY <1>1
  <2>7. users'[k] = r
    BY <2>2
  <2> HIDE DEF to, from
  <2>8. NamesDiffer(users')
    <3> SUFFICES ASSUME NEW i \in 1..n+1, NEW j \in 1..n+1, users'[i].name = users'[j].name
                 PROVE  i = j
      BY <2>2 DEF NamesDiffer
    <3>1. CASE i = k \/ j = k
      BY <2>3, <2>5, <2>7, <3>1
    <3>2. CASE i # k /\ j # k
      BY <1>1, <2>5, <2>6, <3>2 DEF NamesDiffer
    <3> QED
      BY <3>1, <3>2
  <2> QED
    BY <1>1, <1>3, <2>2, <2>3, <2>4, <2>5, <2>7, <2>8 DEF n
<1> QED
  BY <1>2, <1>3

-----------------------------------------------------------------------------
(* Lemmas about the jobs *)

LEMMA JobFields ==
    ASSUME NEW j \in Job
    PROVE  /\ j.at \in At /\ j.op \in Op /\ j.name \in OrNone(Name) /\ j.id \in OrNone(Nat)
           /\ j.old \in OrNone(Password) /\ j.new \in OrNone(Password)
           /\ j.record \in OrNone(User) /\ j.index \in Nat \ {0}
           /\ j.absent \in BOOLEAN /\ j.shrunk \in BOOLEAN /\ j.stale \in BOOLEAN
BY DEF Job

LEMMA IdleJob ==
    /\ Idle \in Job /\ Idle.at = "idle" /\ Idle.op = "none" /\ Idle.name = None
    /\ Idle.id = None /\ Idle.old = None /\ Idle.new = None /\ Idle.index = 1
    /\ Idle.stale = FALSE /\ Idle.shrunk = FALSE
<1>1. "idle" \in At /\ "none" \in Op
  BY DEF At, Op
<1>2. \A S : None \in OrNone(S)
  BY DEF OrNone
<1>3. 1 \in Nat \ {0}
  OBVIOUS
<1> QED
  BY <1>1, <1>2, <1>3 DEF Idle, Job

(* The job of a request before its walk.                                   *)
LEMMA AskingJob ==
    ASSUME NEW op \in Op, NEW name \in OrNone(Name)
    PROVE  LET j == [Idle EXCEPT !.op = op, !.name = name] IN
           j \in Job /\ j.op = op /\ j.name = name /\ j.id = None
BY IdleJob DEF Job

LEMMA AskingID ==
    ASSUME NEW op \in Op, NEW id \in OrNone(Nat)
    PROVE  [Idle EXCEPT !.op = op, !.id = id] \in Job
BY IdleJob DEF Job

LoginJob(op, name, old) == [Idle EXCEPT !.op = op, !.name = name, !.old = old]

LEMMA LoginJobFields ==
    ASSUME NEW op \in Op, NEW name \in OrNone(Name), NEW old \in OrNone(Password)
    PROVE  LET j == LoginJob(op, name, old) IN
           j \in Job /\ j.op = op /\ j.name = name /\ j.id = None
<1> DEFINE i == [Idle EXCEPT !.op = op, !.name = name]
<1>1. i \in Job /\ i.op = op /\ i.name = name /\ i.id = None
  BY IdleJob DEF Job
<1>2. LoginJob(op, name, old) = [i EXCEPT !.old = old]
  BY IdleJob DEF LoginJob, Job
<1> HIDE DEF i
<1> QED
  BY <1>1, <1>2 DEF Job

ChangeJob(name, old, new) ==
    [Idle EXCEPT !.op = "change", !.name = name, !.old = old, !.new = new]

LEMMA ChangeJobFields ==
    ASSUME NEW name \in OrNone(Name), NEW old \in OrNone(Password),
           NEW new \in OrNone(Password)
    PROVE  LET j == ChangeJob(name, old, new) IN
           j \in Job /\ j.op = "change" /\ j.name = name /\ j.id = None /\ j.new = new
<1> DEFINE i == [Idle EXCEPT !.op = "change", !.name = name]
<1>1. i \in Job /\ i.op = "change" /\ i.name = name /\ i.id = None
  <2>1. "change" \in Op
    BY DEF Op
  <2> QED
    BY <2>1, IdleJob DEF Job
<1>2. ChangeJob(name, old, new) = [i EXCEPT !.old = old, !.new = new]
  BY IdleJob DEF ChangeJob, Job
<1> HIDE DEF i
<1> QED
  BY <1>1, <1>2 DEF Job

LEMMA IdleFits ==
    ASSUME Typed, NamesDiffer(users)
    PROVE  Fits(Idle)
<1>1. Idle.index <= Cardinality(Name) + 1
  BY FewUsers, IdleJob
<1> QED
  BY <1>1, IdleJob DEF Fits, Knows, Kept, Ahead, Current, Walks, Keeps

(* A walk begins.                                                          *)
LEMMA WalkJob ==
    ASSUME NEW at \in Walks, NEW job \in Job
    PROVE  LET w == Walk(at, job) IN
           /\ w \in Job /\ w.at = at /\ w.index = 1 /\ w.op = job.op /\ w.name = job.name
           /\ w.id = job.id /\ w.new = job.new /\ w.record = job.record
           /\ w.stale = job.stale
           /\ w.absent = (\A i \in DOMAIN users : ~Sought(job, users[i]))
<1> DEFINE b == \A i \in DOMAIN users : ~Sought(job, users[i])
           w == [job EXCEPT !.at = at, !.index = 1, !.shrunk = FALSE, !.absent = b]
<1>1. b \in BOOLEAN
  OBVIOUS
<1>2. Walk(at, job) = w
  BY DEF Walk
<1> HIDE DEF b
<1> DEFINE v == [job EXCEPT !.at = at, !.index = 1]
<1>3. w = [v EXCEPT !.absent = b, !.shrunk = FALSE]
  BY DEF Job
<1>4. /\ v \in Job /\ v.at = at /\ v.index = 1 /\ v.op = job.op /\ v.name = job.name
      /\ v.id = job.id /\ v.new = job.new /\ v.record = job.record /\ v.stale = job.stale
  <2>1. at \in At /\ 1 \in Nat \ {0}
    BY DEF At
  <2> QED
    BY <2>1 DEF Job
<1> HIDE DEF v
<1>5. /\ w \in Job /\ w.at = at /\ w.index = 1 /\ w.op = job.op /\ w.name = job.name
      /\ w.id = job.id /\ w.new = job.new /\ w.record = job.record
      /\ w.stale = job.stale /\ w.absent = b
  BY <1>1, <1>3, <1>4 DEF Job
<1> HIDE DEF w
<1> QED
  BY <1>2, <1>5 DEF b

(* What is to be shown of a job that begins a walk: what it looks for is   *)
(* before it, or was absent.                                               *)
LEMMA WalkFits ==
    ASSUME Typed, NamesDiffer(users), NEW at \in Walks, NEW job \in Job,
           at = "logon" => job.name # None,
           at \in {"logon", "reread", "update"} => job.id = None,
           at = "reread" \/ (at = "logon" /\ job.op = "change") => job.new # None,
           at = "update" => /\ job.record # None /\ job.record.name = job.name
                            /\ Known(job.name)
                            /\ \E i \in DOMAIN users : Changes(job.record, i)
    PROVE  Walk(at, job) \in Job /\ Fits(Walk(at, job))
<1> DEFINE w == Walk(at, job)
<1>1. /\ w \in Job /\ w.at = at /\ w.index = 1 /\ w.op = job.op /\ w.name = job.name
      /\ w.id = job.id /\ w.new = job.new /\ w.record = job.record
      /\ w.absent = (\A i \in DOMAIN users : ~Sought(job, users[i]))
  BY WalkJob
<1> HIDE DEF w
<1>2. at # "write" /\ at # "idle"
  BY DEF Walks
<1>3. Knows(w)
  BY <1>1, <1>2, FewUsers DEF Knows, Keeps
<1>4. Kept(w)
  BY <1>1, <1>2 DEF Kept
<1>5. Ahead(w)
  <2> SUFFICES ASSUME ~w.absent
               PROVE  \E i \in DOMAIN users : i >= w.index /\ Sought(w, users[i])
    BY DEF Ahead
  <2>1. PICK i \in DOMAIN users : Sought(job, users[i])
    BY <1>1
  <2>2. i >= 1
    BY UsersFacts
  <2> QED
    BY <1>1, <2>1, <2>2 DEF Sought
<1>6. Current(w)
  BY <1>1, <1>2 DEF Current, Keeps
<1> QED
  BY <1>1, <1>3, <1>4, <1>5, <1>6 DEF Fits, w

-----------------------------------------------------------------------------
(* The sessions *)

(* What a step does to its session's login.                                *)
SessionFits(s) ==
    /\ login' \in [Session -> BOOLEAN] /\ user' \in [Session -> Name \cup {None}]
    /\ uam' \in [Session -> {"none", "guest", "clear", "dhx"}]
    /\ blob' \in [Session -> Name \cup {None}]
    /\ \A r \in Session \ {s} : login'[r] = login[r] /\ user'[r] = user[r]
    /\ login'[s] => user'[s] # None

LEMMA SameSession ==
    ASSUME IInv, NEW s \in Session, UNCHANGED <<login, user>>,
           uam' \in [Session -> {"none", "guest", "clear", "dhx"}],
           blob' \in [Session -> Name \cup {None}]
    PROVE  SessionFits(s)
BY DEF IInv, Typed, JobsFit, SessionFits

LEMMA EndFits ==
    ASSUME IInv, NEW s \in Session, End(s)
    PROVE  SessionFits(s)
BY DEF IInv, Typed, End, SessionFits

(* What is to be shown of a step that leaves the database alone: only of   *)
(* its own session.                                                        *)
LEMMA JobStep ==
    ASSUME IInv, NEW s \in Session, NEW j \in Job, Fits(j),
           task' = [task EXCEPT ![s] = j], SessionFits(s),
           UNCHANGED <<users, version, looper, unnumbered, deleted>>
    PROVE  IInv'
<1>1. task \in [Session -> Job]
  BY DEF IInv, Typed
<1>2. task' \in [Session -> Job] /\ task'[s] = j /\ \A r \in Session \ {s} : task'[r] = task[r]
  BY <1>1
<1>3. Typed' /\ NamesDiffer(users')
  BY <1>2 DEF IInv, Typed, SessionFits
<1>4. ASSUME NEW CONSTANT k, Fits(k)
      PROVE  Fits(k)'
  <2>1. Knows(k)'
    BY <1>4 DEF Fits, Knows
  <2>2. Kept(k)'
    BY <1>4 DEF Fits, Kept, Known, Index, Holds
  <2>3. Ahead(k)'
    BY <1>4 DEF Fits, Ahead
  <2>4. Current(k)'
    BY <1>4 DEF Fits, Current, Changes
  <2> QED
    BY <2>1, <2>2, <2>3, <2>4 DEF Fits
<1>5. JobsFit'
  <2> SUFFICES ASSUME NEW r \in Session
               PROVE  Fits(task[r])' /\ (login'[r] => user'[r] # None)
    BY DEF JobsFit
  <2>1. Fits(task'[r])
    BY <1>2 DEF IInv, JobsFit
  <2>2. PICK k : k = task'[r]
    OBVIOUS
  <2>3. Fits(k)'
    BY <1>4, <2>1, <2>2
  <2>4. Fits(task[r])'
    BY <2>2, <2>3
  <2> QED
    BY <2>4 DEF IInv, JobsFit, SessionFits
<1>6. LooperFits' /\ IDsAreCounted'
  BY DEF IInv, LooperFits, IDsAreCounted, Known, Index, Holds
<1> QED
  BY <1>3, <1>5, <1>6 DEF IInv

(* A request that comes in has a walk to make.                             *)
LEMMA RequestStep ==
    ASSUME IInv, NEW s \in Session,
           \/ FPLogin(s) \/ FPChangePswd(s) \/ FPMapID(s) \/ FPMapName(s) \/ FPGetUserInfo(s)
           \/ IsAdmin(s)
    PROVE  IInv'
<1>0. Typed /\ NamesDiffer(users) /\ user[s] \in Name \cup {None}
  BY DEF IInv, Typed
<1>1. CASE FPLogin(s)
  <2>1. PICK op \in {"guest", "clear"}, name \in Name, password \in Password :
          /\ task' = [task EXCEPT ![s] =
                Walk("logon", [Idle EXCEPT !.op = op, !.name = name,
                    !.old = IF op = "guest" THEN None ELSE password])]
          /\ uam' = [uam EXCEPT ![s] = op]
    BY <1>1 DEF FPLogin
  <2> DEFINE j == [Idle EXCEPT !.op = op, !.name = name,
                              !.old = IF op = "guest" THEN None ELSE password]
  <2> DEFINE old == IF op = "guest" THEN None ELSE password
  <2>2. old \in OrNone(Password) /\ op \in Op /\ name \in OrNone(Name)
    BY DEF Op, OrNone
  <2>6. j = LoginJob(op, name, old)
    BY DEF LoginJob
  <2> HIDE DEF j, old
  <2>8. j \in Job /\ j.name = name /\ j.id = None /\ j.op = op
    BY <2>2, <2>6, LoginJobFields
  <2>3. Walk("logon", j) \in Job /\ Fits(Walk("logon", j))
    BY <1>0, <2>8, WalkFits, NoneAssumption DEF Walks
  <2>4. SessionFits(s)
    BY <1>1, <2>1, SameSession DEF FPLogin, IInv, Typed
  <2>5. UNCHANGED <<users, version, looper, unnumbered, deleted>>
    BY <1>1 DEF FPLogin
  <2> QED
    BY <2>1, <2>3, <2>4, <2>5, JobStep DEF j
<1>2. CASE FPChangePswd(s)
  <2>1. PICK name \in Name, old, new \in Password :
          task' = [task EXCEPT ![s] =
              Walk("logon", [Idle EXCEPT !.op = "change", !.name = name,
                                         !.old = old, !.new = new])]
    BY <1>2 DEF FPChangePswd
  <2> DEFINE j == [Idle EXCEPT !.op = "change", !.name = name, !.old = old, !.new = new]
  <2>2. "change" \in Op /\ name \in OrNone(Name) /\ old \in OrNone(Password)
        /\ new \in OrNone(Password)
    BY DEF Op, OrNone
  <2>6. j = ChangeJob(name, old, new)
    BY DEF ChangeJob
  <2> HIDE DEF j
  <2>7. j \in Job /\ j.name = name /\ j.id = None /\ j.op = "change" /\ j.new = new
    BY <2>2, <2>6, ChangeJobFields
  <2>3. Walk("logon", j) \in Job /\ Fits(Walk("logon", j))
    BY <1>0, <2>7, WalkFits, NoneAssumption DEF Walks
  <2>4. SessionFits(s)
    BY <1>2, SameSession DEF FPChangePswd, IInv, Typed
  <2>5. UNCHANGED <<users, version, looper, unnumbered, deleted>>
    BY <1>2 DEF FPChangePswd
  <2> QED
    BY <2>1, <2>3, <2>4, <2>5, JobStep DEF j
<1>3. ASSUME NEW j \in Job, NEW at \in {"lookup", "is admin"},
             task' = [task EXCEPT ![s] = Walk(at, j)],
             UNCHANGED <<users, version, looper, sessionVars, unnumbered, deleted>>
      PROVE  IInv'
  <2>1. Walk(at, j) \in Job /\ Fits(Walk(at, j))
    BY <1>0, WalkFits DEF Walks
  <2>2. SessionFits(s)
    BY <1>3, SameSession DEF IInv, Typed, sessionVars
  <2> QED
    BY <1>3, <2>1, <2>2, JobStep
<1>4. CASE FPMapID(s)
  <2>1. PICK id \in 0..Cardinality(Name) : LooksUp(s, [Idle EXCEPT !.op = "map id", !.id = id])
    BY <1>4 DEF FPMapID
  <2>2. id \in OrNone(Nat) /\ "map id" \in Op
    BY <1>0, FewUsers DEF OrNone, Op
  <2>3. [Idle EXCEPT !.op = "map id", !.id = id] \in Job
    BY <2>2, AskingID
  <2> QED
    BY <1>3, <2>1, <2>3 DEF LooksUp
<1>5. CASE FPMapName(s)
  <2>1. PICK name \in Name : LooksUp(s, [Idle EXCEPT !.op = "map name", !.name = name])
    BY <1>5 DEF FPMapName
  <2>2. name \in OrNone(Name) /\ "map name" \in Op
    BY DEF OrNone, Op
  <2>3. [Idle EXCEPT !.op = "map name", !.name = name] \in Job
    BY <2>2, AskingJob
  <2> QED
    BY <1>3, <2>1, <2>3 DEF LooksUp
<1>6. CASE FPGetUserInfo(s)
  <2>1. user[s] \in OrNone(Name) /\ "user info" \in Op
    BY <1>0 DEF OrNone, Op
  <2>2. [Idle EXCEPT !.op = "user info", !.name = user[s]] \in Job
    BY <2>1, AskingJob
  <2> QED
    BY <1>3, <1>6, <2>2 DEF FPGetUserInfo, LooksUp
<1>7. CASE IsAdmin(s)
  <2>1. user[s] \in OrNone(Name) /\ "is admin" \in Op
    BY <1>0 DEF OrNone, Op
  <2>2. [Idle EXCEPT !.op = "is admin", !.name = user[s]] \in Job
    BY <2>1, AskingJob
  <2> QED
    BY <1>3, <1>7, <2>2 DEF IsAdmin
<1> QED
  BY <1>1, <1>2, <1>4, <1>5, <1>6, <1>7

(* What is to be shown of a step that leaves the jobs alone, too.          *)
LEMMA SessionOnly ==
    ASSUME IInv, NEW s \in Session, SessionFits(s),
           UNCHANGED <<users, version, looper, task, unnumbered, deleted>>
    PROVE  IInv'
<1>1. task[s] \in Job /\ Fits(task[s])
  BY DEF IInv, Typed, JobsFit
<1>2. task' = [task EXCEPT ![s] = task[s]]
  BY DEF IInv, Typed
<1> QED
  BY <1>1, <1>2, JobStep

LEMMA LoginStep ==
    ASSUME IInv, NEW s \in Session,
           FPLoginDHX(s) \/ FPContLogin(s) \/ FPLogout(s) \/ FPChangePswdBegins(s)
    PROVE  IInv'
<1>0. /\ Typed /\ NamesDiffer(users) /\ uam \in [Session -> {"none", "guest", "clear", "dhx"}]
      /\ blob \in [Session -> Name \cup {None}]
  BY DEF IInv, Typed
<1>1. CASE FPLoginDHX(s)
  <2>1. SessionFits(s)
    <3>1. CASE End(s)
      BY <3>1, EndFits
    <3>2. CASE ~End(s)
      BY <1>0, <1>1, <3>2, SameSession DEF FPLoginDHX
    <3> QED
      BY <3>1, <3>2
  <2> QED
    BY <1>1, <2>1, SessionOnly DEF FPLoginDHX
<1>2. CASE FPLogout(s)
  BY <1>2, EndFits, SessionOnly DEF FPLogout
<1>3. CASE FPChangePswdBegins(s)
  <2>1. SessionFits(s)
    <3>1. CASE End(s)
      BY <3>1, EndFits
    <3>2. CASE ~End(s)
      BY <1>0, <1>3, <3>2, SameSession DEF FPChangePswdBegins
    <3> QED
      BY <3>1, <3>2
  <2> QED
    BY <1>3, <2>1, SessionOnly DEF FPChangePswdBegins
<1>4. CASE FPContLogin(s)
  <2>1. CASE UNCHANGED task /\ End(s)
    BY <1>4, <2>1, EndFits, SessionOnly DEF FPContLogin
  <2>2. CASE UNCHANGED <<task, login, user, uam>> /\ blob' = [blob EXCEPT ![s] = None]
    <3>1. SessionFits(s)
      BY <1>0, <2>2, SameSession
    <3> QED
      BY <1>4, <2>2, <3>1, SessionOnly DEF FPContLogin
  <2>3. CASE /\ blob[s] # None
             /\ \E password \in Password :
                   task' = [task EXCEPT ![s] =
                       Walk("logon", [Idle EXCEPT !.op = "dhx", !.name = blob[s],
                                                  !.old = password])]
             /\ blob' = [blob EXCEPT ![s] = None]
             /\ UNCHANGED <<login, user, uam>>
    <3>1. PICK password \in Password :
            task' = [task EXCEPT ![s] = Walk("logon", LoginJob("dhx", blob[s], password))]
      BY <2>3 DEF LoginJob
    <3> DEFINE j == LoginJob("dhx", blob[s], password)
    <3>2. "dhx" \in Op /\ blob[s] \in OrNone(Name) /\ password \in OrNone(Password)
      BY <1>0 DEF Op, OrNone
    <3>3. j \in Job /\ j.name = blob[s] /\ j.id = None /\ j.op = "dhx"
      BY <3>2, LoginJobFields
    <3> HIDE DEF j
    <3>4. Walk("logon", j) \in Job /\ Fits(Walk("logon", j))
      BY <1>0, <2>3, <3>3, WalkFits DEF Walks
    <3>5. SessionFits(s)
      BY <1>0, <2>3, SameSession
    <3>6. UNCHANGED <<users, version, looper, unnumbered, deleted>>
      BY <1>4 DEF FPContLogin
    <3> QED
      BY <3>1, <3>4, <3>5, <3>6, JobStep DEF j
  <2> QED
    BY <1>4, <2>1, <2>2, <2>3 DEF FPContLogin
<1> QED
  BY <1>1, <1>2, <1>3, <1>4

(* What is known of the job of a session.                                  *)
LEMMA JobOf ==
    ASSUME IInv, NEW s \in Session
    PROVE  /\ Typed /\ NamesDiffer(users) /\ task[s] \in Job /\ Fits(task[s])
           /\ task[s].index \in Nat \ {0}
BY DEF IInv, Typed, JobsFit, Job

LEMMA WalkOnStep ==
    ASSUME IInv, NEW s \in Session, WalkOn(s)
    PROVE  IInv'
<1> DEFINE j == task[s]
           k == [j EXCEPT !.index = @ + 1]
<1>1. Typed /\ NamesDiffer(users) /\ j \in Job /\ Fits(j) /\ j.index \in Nat \ {0}
  BY JobOf
<1>2. j.index <= Len(users) /\ ~Sought(j, users[j.index]) /\ task' = [task EXCEPT ![s] = k]
  BY DEF WalkOn, Passes
<1>3. UNCHANGED <<users, version, looper, sessionVars, unnumbered, deleted>>
  BY DEF WalkOn
<1> HIDE DEF j
<1>4. /\ k \in Job /\ k.index = j.index + 1 /\ k.at = j.at /\ k.op = j.op /\ k.name = j.name
      /\ k.id = j.id /\ k.new = j.new /\ k.record = j.record /\ k.absent = j.absent
      /\ k.shrunk = j.shrunk /\ k.stale = j.stale
  <2>1. j.index + 1 \in Nat \ {0}
    BY <1>1
  <2> QED
    BY <1>1, <2>1 DEF Job
<1> HIDE DEF k
<1>5. Knows(k)
  <2>1. k.index <= Cardinality(Name) + 1
    BY <1>1, <1>2, <1>4, FewUsers, UsersFacts
  <2> QED
    BY <1>1, <1>4, <2>1 DEF Fits, Knows
<1>6. Kept(k) /\ Current(k)
  BY <1>1, <1>4 DEF Fits, Kept, Current
<1>7. Ahead(k)
  <2>1. \A i \in DOMAIN users : Sought(k, users[i]) <=> Sought(j, users[i])
    BY <1>4 DEF Sought
  <2>2. \A i \in DOMAIN users : i >= j.index /\ i # j.index => i >= k.index
    BY <1>1, <1>4, UsersFacts
  <2> QED
    BY <1>1, <1>2, <1>4, <2>1, <2>2 DEF Fits, Ahead
<1>8. SessionFits(s)
  BY <1>1, <1>3, SameSession DEF sessionVars, Typed
<1> QED
  BY <1>2, <1>3, <1>4, <1>5, <1>6, <1>7, <1>8, JobStep DEF Fits

(* A reply ends the job, and maybe the session.                            *)
LEMMA EndOfJob ==
    ASSUME IInv, NEW s \in Session, task' = [task EXCEPT ![s] = Idle],
           SessionFits(s), UNCHANGED <<users, version, looper, unnumbered, deleted>>
    PROVE  IInv'
BY JobOf, IdleJob, IdleFits, JobStep

LEMMA ReplyStep ==
    ASSUME IInv, NEW s \in Session, Reply(s),
           UNCHANGED <<users, version, looper, unnumbered, deleted>>
    PROVE  IInv'
<1>1. SessionFits(s)
  <2>1. CASE login[s]
    BY <2>1, SameSession DEF Reply, sessionVars, IInv, Typed
  <2>2. CASE ~login[s]
    BY <2>2, EndFits DEF Reply
  <2> QED
    BY <2>1, <2>2
<1> QED
  BY <1>1, EndOfJob DEF Reply

LEMMA LookupEndsStep ==
    ASSUME IInv, NEW s \in Session, LookupEnds(s),
           UNCHANGED <<users, version, looper, unnumbered, deleted>>
    PROVE  IInv'
<1>1. SessionFits(s)
  BY SameSession DEF LookupEnds, sessionVars, IInv, Typed
<1>2. CASE task' = [task EXCEPT ![s] = Idle]
  BY <1>1, <1>2, EndOfJob
<1>3. CASE task' = [task EXCEPT ![s] = Walk("is admin", [@ EXCEPT !.op = "is admin"])]
  <2> DEFINE j == task[s]
             k == [j EXCEPT !.op = "is admin"]
  <2>1. Typed /\ NamesDiffer(users) /\ j \in Job
    BY JobOf
  <2>2. task' = [task EXCEPT ![s] = Walk("is admin", k)]
    BY <1>3 DEF IInv, Typed
  <2>3. "is admin" \in Op /\ "is admin" \in Walks
    BY DEF Op, Walks
  <2> HIDE DEF j
  <2>4. k \in Job
    BY <2>1, <2>3 DEF Job
  <2> HIDE DEF k
  <2>5. Walk("is admin", k) \in Job /\ Fits(Walk("is admin", k))
    BY <2>1, <2>3, <2>4, WalkFits
  <2> QED
    BY <1>1, <2>2, <2>5, JobStep
<1> QED
  BY <1>2, <1>3 DEF LookupEnds

LEMMA NotFoundStep ==
    ASSUME IInv, NEW s \in Session, NotFound(s)
    PROVE  IInv'
<1>1. UNCHANGED <<users, version, looper, unnumbered, deleted>>
  BY DEF NotFound
<1>2. CASE task[s].at = "is admin"
  BY <1>1, <1>2, EndFits, EndOfJob DEF NotFound
<1>3. CASE task[s].at = "lookup"
  BY <1>1, <1>3, LookupEndsStep DEF NotFound
<1>4. CASE task[s].at # "is admin" /\ task[s].at # "lookup"
  BY <1>1, <1>4, ReplyStep DEF NotFound
<1> QED
  BY <1>2, <1>3, <1>4

(* A session that is logged in has a name: that of the record, or its own. *)
LEMMA LogonStep ==
    ASSUME IInv, NEW s \in Session, LogonFinds(s)
    PROVE  IInv'
<1> DEFINE result == LogonResult(users[task[s].index], task[s].old)
           in == result = "ok" \/ (result = "expired" /\ task[s].op = "clear")
           named == in \/ (result = "expired" /\ task[s].op = "dhx")
<1>1. task[s].name # None /\ task[s].name \in Name \cup {None}
  BY JobOf DEF LogonFinds, Hits, Fits, Knows, Job, OrNone
<1>2. /\ task' = [task EXCEPT ![s] = Idle]
      /\ UNCHANGED <<users, version, looper, unnumbered, deleted>>
  BY DEF LogonFinds
<1>3. IF ~in /\ ~login[s]
      THEN End(s)
      ELSE /\ login' = [login EXCEPT ![s] = TRUE]
           /\ user' = IF named THEN [user EXCEPT ![s] = task[s].name] ELSE user
           /\ UNCHANGED <<uam, blob>>
  BY DEF LogonFinds
<1>4. in => named
  OBVIOUS
<1> HIDE DEF in, named
<1>5. SessionFits(s)
  <2>1. CASE ~in /\ ~login[s]
    BY <1>3, <2>1, EndFits
  <2>2. CASE in \/ login[s]
    <3>1. /\ login' = [login EXCEPT ![s] = TRUE]
          /\ user' = IF named THEN [user EXCEPT ![s] = task[s].name] ELSE user
          /\ UNCHANGED <<uam, blob>>
      BY <1>3, <2>2
    <3>2. ~named => user[s] # None
      BY <1>4, <2>2 DEF IInv, JobsFit
    <3> QED
      BY <1>1, <3>1, <3>2 DEF SessionFits, IInv, Typed
  <2> QED
    BY <2>1, <2>2
<1> QED
  BY <1>2, <1>5, EndOfJob

LEMMA LookupStep ==
    ASSUME IInv, NEW s \in Session, LookupFinds(s)
    PROVE  IInv'
BY LookupEndsStep DEF LookupFinds

LEMMA ChangeLogsOnStep ==
    ASSUME IInv, NEW s \in Session, ChangeLogsOn(s)
    PROVE  IInv'
<1>1. UNCHANGED <<users, version, looper, unnumbered, deleted>>
  BY DEF ChangeLogsOn
<1>2. CASE Reply(s)
  BY <1>1, <1>2, ReplyStep
<1>3. CASE ~Reply(s)
  <2> DEFINE j == task[s]
             k == [j EXCEPT !.old = None]
  <2>1. Typed /\ NamesDiffer(users) /\ j \in Job /\ Fits(j)
    BY JobOf
  <2>2. /\ task' = [task EXCEPT ![s] = Walk("reread", k)] /\ UNCHANGED sessionVars
        /\ j.at = "logon" /\ j.op = "change"
    BY <1>3, <2>1 DEF ChangeLogsOn, Hits, Typed
  <2>3. "reread" \in Walks /\ None \in OrNone(Password)
    BY DEF Walks, OrNone
  <2> HIDE DEF j
  <2>4. k \in Job /\ k.name = j.name /\ k.id = j.id /\ k.new = j.new
    BY <2>1, <2>3 DEF Job
  <2> HIDE DEF k
  <2>5. j.id = None /\ j.new # None
    BY <2>1, <2>2 DEF Fits, Knows
  <2>6. Walk("reread", k) \in Job /\ Fits(Walk("reread", k))
    BY <2>1, <2>3, <2>4, <2>5, WalkFits
  <2>7. SessionFits(s)
    BY <2>1, <2>2, SameSession DEF sessionVars, Typed
  <2> QED
    BY <1>1, <2>2, <2>6, <2>7, JobStep
<1> QED
  BY <1>2, <1>3

(* A walk that has found somebody by the name is at the record.            *)
LEMMA HitRecord ==
    ASSUME IInv, NEW s \in Session, NEW at \in {"reread", "update"}, Hits(s, at)
    PROVE  /\ task[s].index \in DOMAIN users /\ users[task[s].index] \in User
           /\ users[task[s].index].name = task[s].name /\ task[s].at = at
<1>1. task[s].id = None
  BY JobOf DEF Fits, Knows, Hits
<1>2. task[s].index \in DOMAIN users
  BY JobOf, UsersFacts DEF Hits
<1> QED
  BY <1>1, <1>2, JobOf, UsersFacts DEF Hits, Sought

LEMMA ChangeRereadsStep ==
    ASSUME IInv, NEW s \in Session, ChangeRereads(s)
    PROVE  IInv'
<1>1. UNCHANGED <<users, version, looper, unnumbered, deleted>>
  BY DEF ChangeRereads
<1>2. CASE Reply(s)
  BY <1>1, <1>2, ReplyStep
<1>3. CASE ~Reply(s)
  <2> DEFINE j == task[s]
             r == users[j.index]
             new == [r EXCEPT !.password = j.new, !.flags = @ \ {"must change"}]
             k == [j EXCEPT !.record = new, !.new = None]
  <2>1. Typed /\ NamesDiffer(users) /\ j \in Job /\ Fits(j)
    BY JobOf
  <2>2. /\ task' = [task EXCEPT ![s] = Walk("update", k)] /\ UNCHANGED sessionVars
        /\ Hits(s, "reread")
    BY <1>3, <2>1 DEF ChangeRereads, Typed
  <2>3. j.index \in DOMAIN users /\ r \in User /\ r.name = j.name /\ j.at = "reread"
    BY <2>2, HitRecord
  <2>4. PICK i \in DOMAIN users : i = j.index /\ r = users[i]
    BY <2>3
  <2> HIDE DEF j, r
  <2>5. "update" \in Walks /\ None \in OrNone(Password)
    BY DEF Walks, OrNone
  <2>6. j.id = None /\ j.new \in Password
    BY <2>1, <2>3 DEF Fits, Knows, Job, OrNone
  <2>7. /\ new \in User /\ new.name = r.name /\ new.id = r.id
        /\ new.flags = r.flags \ {"must change"}
    BY <2>3, <2>6 DEF User
  <2> HIDE DEF new
  <2>8. new # None /\ new \in OrNone(User)
    BY <2>7, UserFields DEF OrNone
  <2>9. k \in Job /\ k.name = j.name /\ k.id = j.id /\ k.record = new
    BY <2>1, <2>5, <2>8 DEF Job
  <2> HIDE DEF k
  <2>10. Changes(k.record, i)
    BY <2>4, <2>7, <2>9 DEF Changes
  <2>11. Known(k.name)
    BY <2>3, <2>4, <2>9, KnownIsListed
  <2>12. Walk("update", k) \in Job /\ Fits(Walk("update", k))
    BY <2>1, <2>3, <2>5, <2>6, <2>7, <2>8, <2>9, <2>10, <2>11, WalkFits
  <2>13. SessionFits(s)
    BY <2>1, <2>2, SameSession DEF sessionVars, Typed
  <2> QED
    BY <1>1, <2>2, <2>12, <2>13, JobStep
<1> QED
  BY <1>2, <1>3

LEMMA KeptID ==
    ASSUME NEW r \in User, NEW old \in User
    PROVE  LET k == KeepIDs(r, old) IN
           /\ k \in User /\ k.name = r.name /\ k.id = old.id /\ k.flags = r.flags
           /\ k.password = r.password
BY DEF KeepIDs, User

LEMMA ChangeFindsStep ==
    ASSUME IInv, NEW s \in Session, ChangeFinds(s)
    PROVE  IInv'
<1> DEFINE j == task[s]
           r == users[j.index]
           new == KeepIDs(j.record, r)
           k == [j EXCEPT !.record = new, !.at = "write"]
<1>1. Typed /\ NamesDiffer(users) /\ j \in Job /\ Fits(j) /\ j.record \in OrNone(User)
  BY JobOf DEF Job
<1>2. /\ task' = [task EXCEPT ![s] = k] /\ Hits(s, "update")
      /\ UNCHANGED <<users, version, looper, sessionVars, unnumbered, deleted>>
  BY <1>1 DEF ChangeFinds, Typed
<1>3. j.index \in DOMAIN users /\ r \in User /\ r.name = j.name /\ j.at = "update"
  BY <1>2, HitRecord
<1>4. PICK i \in DOMAIN users : i = j.index /\ r = users[i]
  BY <1>3
<1> HIDE DEF j, r
<1>5. j.record # None /\ j.record.name = j.name
  BY <1>1, <1>3 DEF Fits, Knows, Keeps
<1>6. new \in User /\ new.name = j.name /\ new.id = r.id /\ new.flags = j.record.flags
  BY <1>1, <1>3, <1>5, KeptID DEF OrNone
<1> HIDE DEF new
<1>7. new # None /\ new \in OrNone(User) /\ "write" \in At
  BY <1>6, UserFields DEF OrNone, At
<1>8. /\ k \in Job /\ k.at = "write" /\ k.record = new /\ k.name = j.name /\ k.index = j.index
      /\ k.stale = j.stale
  BY <1>1, <1>7 DEF Job
<1> HIDE DEF k
<1>9. Knows(k)
  BY <1>1, <1>6, <1>7, <1>8 DEF Fits, Knows
<1>10. Kept(k)
  BY <1>3, <1>4, <1>6, <1>8 DEF Kept, Holds
<1>11. Ahead(k)
  BY <1>8 DEF Ahead, Walks
<1>12. Current(k)
  <2> SUFFICES ASSUME ~k.stale
               PROVE  \E x \in DOMAIN users : Changes(k.record, x)
    BY DEF Current
  <2>1. PICK x \in DOMAIN users : Changes(j.record, x)
    BY <1>1, <1>3, <1>8 DEF Fits, Current, Keeps
  <2>2. x = i
    BY <1>1, <1>3, <1>4, <1>5, <2>1 DEF Changes, NamesDiffer
  <2> QED
    BY <1>3, <1>4, <1>6, <1>8, <2>1, <2>2 DEF Changes
<1>13. SessionFits(s)
  BY <1>1, <1>2, SameSession DEF sessionVars, Typed
<1> QED
  BY <1>2, <1>8, <1>9, <1>10, <1>11, <1>12, <1>13, JobStep DEF Fits

-----------------------------------------------------------------------------
(* The writes *)

(* What is to be shown of the record that is written: it has the ID of the *)
(* one it overwrites, or is that of a user unknown so far.                 *)
KeepsID(r) == deleted = 0 => Holds(r) \/ (~Known(r.name) /\ (~unnumbered => r.id = Len(users)))

(* Who is known stays known and keeps the ID.                              *)
LEMMA WriteKeeps ==
    ASSUME Typed, NamesDiffer(users), NEW r \in User, users' \in WriteAttr(r), deleted = 0,
           KeepsID(r), NEW i \in DOMAIN users
    PROVE  \E j \in DOMAIN users' :
              j >= i /\ users'[j].name = users[i].name /\ users'[j].id = users[i].id
<1>1. CASE users[i].name # r.name
  BY <1>1, WriteFacts
<1>2. CASE users[i].name = r.name
  <2>1. Holds(r)
    BY <1>2, KnownIsListed DEF KeepsID
  <2>2. r.id = users[i].id
    BY <1>2, <2>1 DEF Holds, NamesDiffer
  <2>3. i \in DOMAIN users' /\ users'[i] = r
    BY <1>2, WriteFacts
  <2>4. i >= i
    BY UsersFacts
  <2> QED
    BY <1>2, <2>2, <2>3, <2>4
<1> QED
  BY <1>1, <1>2

(* A record that is kept is marked when it is written.                     *)
TouchedJob(k, n, removed) ==
    [k EXCEPT !.shrunk = @ \/ (removed /\ k.at \in Walks),
              !.stale = @ \/ (k.at \in Keeps /\ k.name = n)]

LEMMA TouchedFields ==
    ASSUME NEW k \in Job, NEW n, NEW removed \in BOOLEAN
    PROVE  LET t == TouchedJob(k, n, removed) IN
           /\ t \in Job /\ t.at = k.at /\ t.op = k.op /\ t.name = k.name /\ t.id = k.id
           /\ t.new = k.new /\ t.record = k.record /\ t.index = k.index /\ t.absent = k.absent
           /\ t.shrunk = (k.shrunk \/ (removed /\ k.at \in Walks))
           /\ t.stale = (k.stale \/ (k.at \in Keeps /\ k.name = n))
<1> DEFINE a == k.shrunk \/ (removed /\ k.at \in Walks)
           b == k.stale \/ (k.at \in Keeps /\ k.name = n)
<1>1. a \in BOOLEAN /\ b \in BOOLEAN
  BY DEF Job
<1>2. TouchedJob(k, n, removed) = [k EXCEPT !.shrunk = a, !.stale = b]
  BY DEF TouchedJob
<1> HIDE DEF a, b
<1>3. LET t == TouchedJob(k, n, removed) IN
           /\ t \in Job /\ t.at = k.at /\ t.op = k.op /\ t.name = k.name /\ t.id = k.id
           /\ t.new = k.new /\ t.record = k.record /\ t.index = k.index /\ t.absent = k.absent
           /\ t.shrunk = a /\ t.stale = b
  BY <1>1, <1>2 DEF Job
<1> QED
  BY <1>3 DEF a, b

LEMMA WriteFits ==
    ASSUME Typed, NamesDiffer(users), NEW r \in User, users' \in WriteAttr(r), KeepsID(r),
           UNCHANGED deleted, NEW CONSTANT k, k \in Job, Fits(k)
    PROVE  TouchedJob(k, r.name, FALSE) \in Job /\ Fits(TouchedJob(k, r.name, FALSE))'
<1> DEFINE u == TouchedJob(k, r.name, FALSE)
<1>0. /\ u \in Job /\ u.at = k.at /\ u.op = k.op /\ u.name = k.name /\ u.id = k.id
      /\ u.new = k.new /\ u.record = k.record /\ u.index = k.index /\ u.absent = k.absent
      /\ u.shrunk = k.shrunk
      /\ u.stale = (k.stale \/ (k.at \in Keeps /\ k.name = r.name))
      /\ u.index \in Nat
  <2>1. /\ u \in Job /\ u.at = k.at /\ u.op = k.op /\ u.name = k.name /\ u.id = k.id
        /\ u.new = k.new /\ u.record = k.record /\ u.index = k.index /\ u.absent = k.absent
        /\ u.shrunk = (k.shrunk \/ (FALSE /\ k.at \in Walks))
        /\ u.stale = (k.stale \/ (k.at \in Keeps /\ k.name = r.name))
    <3>1. PICK f \in BOOLEAN : f = FALSE
      OBVIOUS
    <3>2. u = TouchedJob(k, r.name, f)
      BY <3>1
    <3> HIDE DEF u
    <3>3. /\ u \in Job /\ u.at = k.at /\ u.op = k.op /\ u.name = k.name /\ u.id = k.id
          /\ u.new = k.new /\ u.record = k.record /\ u.index = k.index
          /\ u.absent = k.absent /\ u.shrunk = (k.shrunk \/ (f /\ k.at \in Walks))
          /\ u.stale = (k.stale \/ (k.at \in Keeps /\ k.name = r.name))
      BY <3>2, TouchedFields
    <3> QED
      BY <3>1, <3>3
  <2>2. k.shrunk \in BOOLEAN /\ k.index \in Nat
    BY DEF Job
  <2> HIDE DEF u
  <2>3. u.shrunk = k.shrunk
    BY <2>1, <2>2
  <2> QED
    BY <2>1, <2>2, <2>3
<1>1. PICK t : t = u
  OBVIOUS
<1> HIDE DEF u
<1>2. Knows(t)'
  BY <1>0, <1>1 DEF Fits, Knows
<1>3. Kept(t)'
  <2> SUFFICES ASSUME deleted = 0
               PROVE  /\ t.at = "update" => Known(t.name)'
                      /\ t.at = "write" => Holds(t.record)'
    BY DEF Kept
  <2>1. t.at = "update" => Known(t.name)'
    <3>1. t.at = "update" => \E i \in DOMAIN users : users[i].name = t.name
      BY <1>0, <1>1, KnownIsListed DEF Fits, Kept
    <3>2. t.at = "update" => \E j \in DOMAIN users' : users'[j].name = t.name
      BY <3>1, WriteKeeps
    <3> QED
      BY <3>2 DEF Known, Index
  <2>2. t.at = "write" => Holds(t.record)'
    BY <1>0, <1>1, WriteKeeps DEF Fits, Kept, Holds
  <2> QED
    BY <2>1, <2>2
<1>4. Ahead(t)'
  <2> SUFFICES ASSUME t.at \in Walks, ~t.absent, ~t.shrunk, t.id # None => deleted = 0
               PROVE  \E j \in DOMAIN users' : j >= t.index /\ Sought(t, users'[j])
    BY DEF Ahead
  <2>1. PICK i \in DOMAIN users : i >= t.index /\ Sought(t, users[i])
    BY <1>0, <1>1 DEF Fits, Ahead, Sought
  <2>2. PICK j \in DOMAIN users' : j >= i /\ Sought(t, users'[j])
    <3>1. CASE t.id # None
      BY <2>1, <3>1, WriteKeeps DEF Sought
    <3>2. CASE t.id = None
      <4>1. CASE users[i].name # r.name
        BY <2>1, <4>1, WriteFacts
      <4>2. CASE users[i].name = r.name
        <5>1. i \in DOMAIN users' /\ users'[i] = r /\ i >= i
          BY <4>2, WriteFacts, UsersFacts
        <5> QED
          BY <2>1, <3>2, <4>2, <5>1 DEF Sought
      <4> QED
        BY <4>1, <4>2
    <3> QED
      BY <3>1, <3>2
  <2>3. i \in Nat /\ j \in Nat /\ t.index \in Nat
    <3>1. users' \in Seq(User)
      BY WriteFacts
    <3> QED
      BY <1>0, <1>1, <3>1, UsersFacts
  <2>4. j >= t.index
    BY <2>1, <2>2, <2>3
  <2> QED
    BY <2>2, <2>4
<1>5. Current(t)'
  <2> SUFFICES ASSUME t.at \in Keeps, ~t.stale
               PROVE  \E j \in DOMAIN users' : Changes(t.record, j)'
    BY DEF Current
  <2>1. ~k.stale /\ k.name # r.name /\ k.record.name = k.name
    BY <1>0, <1>1 DEF Fits, Knows
  <2>2. PICK i \in DOMAIN users : Changes(t.record, i)
    BY <1>0, <1>1, <2>1 DEF Fits, Current
  <2>3. users[i].name # r.name
    BY <1>0, <1>1, <2>1, <2>2 DEF Changes
  <2>4. PICK j \in DOMAIN users' : users'[j] = users[i]
    BY <2>3, WriteFacts
  <2> QED
    BY <2>2, <2>4 DEF Changes
<1> QED
  BY <1>0, <1>1, <1>2, <1>3, <1>4, <1>5 DEF Fits, u

(* The IDs stay counted.                                                   *)
LEMMA WriteCounts ==
    ASSUME Typed, NamesDiffer(users), IDsAreCounted, NEW r \in User, users' \in WriteAttr(r),
           KeepsID(r), ~unnumbered, deleted = 0
    PROVE  /\ \A i, j \in DOMAIN users' : users'[i].id = users'[j].id => i = j
           /\ \A i \in DOMAIN users' : users'[i].id < Len(users')
           /\ Holds(r) => Len(users') = Len(users)
<1> DEFINE n == Len(users)
<1>0. /\ \A i, j \in DOMAIN users : users[i].id = users[j].id => i = j
      /\ \A i \in DOMAIN users : users[i].id < n /\ users[i].id \in Nat
      /\ n \in Nat
  BY UsersFacts, UserFields DEF IDsAreCounted
<1>1. CASE Holds(r)
  <2>1. PICK k \in DOMAIN users : users[k].name = r.name /\ users[k].id = r.id
    BY <1>1 DEF Holds
  <2>2. Known(r.name)
    BY <2>1, KnownIsListed
  <2>3. Len(users') = n /\ DOMAIN users' = DOMAIN users
    <3>1. users' \in Seq(User) /\ Len(users') = n
      BY <2>2, WriteFacts
    <3> QED
      BY <3>1, UsersFacts
  <2>4. \A i \in DOMAIN users : users'[i].id = users[i].id
    <3> SUFFICES ASSUME NEW i \in DOMAIN users
                 PROVE  users'[i].id = users[i].id
      OBVIOUS
    <3>1. CASE users[i].name # r.name
      BY <2>2, <3>1, WriteFacts
    <3>2. CASE users[i].name = r.name
      <4>1. i = k
        BY <2>1, <3>2 DEF NamesDiffer
      <4> QED
        BY <2>1, <3>2, <4>1, WriteFacts
    <3> QED
      BY <3>1, <3>2
  <2> HIDE DEF n
  <2>5. \A i, j \in DOMAIN users' : users'[i].id = users'[j].id => i = j
    BY <1>0, <2>3, <2>4
  <2>6. \A i \in DOMAIN users' : users'[i].id < Len(users')
    BY <1>0, <2>3, <2>4
  <2> QED
    BY <2>3, <2>5, <2>6 DEF n
<1>2. CASE ~Holds(r)
  <2>1. ~Known(r.name) /\ r.id = n
    BY <1>2 DEF KeepsID
  <2>2. Len(users') = n + 1
    BY <2>1, WriteFacts
  <2> HIDE DEF n
  <2>3. \A j \in DOMAIN users' : users'[j] = r \/ \E i \in DOMAIN users : users'[j] = users[i]
    BY WriteFacts
  <2>4. \A i \in DOMAIN users' : users'[i].id < Len(users')
    BY <1>0, <2>1, <2>2, <2>3
  <2>5. NamesDiffer(users')
    BY WriteFacts
  <2>6. \A i, j \in DOMAIN users' : users'[i].id = users'[j].id => i = j
    <3> SUFFICES ASSUME NEW i \in DOMAIN users', NEW j \in DOMAIN users',
                        users'[i].id = users'[j].id
                 PROVE  i = j
      OBVIOUS
    <3>1. users'[i] = users'[j]
      <4>1. CASE users'[i] = r
        <5>1. users'[j] = r
          BY <1>0, <2>1, <2>3, <4>1
        <5> QED
          BY <4>1, <5>1
      <4>2. CASE users'[i] # r
        <5>1. users'[j] # r
          BY <1>0, <2>1, <2>3, <4>2
        <5> QED
          BY <1>0, <2>3, <4>2, <5>1
      <4> QED
        BY <4>1, <4>2
    <3> QED
      BY <2>5, <3>1 DEF NamesDiffer
  <2> QED
    BY <1>2, <2>4, <2>6
<1> QED
  BY <1>1, <1>2

(* The last step of a change of password: its own job ends, and those of   *)
(* the others are marked.                                                  *)
LEMMA ChangeWritesStep ==
    ASSUME IInv, NEW s \in Session, ChangeWrites(s)
    PROVE  IInv'
<1> DEFINE r == task[s].record
<1>1. Typed /\ NamesDiffer(users) /\ task[s] \in Job /\ Fits(task[s])
  BY JobOf
<1>2. r \in User /\ r.name = task[s].name
  BY <1>1 DEF ChangeWrites, Fits, Knows, Keeps, Job, OrNone
<1>3. KeepsID(r) /\ (deleted = 0 => Holds(r))
  BY <1>1 DEF ChangeWrites, Fits, Kept, KeepsID
<1>4. /\ users' \in WriteAttr(r) /\ task' = [Touched(r.name, FALSE) EXCEPT ![s] = Idle]
      /\ UNCHANGED <<version, looper, unnumbered, deleted>>
  BY <1>2 DEF ChangeWrites
<1>5. PICK q : q = r
  OBVIOUS
<1>6. \A t \in Session : task[t] \in Job /\ Fits(task[t])
  BY DEF IInv, Typed, JobsFit
<1>7. /\ task'[s] = Idle
      /\ \A t \in Session \ {s} : task'[t] = TouchedJob(task[t], r.name, FALSE)
      /\ DOMAIN task' = Session /\ task' = [t \in Session |-> task'[t]]
  BY <1>4 DEF Touched, TouchedJob
<1> HIDE DEF r
<1>8. ASSUME NEW t \in Session
      PROVE  task'[t] \in Job /\ Fits(task[t])'
  <2>1. CASE t = s
    <3>1. Idle.index <= Cardinality(Name) + 1
      BY <1>1, FewUsers, IdleJob
    <3>2. Fits(Idle)'
      BY <3>1, IdleJob DEF Fits, Knows, Kept, Ahead, Current, Walks, Keeps
    <3>3. PICK k : k = Idle
      OBVIOUS
    <3> QED
      BY <1>7, <2>1, <3>2, IdleJob
  <2>2. CASE t # s
    <3>1. PICK k : k = task[t]
      OBVIOUS
    <3>2. TouchedJob(k, q.name, FALSE) \in Job /\ Fits(TouchedJob(k, q.name, FALSE))'
      BY <1>1, <1>2, <1>3, <1>4, <1>5, <1>6, <3>1, WriteFits
    <3>3. task'[t] = TouchedJob(k, q.name, FALSE)
      BY <1>5, <1>7, <2>2, <3>1
    <3> QED
      BY <3>2, <3>3
  <2> QED
    BY <2>1, <2>2
<1>9. SessionFits(s)
  <2>1. CASE login[s]
    BY <2>1, SameSession DEF ChangeWrites, sessionVars, IInv, Typed
  <2>2. CASE ~login[s]
    BY <2>2, EndFits DEF ChangeWrites
  <2> QED
    BY <2>1, <2>2
<1>10. JobsFit'
  BY <1>8, <1>9 DEF JobsFit, SessionFits, IInv
<1>11. Typed' /\ NamesDiffer(users')
  <2>1. task' \in [Session -> Job]
    BY <1>7, <1>8
  <2>2. users' \in Seq(User) /\ NamesDiffer(users')
    BY <1>1, <1>2, <1>4, WriteFacts
  <2> QED
    BY <1>1, <1>4, <1>9, <2>1, <2>2 DEF Typed, SessionFits
<1>12. \A name : Known(name) => Known(name)'
  <2> SUFFICES ASSUME NEW i \in DOMAIN users
               PROVE  \E j \in DOMAIN users' : users'[j].name = users[i].name
    BY DEF Known, Index
  <2> QED
    BY <1>1, <1>2, <1>4, WriteFacts
<1>13. deleted = 0 => \A name : Known(name)' => Known(name)
  <2> SUFFICES ASSUME NEW j \in DOMAIN users', deleted = 0
               PROVE  \E i \in DOMAIN users : users[i].name = users'[j].name
    BY DEF Known, Index
  <2> QED
    BY <1>1, <1>2, <1>3, <1>4, WriteFacts DEF Holds
<1>14. LooperFits'
  <2>1. deleted = 0 /\ Holds(looper.record) => Holds(looper.record)'
    BY <1>1, <1>2, <1>3, <1>4, WriteKeeps DEF Holds
  <2> QED
    BY <1>4, <1>12, <1>13, <2>1 DEF IInv, LooperFits
<1>15. IDsAreCounted'
  BY <1>1, <1>2, <1>3, <1>4, WriteCounts DEF IInv, IDsAreCounted
<1> QED
  BY <1>10, <1>11, <1>14, <1>15 DEF IInv

-----------------------------------------------------------------------------
(* The looper *)

LooperTyped(l) ==
    /\ l \in [at : {"idle", "count", "insert", "stamp", "find", "write", "upgrade", "guest",
                    "down"}, record : User \cup {None}, index : Nat]

LEMMA RestingFields ==
    ASSUME NEW at \in {"idle", "stamp", "guest", "down"}
    PROVE  LET l == [Resting EXCEPT !.at = at] IN
           LooperTyped(l) /\ LooperTyped(Resting) /\ Resting.at = "idle" /\ l.at = at
BY DEF Resting, LooperTyped

LEMMA RestingRecord ==
    ASSUME NEW at \in {"count", "find"}, NEW r \in User
    PROVE  LET l == [Resting EXCEPT !.at = at, !.record = r] IN
           LooperTyped(l) /\ l.at = at /\ l.record = r
BY DEF Resting, LooperTyped

(* What is to be shown of a step in which the looper alone does something, *)
(* and leaves the users as they are.                                       *)
LEMMA LooperOnly ==
    ASSUME IInv, UNCHANGED <<users, task, sessionVars, unnumbered, deleted>>,
           version' \in 0..2, LooperTyped(looper'), LooperFits',
           looper'.at = "insert" /\ deleted = 0 /\ ~unnumbered => looper'.record.id = Len(users)
    PROVE  IInv'
<1>1. Typed' /\ NamesDiffer(users')
  BY DEF IInv, Typed, LooperTyped, sessionVars
<1>2. ASSUME NEW CONSTANT k, Fits(k)
      PROVE  Fits(k)'
  <2>1. Knows(k)'
    BY <1>2 DEF Fits, Knows
  <2>2. Kept(k)'
    BY <1>2 DEF Fits, Kept, Known, Index, Holds
  <2>3. Ahead(k)'
    BY <1>2 DEF Fits, Ahead
  <2>4. Current(k)'
    BY <1>2 DEF Fits, Current, Changes
  <2> QED
    BY <2>1, <2>2, <2>3, <2>4 DEF Fits
<1>3. JobsFit'
  <2> SUFFICES ASSUME NEW s \in Session
               PROVE  Fits(task[s])' /\ (login'[s] => user'[s] # None)
    BY DEF JobsFit
  <2>1. PICK k : k = task[s]
    OBVIOUS
  <2>2. Fits(k)'
    BY <1>2, <2>1 DEF IInv, JobsFit
  <2>3. Fits(task[s])'
    BY <2>1, <2>2
  <2> QED
    BY <2>3 DEF IInv, JobsFit, sessionVars
<1>4. IDsAreCounted'
  BY DEF IInv, IDsAreCounted
<1> QED
  BY <1>1, <1>3, <1>4 DEF IInv

LEMMA RecordStep ==
    ASSUME IInv, CMD_AFP_ADDUSER \/ CMD_AFP_UPDATEUSERINFO \/ GuestIsMade
    PROVE  IInv'
<1>0. UNCHANGED <<users, task, sessionVars, unnumbered, deleted, version>>
  BY DEF CMD_AFP_ADDUSER, CMD_AFP_UPDATEUSERINFO, GuestIsMade, looperElse
<1>1. version' \in 0..2
  BY <1>0 DEF IInv, Typed
<1>2. \A n : Known(n)' <=> Known(n)
  BY <1>0 DEF Known, Index
<1>3. \A name \in Name, given \in [password : Password, flags : SUBSET Flag] :
         NewUser(name, given) \in User /\ NewUser(name, given).name = name
  BY DEF NewUser, User
<1>4. ASSUME NEW r \in User,
             \/ /\ looper' = [Resting EXCEPT !.at = "count", !.record = r]
                /\ ~Known(r.name)
             \/ /\ looper' = [Resting EXCEPT !.at = "find", !.record = r]
                /\ Known(r.name)
      PROVE  IInv'
  <2>1. LooperTyped(looper') /\ looper'.record = r
    BY <1>4, RestingRecord
  <2>2. \/ looper'.at = "count" /\ ~Known(r.name)
        \/ looper'.at = "find" /\ Known(r.name)
    BY <1>4, RestingRecord
  <2>3. LooperFits'
    BY <1>2, <2>1, <2>2, UserFields DEF LooperFits
  <2> QED
    BY <1>0, <1>1, <2>1, <2>2, <2>3, LooperOnly
<1>5. CASE CMD_AFP_ADDUSER
  BY <1>3, <1>4, <1>5, SettingsAssumption DEF CMD_AFP_ADDUSER
<1>6. CASE CMD_AFP_UPDATEUSERINFO
  BY <1>3, <1>4, <1>6, SettingsAssumption DEF CMD_AFP_UPDATEUSERINFO
<1>7. CASE GuestIsMade
  <2>1. CASE Known(Guest)
    <3>1. looper' = Resting
      BY <1>7, <2>1 DEF GuestIsMade
    <3>2. LooperFits'
      BY <3>1, RestingFields DEF LooperFits
    <3> QED
      BY <1>0, <1>1, <3>1, <3>2, RestingFields, LooperOnly
  <2>2. CASE ~Known(Guest)
    <3>1. [password |-> Blank, flags |-> {}] \in [password : Password, flags : SUBSET Flag]
      BY PasswordAssumption
    <3>2. NewGuest \in User /\ NewGuest.name = Guest
      BY <1>3, <3>1, NameAssumption DEF NewGuest
    <3>3. looper' = [Resting EXCEPT !.at = "count", !.record = NewGuest]
      BY <1>7, <2>2 DEF GuestIsMade
    <3> QED
      BY <1>4, <2>2, <3>2, <3>3
  <2> QED
    BY <2>1, <2>2
<1> QED
  BY <1>5, <1>6, <1>7

LEMMA NumberStep ==
    ASSUME IInv, NewUserIsNumbered \/ UpdateFinds
    PROVE  IInv'
<1> DEFINE l == looper
           r == looper.record
<1>0. UNCHANGED <<users, task, sessionVars, unnumbered, deleted>> /\ version' \in 0..2
  BY DEF NewUserIsNumbered, UpdateFinds, looperElse, IInv, Typed
<1>1. \A n : Known(n)' <=> Known(n)
  BY <1>0 DEF Known, Index
<1>2. r \in User /\ LooperTyped(looper)
  BY DEF NewUserIsNumbered, UpdateFinds, IInv, Typed, LooperTyped, LooperFits
<1>3. ASSUME NEW q \in User, NEW at \in {"insert", "write"},
             looper' = [looper EXCEPT !.at = at, !.record = q]
      PROVE  LooperTyped(looper') /\ looper'.at = at /\ looper'.record = q
  BY <1>2, <1>3 DEF LooperTyped
<1>4. CASE NewUserIsNumbered
  <2>1. PICK q : q = [r EXCEPT !.id = NextID]
    OBVIOUS
  <2>2. q \in User /\ q.name = r.name /\ q.id = Len(users)
    BY <1>2, <2>1, UsersFacts DEF User, NextID, IInv
  <2>3. looper' = [looper EXCEPT !.at = "insert", !.record = q]
    BY <1>2, <1>4, <2>1 DEF NewUserIsNumbered, LooperTyped
  <2>4. LooperTyped(looper') /\ looper'.at = "insert" /\ looper'.record = q
    BY <1>3, <2>2, <2>3
  <2>5. LooperFits'
    BY <1>0, <1>1, <1>4, <2>2, <2>4, UserFields DEF NewUserIsNumbered, IInv, LooperFits
  <2> QED
    BY <1>0, <2>2, <2>4, <2>5, LooperOnly
<1>5. CASE UpdateFinds
  <2>1. PICK q : q = KeepIDs(r, Named(r.name))
    OBVIOUS
  <2>2. /\ Known(r.name) /\ Place(r.name) \in DOMAIN users
        /\ users[Place(r.name)].name = r.name /\ Named(r.name) = users[Place(r.name)]
        /\ Named(r.name) \in User
    BY <1>5, PlaceIsPlace DEF UpdateFinds, IInv, LooperFits
  <2>3. q \in User /\ q.name = r.name /\ q.id = Named(r.name).id
    BY <1>2, <2>1, <2>2, KeptID
  <2>4. looper' = [looper EXCEPT !.at = "write", !.record = q]
    BY <1>2, <1>5, <2>1 DEF UpdateFinds, LooperTyped
  <2>5. LooperTyped(looper') /\ looper'.at = "write" /\ looper'.record = q
    BY <1>3, <2>3, <2>4
  <2>6. Holds(looper'.record)
    BY <2>2, <2>3, <2>5 DEF Holds
  <2>7. Holds(looper.record)'
    BY <1>0, <2>6 DEF Holds
  <2>8. LooperFits'
    BY <1>1, <2>2, <2>3, <2>5, <2>7, UserFields DEF LooperFits
  <2> QED
    BY <1>0, <2>5, <2>8, LooperOnly
<1> QED
  BY <1>4, <1>5

LEMMA StartStep ==
    ASSUME IInv, ServerStarts \/ NewDatabaseIsStamped \/ Upgrade
    PROVE  IInv'
<1>0. UNCHANGED <<users, task, sessionVars, unnumbered, deleted>> /\ version' \in 0..2
  BY DEF ServerStarts, NewDatabaseIsStamped, Upgrade, looperElse, IInv, Typed
<1>1. \A n : Known(n)' <=> Known(n)
  BY <1>0 DEF Known, Index
<1>2. CASE looper' = Resting \/ looper' = [Resting EXCEPT !.at = "guest"]
  <2>1. LooperTyped(looper') /\ looper'.at \in {"idle", "guest"}
    BY <1>2, RestingFields
  <2>2. LooperFits'
    BY <2>1 DEF LooperFits
  <2> QED
    BY <1>0, <2>1, <2>2, LooperOnly
<1>3. CASE looper' = [Resting EXCEPT !.at = "upgrade", !.index = 1]
  <2>1. LooperTyped(looper') /\ looper'.at = "upgrade" /\ looper'.index = 1
    BY <1>3 DEF Resting, LooperTyped
  <2>2. LooperFits'
    BY <2>1 DEF LooperFits
  <2> QED
    BY <1>0, <2>1, <2>2, LooperOnly
<1>4. CASE Upgrade /\ looper.index <= Len(users)
  <2>1. looper.index \in DOMAIN users /\ LooperTyped(looper) /\ looper.index - 1 \in Nat
    <3>1. looper.index \in Nat /\ looper.index # 0 /\ LooperTyped(looper)
      BY <1>4 DEF Upgrade, IInv, LooperFits, Typed, LooperTyped
    <3> QED
      BY <1>4, <3>1, UsersFacts DEF IInv
  <2>2. PICK i \in DOMAIN users : i = looper.index
    BY <2>1
  <2>3. users[i] \in User
    BY UsersFacts DEF IInv
  <2>4. PICK q : q = [users[i] EXCEPT !.id = i - 1]
    OBVIOUS
  <2>5. q \in User /\ q.name = users[i].name
    BY <2>1, <2>2, <2>3, <2>4 DEF User
  <2>6. looper' = [looper EXCEPT !.at = "find", !.record = q]
    BY <1>4, <2>2, <2>4 DEF Upgrade
  <2>7. LooperTyped(looper') /\ looper'.at = "find" /\ looper'.record = q
    BY <2>1, <2>5, <2>6 DEF LooperTyped
  <2>8. Known(q.name)
    BY <2>5, KnownIsListed
  <2>9. LooperFits'
    BY <1>1, <2>5, <2>7, <2>8, UserFields DEF LooperFits
  <2> QED
    BY <1>0, <2>7, <2>9, LooperOnly
<1> QED
  BY <1>2, <1>3, <1>4 DEF ServerStarts, NewDatabaseIsStamped, Upgrade

(* The writes of the looper mark all jobs.                                 *)
LEMMA LooperWritesStep ==
    ASSUME IInv, NewUserIsWritten \/ UpdateWrites
    PROVE  IInv'
<1> DEFINE r == looper.record
<1>1. Typed /\ NamesDiffer(users) /\ LooperFits /\ IDsAreCounted /\ JobsFit
  BY DEF IInv
<1>2. r \in User
  BY <1>1 DEF NewUserIsWritten, UpdateWrites, Typed, LooperFits
<1>3. KeepsID(r)
  BY <1>1 DEF NewUserIsWritten, UpdateWrites, LooperFits, IDsAreCounted, KeepsID
<1>4. /\ users' \in WriteAttr(r) /\ task' = Touched(r.name, FALSE)
      /\ UNCHANGED <<version, sessionVars, unnumbered, deleted>>
  BY DEF NewUserIsWritten, UpdateWrites, looperElse
<1>5. /\ LooperTyped(looper') /\ looper'.at \in {"idle", "stamp", "upgrade"}
      /\ looper'.at = "upgrade" => looper'.index # 0
  <2>1. CASE looper' = Resting \/ looper' = [Resting EXCEPT !.at = "stamp"]
    BY <2>1, RestingFields
  <2>2. CASE looper' = [Resting EXCEPT !.at = "upgrade", !.index = looper.index + 1]
    <3>1. looper.index + 1 \in Nat /\ looper.index + 1 # 0
      BY <1>1 DEF Typed
    <3> QED
      BY <2>2, <3>1 DEF Resting, LooperTyped
  <2> QED
    BY <2>1, <2>2 DEF NewUserIsWritten, UpdateWrites
<1>6. PICK q : q = r
  OBVIOUS
<1>7. \A t \in Session : task[t] \in Job /\ Fits(task[t])
  BY <1>1 DEF Typed, JobsFit
<1>8. /\ \A t \in Session : task'[t] = TouchedJob(task[t], r.name, FALSE)
      /\ DOMAIN task' = Session /\ task' = [t \in Session |-> task'[t]]
  BY <1>4 DEF Touched, TouchedJob
<1> HIDE DEF r
<1>9. ASSUME NEW t \in Session
      PROVE  task'[t] \in Job /\ Fits(task[t])'
  <2>1. PICK k : k = task[t]
    OBVIOUS
  <2>2. TouchedJob(k, q.name, FALSE) \in Job /\ Fits(TouchedJob(k, q.name, FALSE))'
    BY <1>1, <1>2, <1>3, <1>4, <1>6, <1>7, <2>1, WriteFits
  <2>3. task'[t] = TouchedJob(k, q.name, FALSE)
    BY <1>6, <1>8, <2>1
  <2> QED
    BY <2>2, <2>3
<1>10. JobsFit'
  BY <1>1, <1>4, <1>9 DEF JobsFit, sessionVars
<1>11. Typed' /\ NamesDiffer(users')
  <2>1. task' \in [Session -> Job]
    BY <1>8, <1>9
  <2>2. users' \in Seq(User) /\ NamesDiffer(users')
    BY <1>1, <1>2, <1>4, WriteFacts
  <2> QED
    BY <1>1, <1>4, <1>5, <2>1, <2>2 DEF Typed, LooperTyped, sessionVars
<1>12. LooperFits'
  BY <1>5 DEF LooperFits
<1>13. IDsAreCounted'
  BY <1>1, <1>2, <1>3, <1>4, <1>5, WriteCounts DEF IDsAreCounted
<1> QED
  BY <1>10, <1>11, <1>12, <1>13 DEF IInv

(* A deletion is told to those who walk and those who keep that record.    *)
LEMMA DeleteStep ==
    ASSUME IInv, CMD_AFP_DELUSER
    PROVE  IInv'
<1>1. Typed /\ NamesDiffer(users) /\ LooperFits /\ JobsFit
  BY DEF IInv
<1>2. PICK name \in Name : /\ Known(name) /\ users' = RemoveAt(users, Place(name))
                           /\ task' = Touched(name, TRUE)
  BY DEF CMD_AFP_DELUSER, RemoveAttr
<1>3. /\ looper.at = "idle" /\ deleted' \in 0..MaxDeletions /\ deleted' # 0
      /\ UNCHANGED <<version, looper, sessionVars, unnumbered>>
  BY <1>1, BoundAssumption DEF CMD_AFP_DELUSER, looperElse, Typed
<1> DEFINE p == Place(name)
           n == Len(users)
<1>4. p \in DOMAIN users /\ users[p].name = name
  BY <1>1, <1>2, PlaceIsPlace
<1>5. n \in Nat /\ DOMAIN users = 1..n /\ users \in Seq(User)
  BY <1>1, UsersFacts DEF Typed
<1>6. /\ users' \in Seq(User) /\ Len(users') = n - 1 /\ DOMAIN users' = 1..n-1
      /\ \A j \in 1..n-1 : users'[j] = IF j < p THEN users[j] ELSE users[j + 1]
  <2> HIDE DEF p
  <2>1. /\ users' \in Seq(User) /\ Len(users') = n - 1
        /\ \A j \in DOMAIN users' : users'[j] = IF j < p THEN users[j] ELSE users[j + 1]
    BY <1>2, <1>4, <1>5, RemoveAtType DEF p
  <2>2. DOMAIN users' = 1..n-1
    BY <2>1
  <2> QED
    BY <2>1, <2>2
<1> HIDE DEF p, n
<1>7. NamesDiffer(users')
  <2> SUFFICES ASSUME NEW i \in 1..n-1, NEW j \in 1..n-1, users'[i].name = users'[j].name
               PROVE  i = j
    BY <1>6 DEF NamesDiffer
  <2> DEFINE to(x) == IF x < p THEN x ELSE x + 1
  <2>1. to(i) \in 1..n /\ to(j) \in 1..n /\ (to(i) = to(j) => i = j)
    BY <1>4, <1>5
  <2>2. users'[i] = users[to(i)] /\ users'[j] = users[to(j)]
    BY <1>6
  <2> QED
    BY <1>1, <1>5, <2>1, <2>2 DEF NamesDiffer
<1>8. \A i \in DOMAIN users : users[i].name # name
         => \E j \in DOMAIN users' : users'[j] = users[i]
  <2> SUFFICES ASSUME NEW i \in 1..n, users[i].name # name
               PROVE  \E j \in 1..n-1 : users'[j] = users[i]
    BY <1>5, <1>6
  <2>1. i # p
    BY <1>4
  <2>2. CASE i < p
    <3>1. i \in 1..n-1
      BY <1>4, <1>5, <2>2
    <3> QED
      BY <1>6, <2>2, <3>1
  <2>3. CASE ~(i < p)
    <3>1. i - 1 \in 1..n-1 /\ ~(i - 1 < p) /\ i - 1 + 1 = i
      BY <1>4, <1>5, <2>1, <2>3
    <3> QED
      BY <1>6, <3>1
  <2> QED
    BY <2>2, <2>3
<1>9. \A t \in Session : task[t] \in Job /\ Fits(task[t])
  BY <1>1 DEF Typed, JobsFit
<1>10. PICK removed \in BOOLEAN : removed = TRUE
  OBVIOUS
<1>11. /\ \A t \in Session : task'[t] = TouchedJob(task[t], name, removed)
       /\ DOMAIN task' = Session /\ task' = [t \in Session |-> task'[t]]
  BY <1>2, <1>10 DEF Touched, TouchedJob
<1>12. ASSUME NEW t \in Session
       PROVE  task'[t] \in Job /\ Fits(task[t])'
  <2>1. PICK k : k = task[t]
    OBVIOUS
  <2>2. PICK m : m = TouchedJob(k, name, removed)
    OBVIOUS
  <2>3. /\ m \in Job /\ m.at = k.at /\ m.op = k.op /\ m.name = k.name /\ m.id = k.id
        /\ m.new = k.new /\ m.record = k.record /\ m.index = k.index /\ m.absent = k.absent
        /\ m.shrunk = (k.shrunk \/ (removed /\ k.at \in Walks))
        /\ m.stale = (k.stale \/ (k.at \in Keeps /\ k.name = name))
    BY <1>9, <2>1, <2>2, TouchedFields
  <2>4. Fits(k)
    BY <1>9, <2>1
  <2>5. Knows(m)'
    BY <2>3, <2>4 DEF Fits, Knows
  <2>6. Kept(m)'
    BY <1>3 DEF Kept
  <2>7. Ahead(m)'
    BY <1>10, <2>3 DEF Ahead
  <2>8. Current(m)'
    <3> SUFFICES ASSUME m.at \in Keeps, ~m.stale
                 PROVE  \E j \in DOMAIN users' : Changes(m.record, j)'
      BY DEF Current
    <3>1. ~k.stale /\ k.name # name /\ k.record.name = k.name
      BY <2>3, <2>4 DEF Fits, Knows
    <3>2. PICK i \in DOMAIN users : Changes(m.record, i)
      BY <2>3, <2>4, <3>1 DEF Fits, Current
    <3>3. users[i].name # name
      BY <2>3, <3>1, <3>2 DEF Changes
    <3>4. PICK j \in DOMAIN users' : users'[j] = users[i]
      BY <1>8, <3>3
    <3> QED
      BY <3>2, <3>4 DEF Changes
  <2>9. task'[t] = m
    BY <1>11, <2>1, <2>2
  <2> QED
    BY <2>3, <2>5, <2>6, <2>7, <2>8, <2>9 DEF Fits
<1>13. JobsFit'
  BY <1>1, <1>3, <1>12 DEF JobsFit, sessionVars
<1>14. Typed'
  <2>1. task' \in [Session -> Job]
    BY <1>11, <1>12
  <2> QED
    BY <1>1, <1>3, <1>6, <2>1 DEF Typed, sessionVars
<1>15. LooperFits' /\ IDsAreCounted'
  BY <1>1, <1>3 DEF LooperFits, IDsAreCounted
<1> QED
  BY <1>7, <1>13, <1>14, <1>15 DEF IInv

(* All sessions are gone.                                                  *)
LEMMA NobodyFits ==
    ASSUME Typed, NamesDiffer(users),
           task' = [s \in Session |-> Idle], login' = [s \in Session |-> FALSE],
           UNCHANGED <<users, deleted>>
    PROVE  JobsFit' /\ task' \in [Session -> Job]
<1>1. Idle.index <= Cardinality(Name) + 1
  BY FewUsers, IdleJob
<1>2. Fits(Idle)'
  BY <1>1, IdleJob DEF Fits, Knows, Kept, Ahead, Current, Walks, Keeps
<1>3. ASSUME NEW s \in Session
      PROVE  Fits(task[s])' /\ ~login'[s]
  <2>1. task'[s] = Idle
    OBVIOUS
  <2> QED
    BY <1>2, <2>1
<1> QED
  BY <1>3, IdleJob DEF JobsFit

LEMMA StopStep ==
    ASSUME IInv, ServerStops
    PROVE  IInv'
<1>1. Typed /\ NamesDiffer(users)
  BY DEF IInv
<1>2. JobsFit' /\ task' \in [Session -> Job]
  BY <1>1, NobodyFits DEF ServerStops
<1>3. LooperTyped(looper') /\ looper'.at = "down"
  BY RestingFields DEF ServerStops
<1>4. Typed' /\ NamesDiffer(users')
  BY <1>1, <1>2, <1>3 DEF ServerStops, Typed, LooperTyped
<1>5. LooperFits' /\ IDsAreCounted'
  BY <1>3 DEF ServerStops, IInv, LooperFits, IDsAreCounted
<1> QED
  BY <1>2, <1>4, <1>5 DEF IInv

-----------------------------------------------------------------------------
(* The invariant *)

LEMMA InitHolds ==
    ASSUME Init
    PROVE  IInv
<1>1. \A name \in Name, given \in Settings :
         NewUser(name, given) \in User /\ NewUser(name, given).name = name
  BY SettingsAssumption DEF NewUser, User
<1>2. NewGuest \in User /\ NewGuest.name = Guest
  BY NameAssumption, PasswordAssumption DEF NewGuest, NewUser, User
<1>3. users \in Seq(User) /\ NamesDiffer(users)
  <2>1. CASE users = <<>>
    BY <2>1 DEF NamesDiffer
  <2>2. CASE \E name \in Name \ {Guest}, given \in Settings :
                users = <<NewGuest, NewUser(name, given)>>
    <3>1. PICK name \in Name \ {Guest}, given \in Settings :
             users = <<NewGuest, NewUser(name, given)>>
      BY <2>2
    <3>2. PICK u \in User : u = NewUser(name, given) /\ u.name = name
      BY <1>1
    <3>3. PICK g \in User : g = NewGuest /\ g.name = Guest
      BY <1>2
    <3>4. users = <<g, u>> /\ g.name # u.name
      BY <3>1, <3>2, <3>3
    <3>5. users \in Seq(User) /\ DOMAIN users = 1..2 /\ users[1] = g /\ users[2] = u
      BY <3>4
    <3> QED
      BY <3>4, <3>5 DEF NamesDiffer
  <2> QED
    BY <2>1, <2>2 DEF Init
<1>4. LooperTyped(looper) /\ looper.at = "down"
  BY RestingFields DEF Init
<1>5. Typed
  BY <1>3, <1>4, IdleJob, BoundAssumption DEF Init, Typed, LooperTyped
<1>6. Fits(Idle)
  BY <1>3, <1>5, IdleFits
<1>7. JobsFit /\ LooperFits
  BY <1>4, <1>6 DEF Init, JobsFit, LooperFits
<1>8. IDsAreCounted
  <2> SUFFICES ASSUME ~unnumbered
               PROVE  IDsAreCounted
    BY DEF IDsAreCounted
  <2>1. users = <<>>
    BY DEF Init
  <2>2. DOMAIN users = {}
    BY <2>1
  <2> QED
    BY <1>4, <2>2 DEF IDsAreCounted
<1> QED
  BY <1>3, <1>5, <1>7, <1>8 DEF IInv

LEMMA NextKeeps ==
    ASSUME IInv, [Next]_vars
    PROVE  IInv'
<1>1. CASE UNCHANGED vars
  <2>1. UNCHANGED <<users, version, looper, task, sessionVars, unnumbered, deleted>>
    BY <1>1 DEF vars
  <2>2. version' \in 0..2 /\ LooperTyped(looper')
    BY <2>1 DEF IInv, Typed, LooperTyped
  <2>3. LooperFits'
    BY <2>1 DEF IInv, LooperFits, Known, Index, Holds
  <2>4. looper'.at = "insert" /\ deleted = 0 /\ ~unnumbered => looper'.record.id = Len(users)
    BY <2>1 DEF IInv, IDsAreCounted
  <2> QED
    BY <2>1, <2>2, <2>3, <2>4, LooperOnly
<1>2. CASE LooperStep
  BY <1>2, RecordStep, NumberStep, StartStep, LooperWritesStep, DeleteStep, StopStep
     DEF LooperStep
<1>3. CASE \E s \in Session : SessionStep(s)
  BY <1>3, LoginStep, RequestStep, WalkOnStep, NotFoundStep, LogonStep, LookupStep,
     ChangeLogsOnStep, ChangeRereadsStep, ChangeFindsStep, ChangeWritesStep DEF SessionStep
<1> QED
  BY <1>1, <1>2, <1>3 DEF Next

(* The invariant holds for any sessions, passwords, settings and names.    *)
THEOREM Invariance == Spec => []IInv
<1>1. Init => IInv
  BY InitHolds
<1>2. IInv /\ [Next]_vars => IInv'
  BY NextKeeps
<1> QED
  BY <1>1, <1>2, PTL DEF Spec

(* Every variable keeps its type, no two attributes have the same name,    *)
(* and a walk is never beyond one more than there can be users.            *)
THEOREM TypeCorrect == Spec => []TypeOK
<1>1. ASSUME IInv PROVE TypeOK
  <2>1. Typed /\ NamesDiffer(users)
    BY <1>1 DEF IInv
  <2>2. /\ looper.record \in User \cup {None} /\ looper.index \in Nat
        /\ version \in 0..2 /\ deleted \in 0..MaxDeletions
    BY <2>1 DEF Typed
  <2>3. \A s \in Session :
          /\ task[s].at \in {"idle", "write"} \cup Walks
          /\ task[s].name \in Name \cup {None} /\ task[s].id \in Nat \cup {None}
          /\ task[s].record \in User \cup {None}
    BY <2>1 DEF Typed, Job, At, OrNone
  <2>4. \A s \in Session : task[s].index \in 1..(Cardinality(Name) + 1)
    <3> SUFFICES ASSUME NEW s \in Session
                 PROVE  task[s].index \in 1..(Cardinality(Name) + 1)
      OBVIOUS
    <3>1. task[s].index \in Nat \ {0} /\ task[s].index <= Cardinality(Name) + 1
      BY <1>1, JobOf DEF Fits, Knows
    <3>2. Cardinality(Name) \in Nat
      BY <2>1, FewUsers
    <3> QED
      BY <3>1, <3>2
  <2>5. \A s \in Session : login[s] => user[s] # None
    BY <1>1 DEF IInv, JobsFit
  <2> QED
    BY <2>1, <2>2, <2>3, <2>4, <2>5 DEF TypeOK, Typed, NamesDiffer
<1> QED
  BY <1>1, Invariance, PTL

(* As long as no user has been deleted and the database was not made       *)
(* before there were IDs, afpSaveNewUser's count gives every user an ID of *)
(* its own, and no rewrite changes one: not even the rewrites that race.   *)
THEOREM IDsDiffer == Spec => []IDsAreUnique
<1>1. IInv => IDsAreUnique
  <2> SUFFICES ASSUME IInv, ~unnumbered, ~(deleted > 0)
               PROVE  \A i, j \in DOMAIN users : users[i].id = users[j].id => i = j
    BY DEF IDsAreUnique
  <2>1. deleted = 0
    BY BoundAssumption DEF IInv, Typed
  <2> QED
    BY <2>1 DEF IInv, IDsAreCounted
<1> QED
  BY <1>1, Invariance, PTL

(* A walk of afpGetIndUser misses only those who were not there when it    *)
(* began, unless a user has been deleted under it: additions and rewrites  *)
(* move nobody from before the walk to behind it.                          *)
THEOREM WalksFind == Spec => []FoundUnlessDeleted
<1>1. IInv => FoundUnlessDeleted
  <2> SUFFICES ASSUME IInv, NEW s \in Session, Misses(s),
                      ~task[s].absent, ~task[s].shrunk, ~(task[s].id # None /\ deleted > 0)
               PROVE  FALSE
    BY DEF FoundUnlessDeleted
  <2>1. deleted = 0 \/ deleted > 0
    BY BoundAssumption DEF IInv, Typed
  <2>2. PICK i \in DOMAIN users : i >= task[s].index /\ Sought(task[s], users[i])
    BY <2>1, JobOf DEF Misses, Fits, Ahead
  <2>3. task[s].index <= Len(users)
    BY <2>2, JobOf, UsersFacts
  <2> QED
    BY <2>3 DEF Misses, Hits, Passes
<1> QED
  BY <1>1, Invariance, PTL

LEMMA SameRecord ==
    ASSUME NEW u \in User, NEW r \in User, r.name = u.name, r.id = u.id,
           r.flags = u.flags \ {"must change"}
    PROVE  r = [u EXCEPT !.password = r.password, !.flags = @ \ {"must change"}]
BY DEF User

(* A change of password loses no update of its user, and brings no deleted *)
(* one back, but one that comes between its last look and its write.       *)
THEOREM ChangesLoseOnlyRaces == Spec => OnlyRacingWritesAreLost
<1> DEFINE Loses(s) ==
        ChangeWrites(s) /\ ~task[s].stale =>
          LET r == task[s].record IN
          /\ Known(r.name) /\ Len(users') = Len(users)
          /\ \A i \in DOMAIN users :
                users'[i] = IF users[i].name # r.name THEN users[i]
                            ELSE [users[i] EXCEPT !.password = r.password,
                                                  !.flags = @ \ {"must change"}]
<1>1. ASSUME IInv, NEW s \in Session PROVE Loses(s)
  <2> SUFFICES ASSUME ChangeWrites(s), ~task[s].stale
               PROVE  LET r == task[s].record IN
                      /\ Known(r.name) /\ Len(users') = Len(users)
                      /\ \A i \in DOMAIN users :
                            users'[i] = IF users[i].name # r.name THEN users[i]
                                        ELSE [users[i] EXCEPT !.password = r.password,
                                                              !.flags = @ \ {"must change"}]
    OBVIOUS
  <2> DEFINE r == task[s].record
  <2>1. Typed /\ NamesDiffer(users) /\ Fits(task[s])
    BY <1>1, JobOf
  <2>2. r \in User /\ users' \in WriteAttr(r)
    BY <1>1, JobOf DEF ChangeWrites, Fits, Knows, Keeps, Job, OrNone
  <2>3. PICK k \in DOMAIN users : Changes(r, k)
    BY <2>1 DEF ChangeWrites, Fits, Current, Keeps
  <2> HIDE DEF r
  <2>4. Known(r.name)
    BY <2>3, KnownIsListed DEF Changes
  <2>5. Len(users') = Len(users)
    BY <2>1, <2>2, <2>4, WriteFacts
  <2>6. ASSUME NEW i \in DOMAIN users
        PROVE  users'[i] = IF users[i].name # r.name THEN users[i]
                           ELSE [users[i] EXCEPT !.password = r.password,
                                                 !.flags = @ \ {"must change"}]
    <3>1. CASE users[i].name # r.name
      BY <2>1, <2>2, <2>4, <3>1, WriteFacts
    <3>2. CASE users[i].name = r.name
      <4>1. i = k
        BY <2>1, <2>3, <3>2 DEF Changes, NamesDiffer
      <4>2. users'[i] = r
        BY <2>1, <2>2, <3>2, WriteFacts
      <4>3. users[i] \in User
        BY <2>1, UsersFacts
      <4>4. r = [users[i] EXCEPT !.password = r.password, !.flags = @ \ {"must change"}]
        BY <2>2, <2>3, <4>1, <4>3, SameRecord DEF Changes
      <4> QED
        BY <3>2, <4>2, <4>4
    <3> QED
      BY <3>1, <3>2
  <2> QED
    BY <2>4, <2>5, <2>6 DEF r
<1> HIDE DEF Loses
<1>2. IInv => \A s \in Session : Loses(s)
  BY <1>1
<1>3. Spec => [][\A s \in Session : Loses(s)]_vars
  BY <1>2, Invariance, PTL DEF Spec
<1> QED
  BY <1>3 DEF OnlyRacingWritesAreLost, Loses

=============================================================================
