-------------------------- MODULE ResourceForkProofs --------------------------
(***************************************************************************)
(* Proofs about ResourceFork for any sessions, files and contents, any     *)
(* number of reference numbers and any limit on open forks.                *)
(***************************************************************************)
EXTENDS ResourceFork, SequenceTheorems, WellFoundedInduction, TLAPS

(* A set of places has a first one.                                        *)
LEMMA MinIsLeast ==
    ASSUME NEW S \in SUBSET Nat, S # {}
    PROVE  Min(S) \in S /\ \A n \in S : Min(S) <= n
<1>1. PICK m \in S : \A n \in S : ~(<<n, m>> \in OpToRel(<, Nat))
  BY NatLessThanWellFounded, WFMin
<1>2. ASSUME NEW n \in S, n < m PROVE FALSE
  <2>1. <<n, m>> \in Nat \X Nat /\ <<n, m>>[1] < <<n, m>>[2]
    BY <1>2
  <2>2. <<n, m>> \in OpToRel(<, Nat)
    BY <2>1, Zenon DEF OpToRel
  <2> QED
    BY <1>1, <2>2
<1>3. \A n \in S : m <= n
  BY <1>2
<1> QED
  BY <1>3 DEF Min

(* BList::RemoveItem or std::vector::erase yields a list of the same kind, *)
(* one shorter.                                                            *)
LEMMA RemoveAtType ==
    ASSUME NEW S, NEW q \in Seq(S), NEW i \in DOMAIN q
    PROVE  /\ RemoveAt(q, i) \in Seq(S)
           /\ Len(RemoveAt(q, i)) = Len(q) - 1
           /\ \A j \in DOMAIN RemoveAt(q, i) :
                  RemoveAt(q, i)[j] = IF j < i THEN q[j] ELSE q[j + 1]
<1> DEFINE a == SubSeq(q, 1, i - 1)
           b == SubSeq(q, i + 1, Len(q))
<1>0. Len(q) \in Nat /\ i \in 1..Len(q) /\ DOMAIN q = 1..Len(q)
  OBVIOUS
<1>1. a \in Seq(S) /\ Len(a) = i - 1 /\ \A j \in 1..i-1 : a[j] = q[j]
  BY <1>0
<1>2. b \in Seq(S) /\ Len(b) = Len(q) - i /\ \A j \in 1..Len(q)-i : b[j] = q[j + i]
  BY <1>0
<1> HIDE DEF a, b
<1>3. /\ a \o b \in Seq(S) /\ Len(a \o b) = Len(a) + Len(b)
      /\ \A j \in 1..Len(a)+Len(b) : (a \o b)[j] = IF j <= Len(a) THEN a[j] ELSE b[j - Len(a)]
  BY <1>1, <1>2, ConcatProperties
<1>4. RemoveAt(q, i) = a \o b
  BY DEF RemoveAt, a, b
<1>5. ASSUME NEW j \in 1..Len(q)-1 PROVE (a \o b)[j] = IF j < i THEN q[j] ELSE q[j + 1]
  <2>1. CASE j < i
    <3>1. j \in 1..i-1 /\ j \in 1..Len(a)+Len(b) /\ j <= Len(a)
      BY <1>0, <1>1, <1>2, <2>1
    <3>2. (a \o b)[j] = a[j]
      BY <1>3, <3>1
    <3> QED
      BY <1>1, <3>1, <3>2, <2>1
  <2>2. CASE ~(j < i)
    <3>1. Len(a) = i - 1 /\ j \in 1..Len(a)+Len(b) /\ ~(j <= Len(a))
      BY <1>0, <1>1, <1>2, <2>2
    <3>2. (a \o b)[j] = b[j - Len(a)]
      BY <1>3, <3>1
    <3>3. j - Len(a) \in 1..Len(q)-i /\ j - Len(a) + i = j + 1
      BY <1>0, <3>1, <2>2
    <3> QED
      BY <1>2, <3>2, <3>3, <2>2
  <2> QED
    BY <2>1, <2>2
<1>6. Len(a) + Len(b) = Len(q) - 1
  BY <1>0, <1>1, <1>2
<1>7. a \o b \in Seq(S) /\ Len(a \o b) = Len(q) - 1
  BY <1>3, <1>6
<1>8. DOMAIN (a \o b) = 1..Len(q)-1
  BY <1>7
<1> QED
  BY <1>4, <1>5, <1>7, <1>8

-----------------------------------------------------------------------------
(* The inductive invariant *)

ReadTask == [at : {"read"}, fork : Fork, size : Nat, raced : BOOLEAN]
SaveTask == [at : {"remove", "write"}, op : {"set", "flush", "close", "end"}, index : Nat]
Task == {Idle, [at |-> "end"]} \cup ReadTask \cup SaveTask

Typed ==
    /\ attr \in [File -> Content \cup {Absent}]
    /\ saved \in [File -> Content] /\ intact \subseteq File
    /\ mNextFileRef \in [Session -> RefNum]
    /\ mOpenFiles \in [Session -> Seq(Fork)]
    /\ task \in [Session -> Task]
    /\ opens \in 0..MaxOpens

(* The number of a fork tells how many the session has given out since;    *)
(* n numbers are given out to forks that are not in the list yet.  The     *)
(* older of two forks has seen more, up to RefRange.                       *)
Numbered(q, next, n) ==
    /\ \A i \in DOMAIN q :
          q[i].age < RefRange
             => q[i].refnum + q[i].age + 1 + n - next \in {0, RefRange, 2 * RefRange}
    /\ \A i, j \in DOMAIN q : i < j => q[j].age < q[i].age \/ q[i].age = RefRange

(* A dirty fork has been written to, and then its buffer is the client's.  *)
Written(q) ==
    \A i \in DOMAIN q :
        /\ q[i].rsrcDirty => q[i].wrote # "no"
        /\ q[i].wrote # "no" => q[i].rsrcIO # Garbage

(* A fork that is being opened has the last number, and there is room for  *)
(* it; one that is being saved has been written to.                        *)
TaskFits(t, q, next) ==
    /\ t.at = "read" =>
          /\ Len(q) < MaxFiles
          /\ t.fork.age = 0 /\ t.fork.rsrcDirty = FALSE /\ t.fork.wrote = "no"
          /\ t.fork.refnum + 1 - next \in {0, RefRange}
    /\ t.at \in {"remove", "write"} =>
          /\ t.index \in DOMAIN q
          /\ t.op = "set" \/ q[t.index].rsrcDirty
          /\ q[t.index].wrote # "no"

ForksFit(t, q, next) ==
    /\ Len(q) <= MaxFiles
    /\ Numbered(q, next, IF t.at = "read" THEN 1 ELSE 0)
    /\ Written(q)
    /\ TaskFits(t, q, next)

SessionsFit == \A s \in Session : ForksFit(task[s], mOpenFiles[s], mNextFileRef[s])

(* The size a fork is read with is the attribute's, unless somebody has    *)
(* changed it in between.                                                  *)
SizeIsAttrs ==
    \A s \in Session :
        task[s].at = "read" /\ ~task[s].raced => task[s].size = SizeToRead(task[s].fork.file)

(* What was not read is not saved.                                         *)
AttrsAreContents == \A f \in File : attr[f] # Garbage

(* SavedIsOnDisk holds also while a save has not removed the attribute.    *)
Writing(f) ==
    \E s \in Session : task[s].at = "write" /\ mOpenFiles[s][task[s].index].file = f
SavedUnlessWriting == \A f \in intact : ~Writing(f) => InAttr(f) = saved[f]

IInv == Typed /\ SessionsFit /\ SizeIsAttrs /\ AttrsAreContents /\ SavedUnlessWriting

-----------------------------------------------------------------------------
(* Lemmas about the data *)

(* The reference numbers go round: the next one is the next number, or 0.  *)
LEMMA NextNumber ==
    ASSUME NEW n \in RefNum
    PROVE  /\ (n + 1) % RefRange = IF n + 1 = RefRange THEN 0 ELSE n + 1
           /\ (n + 1) % RefRange \in RefNum
<1>1. RefRange \in Nat \ {0} /\ n \in 0..RefRange-1
  BY LimitAssumption DEF RefNum
<1>2. CASE n + 1 = RefRange
  BY <1>1, <1>2 DEF RefNum
<1>3. CASE n + 1 # RefRange
  BY <1>1, <1>3 DEF RefNum
<1> QED
  BY <1>2, <1>3

(* Giving out a number counts as one more for every fork.                  *)
LEMMA OneMoreGivenOut ==
    ASSUME NEW n \in RefNum, NEW r \in RefNum, NEW a \in Nat, a < RefRange,
           r + a + 1 + 0 - n \in {0, RefRange, 2 * RefRange}
    PROVE  r + a + 1 + 1 - (IF n + 1 = RefRange THEN 0 ELSE n + 1)
              \in {0, RefRange, 2 * RefRange}
<1>1. RefRange \in Nat /\ n \in 0..RefRange-1 /\ r \in 0..RefRange-1
  BY LimitAssumption DEF RefNum
<1>2. CASE n + 1 = RefRange
  <2>1. r + a + 1 + 1 - 0 = (r + a + 1 + 0 - n) + RefRange
    BY <1>1, <1>2
  <2>2. r + a + 1 + 1 - 0 <= 2 * RefRange
    BY <1>1
  <2>3. RefRange > 0
    BY <1>1, <1>2
  <2> QED
    BY <1>1, <1>2, <2>1, <2>2, <2>3
<1>3. CASE n + 1 # RefRange
  BY <1>1, <1>3
<1> QED
  BY <1>2, <1>3

LEMMA FirstNumber == 1 % RefRange \in RefNum
BY LimitAssumption, NextNumber DEF RefNum

LEMMA ContentIsContent ==
    /\ Empty \in Content /\ Garbage \in Content /\ Empty # Garbage /\ Absent \notin Content
    /\ NotEmpty \subseteq Content /\ Garbage \notin NotEmpty
BY ContentAssumption DEF NotEmpty

(* The fields of an open fork.                                             *)
LEMMA ForkFields ==
    ASSUME NEW k \in Fork
    PROVE  /\ k.refnum \in Int /\ k.age \in 0..RefRange /\ k.file \in File
           /\ k.rsrcIO \in Content /\ k.rsrcDirty \in BOOLEAN
           /\ k.wrote \in {"no", "yes", "set"}
           /\ k.refnum \in RefNum
BY LimitAssumption DEF Fork, RefNum

LEMMA ListFacts ==
    ASSUME NEW q \in Seq(Fork)
    PROVE  /\ Len(q) \in Nat /\ DOMAIN q = 1..Len(q)
           /\ \A i \in DOMAIN q : q[i] \in Fork
OBVIOUS

(* Forks whose numbers and ages do not change stay numbered.               *)
LEMMA SameNumbers ==
    ASSUME NEW q \in Seq(Fork), NEW p \in Seq(Fork), NEW next, NEW n,
           Numbered(q, next, n), DOMAIN p = DOMAIN q,
           \A i \in DOMAIN q : p[i].refnum = q[i].refnum /\ p[i].age = q[i].age
    PROVE  Numbered(p, next, n)
BY DEF Numbered

(* Closing a fork.                                                         *)
LEMMA CloseFits ==
    ASSUME NEW q \in Seq(Fork), NEW i \in DOMAIN q, NEW next, NEW n,
           Numbered(q, next, n), Written(q)
    PROVE  /\ RemoveAt(q, i) \in Seq(Fork) /\ Len(RemoveAt(q, i)) <= Len(q)
           /\ Numbered(RemoveAt(q, i), next, n) /\ Written(RemoveAt(q, i))
<1> DEFINE p == RemoveAt(q, i)
<1>1. /\ p \in Seq(Fork) /\ Len(p) = Len(q) - 1
      /\ \A j \in DOMAIN p : p[j] = IF j < i THEN q[j] ELSE q[j + 1]
  BY RemoveAtType
<1> HIDE DEF p
<1>2. Len(q) \in Nat /\ DOMAIN q = 1..Len(q) /\ DOMAIN p = 1..Len(q)-1 /\ i \in Int
  BY <1>1
<1> DEFINE at(j) == IF j < i THEN j ELSE j + 1
<1>3. /\ \A j \in DOMAIN p : at(j) \in DOMAIN q /\ p[j] = q[at(j)]
      /\ \A j, k \in DOMAIN p : j < k => at(j) < at(k)
  BY <1>1, <1>2
<1> HIDE DEF at
<1>4. Numbered(p, next, n)
  BY <1>3 DEF Numbered
<1>5. Written(p)
  BY <1>3 DEF Written
<1> QED
  BY <1>1, <1>2, <1>4, <1>5 DEF p

(* A request names a fork that is there.                                   *)
LEMMA NamedFork ==
    ASSUME Typed, NEW s \in Session, NEW r
    PROVE  /\ GetForkItem(s, r) \in DOMAIN mOpenFiles[s] \cup {0}
           /\ (\E k \in DOMAIN mOpenFiles[s] : mOpenFiles[s][k].refnum = r)
                 => GetForkItem(s, r) \in DOMAIN mOpenFiles[s]
<1> DEFINE q == mOpenFiles[s]
           I == {k \in 1..Len(q) : q[k].refnum = r}
<1>1. q \in Seq(Fork)
  BY DEF Typed
<1> HIDE DEF q
<1>2. Len(q) \in Nat /\ DOMAIN q = 1..Len(q)
  BY <1>1
<1>3. GetForkItem(s, r) = IF I # {} THEN Min(I) ELSE 0
  BY DEF GetForkItem, SelectInSeq, q
<1>4. I # {} => Min(I) \in I
  <2>1. I \subseteq Nat
    BY <1>2
  <2> QED
    BY <2>1, MinIsLeast
<1> QED
  BY <1>2, <1>3, <1>4 DEF q

(* The tasks, told apart by where they are.                                *)
LEMMA TaskKinds ==
    ASSUME NEW t \in Task
    PROVE  /\ t.at \in {"idle", "read", "remove", "write", "end"}
           /\ t.at = "read" => t \in ReadTask
           /\ t.at \in {"remove", "write"} => t \in SaveTask
<1>1. CASE t = Idle
  BY <1>1 DEF Idle
<1>2. CASE t = [at |-> "end"]
  BY <1>2
<1>3. CASE t \in ReadTask
  BY <1>3 DEF ReadTask
<1>4. CASE t \in SaveTask
  BY <1>4 DEF SaveTask
<1> QED
  BY <1>1, <1>2, <1>3, <1>4 DEF Task

LEMMA TaskIsTask ==
    /\ Idle \in Task /\ [at |-> "end"] \in Task
    /\ Idle.at = "idle" /\ [at |-> "end"].at = "end"
    /\ ReadTask \subseteq Task /\ SaveTask \subseteq Task
BY DEF Task, Idle

(* A request that saves a fork.                                            *)
LEMMA SaveTasks ==
    ASSUME NEW w \in {"remove", "write"}, NEW o \in {"set", "flush", "close", "end"}, NEW i \in Nat
    PROVE  /\ [at |-> w, op |-> o, index |-> i] \in SaveTask
           /\ [at |-> w, op |-> o, index |-> i] \in Task
<1>1. [at |-> w, op |-> o, index |-> i] \in SaveTask
  BY DEF SaveTask
<1> QED
  BY <1>1, TaskIsTask

(* A reader that is told that the attribute has changed.                   *)
LEMMA RacedTask ==
    ASSUME NEW t \in ReadTask
    PROVE  LET u == [t EXCEPT !.raced = TRUE] IN
           /\ u \in ReadTask /\ u.at = "read" /\ u.fork = t.fork /\ u.raced = TRUE
BY DEF ReadTask

(* What the requests on a fork find.                                       *)
LEMMA IdleFits ==
    ASSUME IInv, NEW s \in Session, task[s].at # "read"
    PROVE  /\ mOpenFiles[s] \in Seq(Fork) /\ Len(mOpenFiles[s]) <= MaxFiles
           /\ Numbered(mOpenFiles[s], mNextFileRef[s], 0) /\ Written(mOpenFiles[s])
           /\ mNextFileRef[s] \in RefNum /\ task[s] \in Task
BY DEF IInv, Typed, SessionsFit, ForksFit

-----------------------------------------------------------------------------
(* The steps that leave the attributes alone *)

(* What is to be shown of such a step: only of its session.                *)
LEMMA BufferStep ==
    ASSUME IInv, NEW s \in Session, task[s].at # "write",
           UNCHANGED <<attr, saved, intact>>, Typed',
           ForksFit(task'[s], mOpenFiles'[s], mNextFileRef'[s]),
           task'[s].at = "read" => task'[s].size = SizeToRead(task'[s].fork.file),
           \A r \in Session \ {s} : /\ task'[r] = task[r] /\ mOpenFiles'[r] = mOpenFiles[r]
                                    /\ mNextFileRef'[r] = mNextFileRef[r]
    PROVE  IInv'
<1>1. SessionsFit'
  BY DEF IInv, SessionsFit
<1>2. \A f : SizeToRead(f)' = SizeToRead(f)
  BY DEF SizeToRead, InAttr
<1>3. SizeIsAttrs'
  BY <1>2 DEF IInv, SizeIsAttrs
<1>4. AttrsAreContents'
  BY DEF IInv, AttrsAreContents
<1>5. SavedUnlessWriting'
  <2>1. \A f : Writing(f) => Writing(f)'
    BY DEF Writing
  <2> QED
    BY <2>1 DEF IInv, SavedUnlessWriting, InAttr
<1> QED
  BY <1>1, <1>3, <1>4, <1>5 DEF IInv

LEMMA OpenStep ==
    ASSUME IInv, NEW s \in Session, FPOpenFork(s)
    PROVE  IInv'
<1> DEFINE q == mOpenFiles[s]
           next == mNextFileRef[s]
<1>1. task[s] = Idle /\ task[s].at = "idle"
  BY DEF FPOpenFork, Idle
<1>2. /\ q \in Seq(Fork) /\ Len(q) <= MaxFiles /\ Numbered(q, next, 0) /\ Written(q)
      /\ next \in RefNum
  BY <1>1, IdleFits
<1>3. PICK f \in File :
        task' = [task EXCEPT ![s] =
                   [at |-> "read", fork |-> NewFork(s, f), size |-> SizeToRead(f),
                    raced |-> Saving(f)]]
  BY DEF FPOpenFork
<1> DEFINE t == [at |-> "read", fork |-> NewFork(s, f), size |-> SizeToRead(f),
                 raced |-> Saving(f)]
<1>4. t \in ReadTask
  <2>1. NewFork(s, f) \in Fork
    BY <1>2, ContentIsContent, LimitAssumption DEF NewFork, NextRef, Fork
  <2>2. SizeToRead(f) \in Nat
    BY ContentAssumption DEF IInv, Typed, SizeToRead, InAttr
  <2>3. Saving(f) \in BOOLEAN
    BY DEF Saving
  <2> QED
    BY <2>1, <2>2, <2>3 DEF ReadTask
<1>5. task \in [Session -> Task] /\ t \in Task
  BY <1>4, TaskIsTask DEF IInv, Typed
<1>6. t.at = "read" /\ t.fork = NewFork(s, f) /\ t.size = SizeToRead(f)
  OBVIOUS
<1>7. task'[s] = t /\ \A r \in Session \ {s} : task'[r] = task[r]
  BY <1>3, <1>5
<1> HIDE DEF t
<1>8. mNextFileRef \in [Session -> RefNum] /\ mOpenFiles' = mOpenFiles
  BY DEF IInv, Typed, FPOpenFork
<1>9. /\ mNextFileRef' \in [Session -> RefNum]
      /\ mNextFileRef'[s] = IF next + 1 = RefRange THEN 0 ELSE next + 1
      /\ \A r \in Session \ {s} : mNextFileRef'[r] = mNextFileRef[r]
  BY <1>2, <1>8, NextNumber DEF FPOpenFork
<1>10. Typed'
  <2>1. task' \in [Session -> Task]
    BY <1>3, <1>5 DEF t
  <2> QED
    BY <1>9, <2>1, LimitAssumption DEF IInv, Typed, FPOpenFork
<1>11. Numbered(q, mNextFileRef'[s], 1)
  <2> SUFFICES ASSUME NEW i \in DOMAIN q, q[i].age < RefRange
               PROVE  q[i].refnum + q[i].age + 1 + 1 - mNextFileRef'[s]
                          \in {0, RefRange, 2 * RefRange}
    BY <1>2 DEF Numbered
  <2>1. q[i].refnum \in RefNum /\ q[i].age \in Nat
    BY <1>2, ListFacts, ForkFields
  <2>2. q[i].refnum + q[i].age + 1 + 0 - next \in {0, RefRange, 2 * RefRange}
    BY <1>2 DEF Numbered
  <2> HIDE DEF q, next
  <2> QED
    BY <1>2, <1>9, <2>1, <2>2, OneMoreGivenOut
<1>12. TaskFits(t, q, mNextFileRef'[s])
  <2>1. t.fork.age = 0 /\ t.fork.rsrcDirty = FALSE /\ t.fork.wrote = "no" /\ t.fork.refnum = next
    BY <1>6 DEF NewFork, NextRef
  <2>2. Len(q) < MaxFiles
    BY DEF FPOpenFork
  <2> QED
    BY <1>2, <1>6, <1>9, <2>1, <2>2, LimitAssumption DEF TaskFits, RefNum
<1>13. ForksFit(task'[s], mOpenFiles'[s], mNextFileRef'[s])
  BY <1>2, <1>6, <1>7, <1>8, <1>11, <1>12 DEF ForksFit
<1>14. t.fork.file = f
  BY <1>6 DEF NewFork
<1>15. UNCHANGED <<attr, saved, intact>>
  BY DEF FPOpenFork
<1> QED
  BY <1>1, <1>6, <1>7, <1>8, <1>9, <1>10, <1>13, <1>14, <1>15, BufferStep

(* A fork that has seen one more.                                          *)
LEMMA AgedFork ==
    ASSUME NEW k \in Fork, NEW a \in 0..RefRange
    PROVE  LET m == [k EXCEPT !.age = a] IN
           /\ m \in Fork /\ m.age = a
           /\ m.refnum = k.refnum /\ m.rsrcDirty = k.rsrcDirty
           /\ m.wrote = k.wrote /\ m.rsrcIO = k.rsrcIO
BY DEF Fork

(* A fork joins the list: the others have seen one more.                   *)
LEMMA JoinFits ==
    ASSUME NEW q \in Seq(Fork), NEW next \in RefNum, NEW k \in Fork,
           Numbered(q, next, 1), Written(q),
           k.age = 0, k.rsrcDirty = FALSE, k.wrote = "no", k.refnum + 1 - next \in {0, RefRange},
           NEW older,
           older = [i \in DOMAIN q |-> [q[i] EXCEPT !.age = IF @ < RefRange THEN @ + 1 ELSE @]]
    PROVE  /\ Append(older, k) \in Seq(Fork) /\ Len(Append(older, k)) = Len(q) + 1
           /\ Append(older, k)[Len(q) + 1] = k
           /\ Numbered(Append(older, k), next, 0) /\ Written(Append(older, k))
<1> DEFINE p == Append(older, k)
           n == Len(q)
<1>0. RefRange \in Nat /\ RefRange > 0 /\ next \in Nat
  BY LimitAssumption DEF RefNum
<1>1. n \in Nat /\ DOMAIN q = 1..n /\ \A i \in 1..n : q[i] \in Fork
  BY ListFacts
<1>2. \A i \in 1..n : /\ q[i].refnum \in Int /\ q[i].age \in 0..RefRange
                      /\ q[i].rsrcDirty \in BOOLEAN
  BY <1>1, ForkFields
<1>3. ASSUME NEW i \in 1..n
      PROVE  /\ older[i] \in Fork
             /\ older[i].age = IF q[i].age < RefRange THEN q[i].age + 1 ELSE q[i].age
             /\ older[i].refnum = q[i].refnum /\ older[i].rsrcDirty = q[i].rsrcDirty
             /\ older[i].wrote = q[i].wrote /\ older[i].rsrcIO = q[i].rsrcIO
  <2>1. older[i] = [q[i] EXCEPT !.age = IF q[i].age < RefRange THEN q[i].age + 1 ELSE q[i].age]
    BY <1>1
  <2>2. (IF q[i].age < RefRange THEN q[i].age + 1 ELSE q[i].age) \in 0..RefRange
    BY <1>0, <1>2
  <2>3. q[i] \in Fork
    BY <1>1
  <2> HIDE DEF Fork
  <2> QED
    BY <2>1, <2>2, <2>3, AgedFork
<1>4. older \in Seq(Fork) /\ Len(older) = n
  <2>1. older = [i \in 1..n |-> older[i]]
    BY <1>1
  <2> HIDE DEF n
  <2>2. older \in [1..n -> Fork]
    BY <1>3, <2>1
  <2>3. older \in Seq(Fork)
    BY <1>1, <2>2, SeqDef
  <2> QED
    BY <1>1, <2>2, <2>3
<1>5. /\ p \in Seq(Fork) /\ Len(p) = n + 1 /\ DOMAIN p = 1..n+1
      /\ p[n + 1] = k /\ \A i \in 1..n : p[i] = older[i]
  BY <1>1, <1>4
<1> HIDE DEF p, n
<1>6. \A i \in 1..n+1 : i \in 1..n \/ i = n + 1
  BY <1>1
<1>7. /\ \A i \in 1..n : q[i].age < RefRange
          => q[i].refnum + q[i].age + 1 + 1 - next \in {0, RefRange, 2 * RefRange}
      /\ \A i, j \in 1..n : i < j => q[j].age < q[i].age \/ q[i].age = RefRange
  BY <1>1 DEF Numbered
<1>8. ASSUME NEW i \in 1..n+1, p[i].age < RefRange
      PROVE  p[i].refnum + p[i].age + 1 + 0 - next \in {0, RefRange, 2 * RefRange}
  <2>1. CASE i \in 1..n
    <3>1. q[i].age < RefRange
      BY <1>0, <1>2, <1>3, <1>5, <1>8, <2>1
    <3>2. p[i].age = q[i].age + 1 /\ p[i].refnum = q[i].refnum
      BY <1>3, <1>5, <2>1, <3>1
    <3>3. q[i].refnum + q[i].age + 1 + 1 - next \in {0, RefRange, 2 * RefRange}
      BY <1>7, <2>1, <3>1
    <3>4. q[i].refnum \in Int /\ q[i].age \in Int
      BY <1>2, <2>1
    <3> DEFINE a == q[i].age
               r == q[i].refnum
    <3>5. r + (a + 1) + 1 + 0 - next = r + a + 1 + 1 - next
      <4>1. r \in Int /\ a \in Int
        BY <3>4
      <4> HIDE DEF a, r
      <4> QED
        BY <1>0, <4>1
    <3> QED
      BY <3>2, <3>3, <3>5
  <2>2. CASE i = n + 1
    <3>1. p[i].refnum = k.refnum /\ p[i].age = 0 /\ k.refnum \in Int
      BY <1>5, <2>2, ForkFields
    <3> QED
      BY <1>0, <3>1
  <2> QED
    BY <1>6, <2>1, <2>2
<1>9. ASSUME NEW i \in 1..n+1, NEW j \in 1..n+1, i < j
      PROVE  p[j].age < p[i].age \/ p[i].age = RefRange
  <2>1. i \in 1..n
    BY <1>1, <1>9
  <2>2. /\ p[i].age = IF q[i].age < RefRange THEN q[i].age + 1 ELSE q[i].age
        /\ q[i].age \in Nat /\ q[i].age <= RefRange
    <3>1. p[i] = older[i]
      BY <1>5, <2>1
    <3>2. q[i].age \in 0..RefRange
      BY <1>2, <2>1
    <3>3. older[i].age = IF q[i].age < RefRange THEN q[i].age + 1 ELSE q[i].age
      BY <1>3, <2>1
    <3> QED
      BY <1>0, <3>1, <3>2, <3>3
  <2>3. CASE j \in 1..n
    <3>1. /\ p[j].age = IF q[j].age < RefRange THEN q[j].age + 1 ELSE q[j].age
          /\ q[j].age \in Nat /\ q[j].age <= RefRange
      <4>1. p[j] = older[j]
        BY <1>5, <2>3
      <4>2. q[j].age \in 0..RefRange
        BY <1>2, <2>3
      <4>3. older[j].age = IF q[j].age < RefRange THEN q[j].age + 1 ELSE q[j].age
        BY <1>3, <2>3
      <4> QED
        BY <1>0, <4>1, <4>2, <4>3
    <3>2. q[j].age < q[i].age \/ q[i].age = RefRange
      BY <1>7, <1>9, <2>1, <2>3
    <3> QED
      BY <1>0, <2>2, <3>1, <3>2
  <2>4. CASE j = n + 1
    <3>1. p[j].age = 0
      BY <1>5, <2>4
    <3> QED
      BY <1>0, <2>2, <3>1
  <2> QED
    BY <1>6, <2>3, <2>4
<1>10. Numbered(p, next, 0)
  BY <1>5, <1>8, <1>9 DEF Numbered
<1>11. Written(p)
  <2>1. \A i \in 1..n : /\ q[i].rsrcDirty => q[i].wrote # "no"
                        /\ q[i].wrote # "no" => q[i].rsrcIO # Garbage
    BY <1>1 DEF Written
  <2>2. \A i \in 1..n : /\ p[i].rsrcDirty => p[i].wrote # "no"
                        /\ p[i].wrote # "no" => p[i].rsrcIO # Garbage
    <3> SUFFICES ASSUME NEW i \in 1..n
                 PROVE  /\ p[i].rsrcDirty => p[i].wrote # "no"
                        /\ p[i].wrote # "no" => p[i].rsrcIO # Garbage
      OBVIOUS
    <3>1. /\ p[i].rsrcDirty = q[i].rsrcDirty /\ p[i].wrote = q[i].wrote
          /\ p[i].rsrcIO = q[i].rsrcIO
      BY <1>3, <1>5
    <3> QED
      BY <2>1, <3>1
  <2>3. ~k.rsrcDirty /\ k.wrote = "no"
    OBVIOUS
  <2> QED
    BY <1>5, <1>6, <2>2, <2>3 DEF Written
<1> QED
  BY <1>5, <1>10, <1>11 DEF p, n

(* What a fork is filled with.                                             *)
LEMMA ReadType ==
    ASSUME Typed, NEW f \in File, NEW n \in Nat
    PROVE  /\ InAttr(f) \in Content
           /\ ReadAttr(f, n) \in Content
           /\ AttrsAreContents /\ n = SizeToRead(f) => ReadAttr(f, n) # Garbage
<1>1. InAttr(f) \in Content
  BY ContentIsContent DEF InAttr, Typed
<1>2. AttrsAreContents => InAttr(f) # Garbage
  BY ContentIsContent DEF AttrsAreContents, InAttr
<1>3. CASE n = 0
  <2>1. ReadAttr(f, n) = Empty \/ ReadAttr(f, n) = InAttr(f)
    BY <1>3 DEF ReadAttr
  <2> QED
    BY <1>1, <1>2, <2>1, ContentIsContent
<1>4. CASE n # 0
  <2>1. ReadAttr(f, n) = IF n = Size[InAttr(f)] THEN InAttr(f) ELSE Garbage
    BY <1>4 DEF ReadAttr
  <2> QED
    BY <1>1, <1>2, <2>1, ContentIsContent DEF SizeToRead
<1> QED
  BY <1>3, <1>4, <1>1

LEMMA ReadStep ==
    ASSUME IInv, NEW s \in Session, OpenAndReadInResourceFork(s)
    PROVE  IInv'
<1> DEFINE q == mOpenFiles[s]
           next == mNextFileRef[s]
           t == task[s]
           k == [t.fork EXCEPT !.rsrcIO = ReadAttr(t.fork.file, t.size)]
           older == [i \in DOMAIN q |-> [q[i] EXCEPT !.age = IF @ < RefRange THEN @ + 1 ELSE @]]
<1>1. t.at = "read" /\ t \in ReadTask
  BY TaskKinds DEF OpenAndReadInResourceFork, IInv, Typed
<1>2. t.fork \in Fork /\ t.size \in Nat
  BY <1>1 DEF ReadTask
<1>3. /\ q \in Seq(Fork) /\ Len(q) < MaxFiles /\ Numbered(q, next, 1) /\ Written(q)
      /\ next \in RefNum
      /\ t.fork.age = 0 /\ t.fork.rsrcDirty = FALSE /\ t.fork.wrote = "no"
      /\ t.fork.refnum + 1 - next \in {0, RefRange}
  BY <1>1 DEF IInv, Typed, SessionsFit, ForksFit, TaskFits
<1>4. /\ k \in Fork /\ k.age = 0 /\ k.rsrcDirty = FALSE /\ k.wrote = "no"
      /\ k.refnum = t.fork.refnum
  <2>1. ReadAttr(t.fork.file, t.size) \in Content
    BY <1>2, ForkFields, ReadType DEF IInv
  <2> QED
    BY <1>2, <1>3, <2>1 DEF Fork
<1> HIDE DEF k
<1>5. /\ Append(older, k) \in Seq(Fork) /\ Len(Append(older, k)) = Len(q) + 1
      /\ Numbered(Append(older, k), next, 0) /\ Written(Append(older, k))
  <2>1. older = [i \in DOMAIN q |-> [q[i] EXCEPT !.age = IF @ < RefRange THEN @ + 1 ELSE @]]
    OBVIOUS
  <2> HIDE DEF older, q, next
  <2> QED
    BY <1>3, <1>4, <2>1, JoinFits
<1>6. /\ mOpenFiles' = [mOpenFiles EXCEPT ![s] = Append(older, k)]
      /\ task' = [task EXCEPT ![s] = Idle]
      /\ UNCHANGED <<attr, mNextFileRef, saved, intact, opens>>
  BY DEF OpenAndReadInResourceFork, k
<1> HIDE DEF older
<1>7. mOpenFiles \in [Session -> Seq(Fork)] /\ task \in [Session -> Task]
  BY DEF IInv, Typed
<1>8. mOpenFiles'[s] = Append(older, k) /\ task'[s] = Idle
  BY <1>6, <1>7
<1>9. Typed'
  BY <1>5, <1>6, <1>7, TaskIsTask DEF IInv, Typed
<1>10. ForksFit(task'[s], mOpenFiles'[s], mNextFileRef'[s])
  <2>1. Len(Append(older, k)) <= MaxFiles
    BY <1>3, <1>5, LimitAssumption, ListFacts
  <2> QED
    BY <1>5, <1>6, <1>8, <2>1, TaskIsTask DEF ForksFit, TaskFits
<1> QED
  BY <1>1, <1>6, <1>7, <1>8, <1>9, <1>10, TaskIsTask, BufferStep

LEMMA WriteStep ==
    ASSUME IInv, NEW s \in Session, NEW i \in DOMAIN mOpenFiles[s], FPWrite(s, i)
    PROVE  IInv'
<1> DEFINE q == mOpenFiles[s]
<1>1. task[s] = Idle /\ task[s].at = "idle"
  BY TaskIsTask DEF FPWrite, Request
<1>2. /\ q \in Seq(Fork) /\ Len(q) <= MaxFiles /\ Numbered(q, mNextFileRef[s], 0) /\ Written(q)
      /\ mOpenFiles \in [Session -> Seq(Fork)] /\ q[i] \in Fork
  BY <1>1, IdleFits, ListFacts DEF IInv, Typed
<1>3. PICK c \in NotEmpty :
        mOpenFiles' = [mOpenFiles EXCEPT ![s][i].rsrcIO = c,
                          ![s][i].rsrcDirty = TRUE, ![s][i].wrote = "yes"]
  BY DEF FPWrite
<1> DEFINE k == [q[i] EXCEPT !.rsrcIO = c, !.rsrcDirty = TRUE, !.wrote = "yes"]
           p == [q EXCEPT ![i] = k]
<1>4. mOpenFiles' = [mOpenFiles EXCEPT ![s] = p]
  BY <1>2, <1>3
<1>5. /\ k \in Fork /\ k.refnum = q[i].refnum /\ k.age = q[i].age
      /\ k.wrote = "yes" /\ k.rsrcIO # Garbage
  BY <1>2, ContentIsContent DEF Fork
<1> HIDE DEF k
<1>6. /\ p \in Seq(Fork) /\ DOMAIN p = DOMAIN q /\ Len(p) = Len(q)
      /\ \A j \in DOMAIN q : p[j] = IF j = i THEN k ELSE q[j]
  BY <1>2, <1>5
<1> HIDE DEF p
<1>7. Numbered(p, mNextFileRef[s], 0)
  BY <1>2, <1>5, <1>6, SameNumbers
<1>8. Written(p)
  BY <1>2, <1>5, <1>6 DEF Written
<1>9. UNCHANGED <<attr, mNextFileRef, task, saved, intact, opens>>
  BY DEF FPWrite
<1>10. Typed'
  BY <1>2, <1>4, <1>6, <1>9 DEF IInv, Typed
<1>11. mOpenFiles'[s] = p
  BY <1>2, <1>4
<1>12. ForksFit(task'[s], mOpenFiles'[s], mNextFileRef'[s])
  BY <1>1, <1>2, <1>6, <1>7, <1>8, <1>9, <1>11 DEF ForksFit, TaskFits
<1> QED
  BY <1>1, <1>2, <1>4, <1>9, <1>10, <1>12, BufferStep

LEMMA SetStep ==
    ASSUME IInv, NEW s \in Session, NEW i \in DOMAIN mOpenFiles[s], FPSetForkParms(s, i)
    PROVE  IInv'
<1> DEFINE q == mOpenFiles[s]
           t == [at |-> "remove", op |-> "set", index |-> i]
<1>1. task[s] = Idle /\ task[s].at = "idle"
  BY TaskIsTask DEF FPSetForkParms, Request
<1>2. /\ q \in Seq(Fork) /\ Len(q) <= MaxFiles /\ Numbered(q, mNextFileRef[s], 0) /\ Written(q)
      /\ mOpenFiles \in [Session -> Seq(Fork)] /\ q[i] \in Fork /\ i \in Nat
  BY <1>1, IdleFits, ListFacts DEF IInv, Typed
<1>3. PICK c \in NotEmpty \cup {Empty} :
        mOpenFiles' = [mOpenFiles EXCEPT ![s][i].rsrcIO = c, ![s][i].wrote = "yes"]
  BY DEF FPSetForkParms
<1> DEFINE k == [q[i] EXCEPT !.rsrcIO = c, !.wrote = "yes"]
           p == [q EXCEPT ![i] = k]
<1>4. mOpenFiles' = [mOpenFiles EXCEPT ![s] = p]
  BY <1>2, <1>3
<1>5. /\ k \in Fork /\ k.refnum = q[i].refnum /\ k.age = q[i].age
      /\ k.wrote = "yes" /\ k.rsrcIO # Garbage
  BY <1>2, ContentIsContent DEF Fork
<1> HIDE DEF k
<1>6. /\ p \in Seq(Fork) /\ DOMAIN p = DOMAIN q /\ Len(p) = Len(q)
      /\ \A j \in DOMAIN q : p[j] = IF j = i THEN k ELSE q[j]
  BY <1>2, <1>5
<1> HIDE DEF p
<1>7. Numbered(p, mNextFileRef[s], 0)
  BY <1>2, <1>5, <1>6, SameNumbers
<1>8. Written(p)
  BY <1>2, <1>5, <1>6 DEF Written
<1>9. /\ task' = [task EXCEPT ![s] = t]
      /\ UNCHANGED <<attr, mNextFileRef, saved, intact, opens>>
      /\ task \in [Session -> Task] /\ t \in Task
  BY <1>2, SaveTasks DEF FPSetForkParms, IInv, Typed
<1>10. t.at = "remove" /\ t.op = "set" /\ t.index = i
  OBVIOUS
<1> HIDE DEF t
<1>11. Typed'
  BY <1>2, <1>4, <1>6, <1>9 DEF IInv, Typed
<1>12. mOpenFiles'[s] = p /\ task'[s] = t
  BY <1>2, <1>4, <1>9
<1>13. ForksFit(task'[s], mOpenFiles'[s], mNextFileRef'[s])
  <2>1. TaskFits(t, p, mNextFileRef[s])
    BY <1>5, <1>6, <1>10 DEF TaskFits
  <2> QED
    BY <1>2, <1>6, <1>7, <1>8, <1>9, <1>10, <1>12, <2>1 DEF ForksFit
<1> QED
  BY <1>1, <1>2, <1>4, <1>9, <1>10, <1>11, <1>12, <1>13, BufferStep

(* A dirty fork begins to be saved.                                        *)
LEMMA BeginSave ==
    ASSUME IInv, NEW s \in Session, NEW i \in DOMAIN mOpenFiles[s],
           NEW o \in {"flush", "close", "end"},
           task[s].at \in {"idle", "end"}, mOpenFiles[s][i].rsrcDirty,
           task' = [task EXCEPT ![s] = [at |-> "remove", op |-> o, index |-> i]],
           UNCHANGED <<attr, mOpenFiles, mNextFileRef, saved, intact, opens>>
    PROVE  IInv'
<1> DEFINE q == mOpenFiles[s]
           t == [at |-> "remove", op |-> o, index |-> i]
<1>1. /\ q \in Seq(Fork) /\ Len(q) <= MaxFiles /\ Numbered(q, mNextFileRef[s], 0) /\ Written(q)
      /\ i \in Nat
  BY IdleFits, ListFacts
<1>2. t \in Task /\ task \in [Session -> Task]
  BY <1>1, SaveTasks DEF IInv, Typed
<1>3. t.at = "remove" /\ t.op = o /\ t.index = i
  OBVIOUS
<1> HIDE DEF t
<1>4. task' = [task EXCEPT ![s] = t] /\ task'[s] = t
  BY <1>2 DEF t
<1>5. Typed'
  BY <1>2, <1>4 DEF IInv, Typed
<1>6. ForksFit(task'[s], mOpenFiles'[s], mNextFileRef'[s])
  BY <1>1, <1>3, <1>4 DEF ForksFit, TaskFits, Written
<1> QED
  BY <1>2, <1>3, <1>4, <1>5, <1>6, BufferStep

LEMMA FlushStep ==
    ASSUME IInv, NEW s \in Session, NEW i \in DOMAIN mOpenFiles[s], FPFlushFork(s, i)
    PROVE  IInv'
<1>1. task[s].at = "idle"
  BY TaskIsTask DEF FPFlushFork, Request
<1> QED
  BY <1>1, BeginSave DEF FPFlushFork

LEMMA CloseStep ==
    ASSUME IInv, NEW s \in Session, NEW i \in DOMAIN mOpenFiles[s], NEW o \in {"close", "end"},
           task[s].at \in {"idle", "end"}, CloseFile(s, i, o)
    PROVE  IInv'
<1>1. CASE mOpenFiles[s][i].rsrcDirty
  BY <1>1, BeginSave DEF CloseFile
<1>2. CASE ~mOpenFiles[s][i].rsrcDirty
  <2> DEFINE q == mOpenFiles[s]
             p == RemoveAt(q, i)
             t == IF o = "end" THEN [at |-> "end"] ELSE Idle
  <2>1. q \in Seq(Fork) /\ Len(q) <= MaxFiles /\ Numbered(q, mNextFileRef[s], 0) /\ Written(q)
    BY IdleFits
  <2>2. /\ p \in Seq(Fork) /\ Len(p) <= Len(q)
        /\ Numbered(p, mNextFileRef[s], 0) /\ Written(p)
    BY <2>1, CloseFits
  <2>3. Len(p) <= MaxFiles
    BY <2>1, <2>2, ListFacts, LimitAssumption
  <2> HIDE DEF p
  <2>4. t \in Task /\ t.at \in {"idle", "end"}
    BY TaskIsTask
  <2> HIDE DEF t
  <2>5. /\ mOpenFiles' = [mOpenFiles EXCEPT ![s] = p] /\ task' = [task EXCEPT ![s] = t]
        /\ UNCHANGED <<attr, mNextFileRef, saved, intact, opens>>
    BY <1>2 DEF CloseFile, p, t
  <2>6. mOpenFiles \in [Session -> Seq(Fork)] /\ task \in [Session -> Task]
    BY DEF IInv, Typed
  <2>7. mOpenFiles'[s] = p /\ task'[s] = t
    BY <2>5, <2>6
  <2>8. Typed'
    BY <2>2, <2>4, <2>5, <2>6 DEF IInv, Typed
  <2>9. ForksFit(task'[s], mOpenFiles'[s], mNextFileRef'[s])
    BY <2>2, <2>3, <2>4, <2>5, <2>7 DEF ForksFit, TaskFits
  <2> QED
    BY <2>4, <2>5, <2>6, <2>7, <2>8, <2>9, BufferStep
<1> QED
  BY <1>1, <1>2

LEMMA EndStep ==
    ASSUME IInv, NEW s \in Session, EndSession(s) \/ EndCloses(s)
    PROVE  IInv'
<1>1. mOpenFiles \in [Session -> Seq(Fork)] /\ task \in [Session -> Task]
  BY DEF IInv, Typed
<1>2. CASE EndSession(s)
  <2>1. task[s].at = "idle" /\ UNCHANGED <<attr, mOpenFiles, mNextFileRef, saved, intact, opens>>
    BY <1>2, TaskIsTask DEF EndSession
  <2>2. task' = [task EXCEPT ![s] = [at |-> "end"]] /\ task'[s] = [at |-> "end"]
    BY <1>1, <1>2 DEF EndSession
  <2>3. Typed'
    BY <1>1, <2>1, <2>2, TaskIsTask DEF IInv, Typed
  <2>4. ForksFit(task'[s], mOpenFiles'[s], mNextFileRef'[s])
    BY <2>1, <2>2, IdleFits, TaskIsTask DEF ForksFit, TaskFits
  <2> QED
    BY <1>1, <2>1, <2>2, <2>3, <2>4, TaskIsTask, BufferStep
<1>3. CASE EndCloses(s) /\ mOpenFiles[s] # <<>>
  <2>1. 1 \in DOMAIN mOpenFiles[s] /\ Head(mOpenFiles[s]) = mOpenFiles[s][1]
    BY <1>1, <1>3
  <2>2. GetForkItem(s, Head(mOpenFiles[s]).refnum) \in DOMAIN mOpenFiles[s]
    BY <2>1, NamedFork DEF IInv
  <2> QED
    BY <1>3, <2>2, CloseStep DEF EndCloses
<1>4. CASE EndCloses(s) /\ mOpenFiles[s] = <<>>
  <2>1. /\ task[s].at = "end" /\ UNCHANGED <<attr, mOpenFiles, saved, intact, opens>>
        /\ task' = [task EXCEPT ![s] = Idle]
        /\ mNextFileRef' = [mNextFileRef EXCEPT ![s] = 1 % RefRange]
    BY <1>4 DEF EndCloses
  <2>2. task'[s] = Idle
    BY <1>1, <2>1
  <2>3. Typed'
    BY <1>1, <2>1, TaskIsTask, FirstNumber DEF IInv, Typed
  <2>4. ForksFit(task'[s], mOpenFiles'[s], mNextFileRef'[s])
    BY <1>4, <2>1, <2>2, TaskIsTask, LimitAssumption DEF ForksFit, TaskFits, Numbered, Written
  <2>5. \A r \in Session \ {s} : mNextFileRef'[r] = mNextFileRef[r]
    BY <2>1 DEF IInv, Typed
  <2> QED
    BY <1>1, <2>1, <2>2, <2>3, <2>4, <2>5, TaskIsTask, BufferStep
<1> QED
  BY <1>2, <1>3, <1>4

-----------------------------------------------------------------------------
(* The steps that change the attribute *)

(* The fork that is being saved.                                           *)
LEMMA SavingFork ==
    ASSUME IInv, NEW s \in Session, task[s].at \in {"remove", "write"}
    PROVE  /\ task[s] \in SaveTask
           /\ task[s].index \in DOMAIN mOpenFiles[s]
           /\ mOpenFiles[s][task[s].index] \in Fork
           /\ mOpenFiles[s][task[s].index].rsrcIO # Garbage
           /\ mOpenFiles[s][task[s].index].wrote # "no"
           /\ task[s].op = "set" \/ mOpenFiles[s][task[s].index].rsrcDirty
<1>1. task[s] \in SaveTask
  BY TaskKinds DEF IInv, Typed
<1>2. /\ task[s].index \in DOMAIN mOpenFiles[s]
      /\ mOpenFiles[s][task[s].index].wrote # "no"
      /\ task[s].op = "set" \/ mOpenFiles[s][task[s].index].rsrcDirty
      /\ Written(mOpenFiles[s])
  BY DEF IInv, SessionsFit, ForksFit, TaskFits
<1>3. mOpenFiles[s][task[s].index] \in Fork
  BY <1>2, ListFacts DEF IInv, Typed
<1> QED
  BY <1>1, <1>2, <1>3 DEF Written

(* Others go on as they were, or know that they have been overtaken.       *)
LEMMA GoesOnType ==
    ASSUME IInv, NEW s \in Session, NEW f, NEW t \in Task, GoesOn(s, f, t)
    PROVE  /\ task' \in [Session -> Task] /\ task'[s] = t
           /\ \A r \in Session \ {s} :
                 /\ task'[r].at = task[r].at
                 /\ task[r].at # "read" => task'[r] = task[r]
                 /\ task[r].at = "read" =>
                       /\ task'[r].fork = task[r].fork
                       /\ \/ task'[r] = task[r] /\ task[r].fork.file # f
                          \/ task'[r].raced
<1>1. task \in [Session -> Task]
  BY DEF IInv, Typed
<1>2. ASSUME NEW r \in Session \ {s}
      PROVE  /\ task'[r] \in Task /\ task'[r].at = task[r].at
             /\ task[r].at # "read" => task'[r] = task[r]
             /\ task[r].at = "read" =>
                   /\ task'[r].fork = task[r].fork
                   /\ \/ task'[r] = task[r] /\ task[r].fork.file # f
                      \/ task'[r].raced
  <2>1. CASE task[r].at = "read" /\ task[r].fork.file = f
    <3>1. task'[r] = [task[r] EXCEPT !.raced = TRUE]
      BY <1>2, <2>1 DEF GoesOn
    <3>2. task[r] \in ReadTask
      BY <1>1, <2>1, TaskKinds
    <3> HIDE DEF ReadTask
    <3> QED
      BY <2>1, <3>1, <3>2, RacedTask, TaskIsTask
  <2>2. CASE ~(task[r].at = "read" /\ task[r].fork.file = f)
    <3>1. task'[r] = task[r]
      BY <1>2, <2>2 DEF GoesOn
    <3> QED
      BY <1>1, <2>2, <3>1
  <2> QED
    BY <2>1, <2>2
<1>3. task'[s] = t
  BY DEF GoesOn
<1>4. task' = [r \in Session |-> task'[r]]
  BY DEF GoesOn
<1>5. \A r \in Session : task'[r] \in Task
  BY <1>2, <1>3
<1>6. task' \in [Session -> Task]
  BY <1>4, <1>5
<1> QED
  BY <1>2, <1>3, <1>6

(* What is to be shown of a step that may change the attribute of f.       *)
LEMMA AttrStep ==
    ASSUME IInv, NEW s \in Session, task[s].at \in {"remove", "write"},
           NEW f, f = mOpenFiles[s][task[s].index].file,
           NEW t \in Task, t.at # "read", GoesOn(s, f, t), Typed',
           ForksFit(t, mOpenFiles'[s], mNextFileRef[s]), UNCHANGED mNextFileRef,
           \A r \in Session \ {s} : mOpenFiles'[r] = mOpenFiles[r],
           \A g \in File \ {f} : attr'[g] = attr[g] /\ saved'[g] = saved[g],
           intact' \subseteq intact \cup {f}, attr'[f] # Garbage,
           f \in intact' => \/ t.at = "write" /\ mOpenFiles'[s][t.index].file = f
                           \/ InAttr(f)' = saved'[f]
    PROVE  IInv'
<1>1. /\ task'[s] = t
      /\ \A r \in Session \ {s} :
            /\ task'[r].at = task[r].at
            /\ task[r].at # "read" => task'[r] = task[r]
            /\ task[r].at = "read" =>
                  /\ task'[r].fork = task[r].fork
                  /\ \/ task'[r] = task[r] /\ task[r].fork.file # f
                     \/ task'[r].raced
  BY GoesOnType
<1>2. SessionsFit'
  <2> SUFFICES ASSUME NEW r \in Session
               PROVE  ForksFit(task'[r], mOpenFiles'[r], mNextFileRef'[r])
    BY DEF SessionsFit
  <2>1. CASE r = s
    BY <1>1, <2>1
  <2>2. CASE r # s
    <3>1. ForksFit(task[r], mOpenFiles[r], mNextFileRef[r])
      BY DEF IInv, SessionsFit
    <3>2. CASE task[r].at # "read"
      BY <1>1, <2>2, <3>1, <3>2
    <3>3. CASE task[r].at = "read"
      BY <1>1, <2>2, <3>1, <3>3 DEF ForksFit, TaskFits
    <3> QED
      BY <3>2, <3>3
  <2> QED
    BY <2>1, <2>2
<1>3. \A g \in File \ {f} : InAttr(g)' = InAttr(g) /\ SizeToRead(g)' = SizeToRead(g)
  BY DEF InAttr, SizeToRead
<1>4. SizeIsAttrs'
  <2> SUFFICES ASSUME NEW r \in Session, task'[r].at = "read", ~task'[r].raced
               PROVE  (task[r].size = SizeToRead(task[r].fork.file))'
    BY DEF SizeIsAttrs
  <2>1. r # s /\ task'[r] = task[r] /\ task[r].fork.file # f /\ task[r].at = "read"
    BY <1>1
  <2>2. task[r].fork.file \in File
    <3>1. task[r] \in ReadTask
      BY <2>1, TaskKinds DEF IInv, Typed
    <3>2. task[r].fork \in Fork
      BY <3>1 DEF ReadTask
    <3> QED
      BY <3>2, ForkFields
  <2> QED
    BY <2>1, <2>2 DEF IInv, SizeIsAttrs, SizeToRead, InAttr
<1>5. AttrsAreContents'
  BY DEF IInv, AttrsAreContents
<1>6. SavedUnlessWriting'
  <2> SUFFICES ASSUME NEW g \in intact', ~Writing(g)'
               PROVE  InAttr(g)' = saved'[g]
    BY DEF SavedUnlessWriting
  <2>1. CASE g = f
    BY <1>1, <2>1 DEF Writing
  <2>2. CASE g # f
    <3>1. ~Writing(g)
      <4> SUFFICES ASSUME NEW r \in Session, task[r].at = "write",
                          mOpenFiles[r][task[r].index].file = g
                   PROVE  FALSE
        BY DEF Writing
      <4>1. r # s
        BY <2>2
      <4> QED
        BY <1>1, <4>1 DEF Writing
    <3>2. g \in intact /\ g \in File
      BY <2>2 DEF IInv, Typed
    <3> QED
      BY <1>3, <2>2, <3>1, <3>2 DEF IInv, SavedUnlessWriting
  <2> QED
    BY <2>1, <2>2
<1> QED
  BY <1>2, <1>4, <1>5, <1>6 DEF IInv

(* What is left of a request that has saved, or failed to.                 *)
After(s) == IF task[s].op = "end" THEN [at |-> "end"] ELSE Idle

LEMMA FinishFits ==
    ASSUME IInv, NEW s \in Session, task[s].at \in {"remove", "write"}, Finish(s)
    PROVE  /\ GoesOn(s, mOpenFiles[s][task[s].index].file, After(s))
           /\ After(s) \in Task /\ After(s).at \in {"idle", "end"}
           /\ mOpenFiles' \in [Session -> Seq(Fork)]
           /\ \A r \in Session \ {s} : mOpenFiles'[r] = mOpenFiles[r]
           /\ ForksFit(After(s), mOpenFiles'[s], mNextFileRef[s])
<1> DEFINE q == mOpenFiles[s]
           i == task[s].index
           op == task[s].op
           k == [q[i] EXCEPT !.rsrcDirty = FALSE, !.wrote = "no"]
           l == [q[i] EXCEPT !.wrote = IF q[i].rsrcDirty THEN "set" ELSE "no"]
           p == IF op \in {"close", "end"} THEN RemoveAt(q, i)
                ELSE IF op = "flush" THEN [q EXCEPT ![i] = k]
                ELSE [q EXCEPT ![i] = l]
<1>1. /\ i \in DOMAIN q /\ q[i] \in Fork /\ q[i].rsrcIO # Garbage
  BY SavingFork
<1>2. /\ q \in Seq(Fork) /\ Len(q) <= MaxFiles /\ Numbered(q, mNextFileRef[s], 0) /\ Written(q)
      /\ mOpenFiles \in [Session -> Seq(Fork)]
  BY IdleFits DEF IInv, Typed
<1>3. After(s) \in Task /\ After(s).at \in {"idle", "end"}
  BY TaskIsTask DEF After
<1>4. /\ k \in Fork /\ k.refnum = q[i].refnum /\ k.age = q[i].age
      /\ ~k.rsrcDirty /\ k.wrote = "no"
  BY <1>1 DEF Fork
<1>5. /\ l \in Fork /\ l.refnum = q[i].refnum /\ l.age = q[i].age
      /\ l.rsrcIO = q[i].rsrcIO /\ (l.rsrcDirty => l.wrote # "no")
  BY <1>1 DEF Fork
<1>6. mOpenFiles' = [mOpenFiles EXCEPT ![s] = p]
  BY <1>1, <1>2 DEF Finish
<1> HIDE DEF k, l
<1>7. /\ p \in Seq(Fork) /\ Len(p) <= Len(q)
      /\ Numbered(p, mNextFileRef[s], 0) /\ Written(p)
  <2>1. CASE op \in {"close", "end"}
    BY <1>1, <1>2, <2>1, CloseFits
  <2>2. ASSUME NEW m \in {k, l}, p = [q EXCEPT ![i] = m]
        PROVE  /\ p \in Seq(Fork) /\ Len(p) <= Len(q)
               /\ Numbered(p, mNextFileRef[s], 0) /\ Written(p)
    <3> DEFINE u == [q EXCEPT ![i] = m]
    <3>1. m \in Fork /\ m.refnum = q[i].refnum /\ m.age = q[i].age
      BY <1>4, <1>5
    <3>2. (m.rsrcDirty => m.wrote # "no") /\ (m.wrote # "no" => m.rsrcIO # Garbage)
      BY <1>1, <1>4, <1>5
    <3>3. /\ u \in Seq(Fork) /\ DOMAIN u = DOMAIN q /\ Len(u) = Len(q)
          /\ \A j \in DOMAIN q : u[j] = IF j = i THEN m ELSE q[j]
      BY <1>1, <1>2, <3>1
    <3> HIDE DEF u
    <3>4. Numbered(u, mNextFileRef[s], 0)
      BY <1>2, <3>1, <3>3, SameNumbers
    <3>5. Written(u)
      BY <1>2, <3>2, <3>3 DEF Written
    <3>6. Len(u) <= Len(q)
      BY <1>2, <3>3, ListFacts
    <3> QED
      BY <2>2, <3>3, <3>4, <3>5, <3>6 DEF u
  <2> QED
    BY <2>1, <2>2
<1> HIDE DEF p
<1>8. Len(p) <= MaxFiles
  BY <1>2, <1>7, ListFacts, LimitAssumption
<1>9. /\ mOpenFiles' \in [Session -> Seq(Fork)] /\ mOpenFiles'[s] = p
      /\ \A r \in Session \ {s} : mOpenFiles'[r] = mOpenFiles[r]
  BY <1>2, <1>6, <1>7
<1>10. ForksFit(After(s), mOpenFiles'[s], mNextFileRef[s])
  BY <1>3, <1>7, <1>8, <1>9 DEF ForksFit, TaskFits
<1>11. GoesOn(s, q[i].file, After(s))
  BY DEF Finish, After
<1> QED
  BY <1>3, <1>9, <1>10, <1>11

LEMMA RemoveStep ==
    ASSUME IInv, NEW s \in Session, RemoveAttr(s)
    PROVE  IInv'
<1> DEFINE k == mOpenFiles[s][task[s].index]
<1>1. task[s].at = "remove"
  BY DEF RemoveAttr
<1>2. PICK f \in File : f = mOpenFiles[s][task[s].index].file
  BY <1>1, SavingFork, ForkFields
<1>3. /\ attr \in [File -> Content \cup {Absent}] /\ attr' = [attr EXCEPT ![f] = Absent]
      /\ UNCHANGED <<mNextFileRef, opens>>
  BY <1>2 DEF RemoveAttr, IInv, Typed
<1>4. /\ attr' \in [File -> Content \cup {Absent}] /\ attr'[f] = Absent /\ Absent # Garbage
      /\ \A g \in File \ {f} : attr'[g] = attr[g]
  BY <1>2, <1>3, ContentIsContent
<1>5. CASE WritesNothing(s)
  <2>1. Finish(s) /\ Saved(s) /\ k.rsrcIO = Empty
    BY <1>5 DEF RemoveAttr, WritesNothing
  <2>2. /\ GoesOn(s, f, After(s)) /\ After(s) \in Task /\ After(s).at \in {"idle", "end"}
        /\ mOpenFiles' \in [Session -> Seq(Fork)]
        /\ \A r \in Session \ {s} : mOpenFiles'[r] = mOpenFiles[r]
        /\ ForksFit(After(s), mOpenFiles'[s], mNextFileRef[s])
    BY <1>1, <1>2, <2>1, FinishFits
  <2>3. /\ saved' = [saved EXCEPT ![f] = Empty] /\ intact' = intact \cup {f}
        /\ saved \in [File -> Content] /\ intact \subseteq File
    BY <1>2, <2>1 DEF Saved, IInv, Typed
  <2>4. task' \in [Session -> Task]
    BY <2>2, GoesOnType
  <2>5. Typed'
    BY <1>2, <1>3, <1>4, <2>2, <2>3, <2>4, ContentIsContent DEF IInv, Typed
  <2>6. InAttr(f)' = saved'[f]
    BY <1>2, <1>4, <2>3 DEF InAttr
  <2>7. /\ \A g \in File \ {f} : attr'[g] = attr[g] /\ saved'[g] = saved[g]
        /\ intact' \subseteq intact \cup {f} /\ attr'[f] # Garbage /\ UNCHANGED mNextFileRef
    BY <1>3, <1>4, <2>3
  <2>8. task[s].at \in {"remove", "write"} /\ After(s).at # "read"
    BY <1>1, <2>2
  <2> QED
    BY <1>2, <2>2, <2>5, <2>6, <2>7, <2>8, AttrStep
<1>6. CASE ~WritesNothing(s)
  <2> DEFINE t == [task[s] EXCEPT !.at = "write"]
  <2>1. GoesOn(s, f, t) /\ UNCHANGED <<mOpenFiles, saved, intact>>
    BY <1>2, <1>6 DEF RemoveAttr
  <2>2. /\ t \in SaveTask /\ t.at = "write" /\ t.op = task[s].op /\ t.index = task[s].index
    BY <1>1, SavingFork DEF SaveTask
  <2>3. t \in Task
    BY <2>2, TaskIsTask
  <2> HIDE DEF t
  <2>4. task' \in [Session -> Task]
    BY <2>1, <2>3, GoesOnType
  <2>5. Typed'
    BY <1>3, <1>4, <2>1, <2>4 DEF IInv, Typed
  <2>6. ForksFit(t, mOpenFiles[s], mNextFileRef[s])
    BY <1>1, <2>2 DEF IInv, SessionsFit, ForksFit, TaskFits
  <2>7. mOpenFiles'[s][t.index].file = f
    BY <1>2, <2>1, <2>2
  <2>8. /\ \A g \in File \ {f} : attr'[g] = attr[g] /\ saved'[g] = saved[g]
        /\ intact' \subseteq intact \cup {f} /\ attr'[f] # Garbage /\ UNCHANGED mNextFileRef
        /\ \A r \in Session \ {s} : mOpenFiles'[r] = mOpenFiles[r]
        /\ ForksFit(t, mOpenFiles'[s], mNextFileRef[s])
    BY <1>3, <1>4, <2>1, <2>6
  <2>9. task[s].at \in {"remove", "write"} /\ t.at # "read"
    BY <1>1, <2>2
  <2> QED
    BY <1>2, <2>1, <2>2, <2>3, <2>5, <2>7, <2>8, <2>9, AttrStep
<1> QED
  BY <1>5, <1>6

LEMMA WriteAttrStep ==
    ASSUME IInv, NEW s \in Session, WriteAttr(s) \/ WriteAttrFails(s)
    PROVE  IInv'
<1>1. task[s].at = "write" /\ Finish(s) /\ UNCHANGED <<mNextFileRef, opens>>
  BY DEF WriteAttr, WriteAttrFails
<1>2. PICK f \in File, c \in Content \ {Garbage} :
        /\ f = mOpenFiles[s][task[s].index].file
        /\ c = mOpenFiles[s][task[s].index].rsrcIO
  BY <1>1, SavingFork, ForkFields
<1>3. /\ GoesOn(s, f, After(s)) /\ After(s) \in Task /\ After(s).at \in {"idle", "end"}
      /\ mOpenFiles' \in [Session -> Seq(Fork)]
      /\ \A r \in Session \ {s} : mOpenFiles'[r] = mOpenFiles[r]
      /\ ForksFit(After(s), mOpenFiles'[s], mNextFileRef[s])
  BY <1>1, <1>2, FinishFits
<1>4. task' \in [Session -> Task]
  BY <1>3, GoesOnType
<1>5. /\ attr \in [File -> Content \cup {Absent}] /\ saved \in [File -> Content]
      /\ intact \subseteq File
  BY DEF IInv, Typed
<1>6. /\ attr' \in [File -> Content \cup {Absent}] /\ saved' \in [File -> Content]
      /\ intact' \subseteq intact \cup {f} /\ attr'[f] # Garbage
      /\ \A g \in File \ {f} : attr'[g] = attr[g] /\ saved'[g] = saved[g]
      /\ f \in intact' => InAttr(f)' = saved'[f]
  <2>1. CASE WriteAttr(s)
    <3>1. /\ attr' = [attr EXCEPT ![f] = c] /\ saved' = [saved EXCEPT ![f] = c]
          /\ intact' = intact \cup {f}
      BY <1>2, <2>1 DEF WriteAttr, Saved
    <3> QED
      BY <1>2, <1>5, <3>1, ContentIsContent DEF InAttr
  <2>2. CASE WriteAttrFails(s)
    <3>1. UNCHANGED <<attr, saved>> /\ intact' = intact \ {f}
      BY <1>2, <2>2 DEF WriteAttrFails
    <3> QED
      BY <1>2, <1>5, <3>1 DEF IInv, AttrsAreContents
  <2> QED
    BY <2>1, <2>2
<1>7. Typed'
  BY <1>1, <1>2, <1>3, <1>4, <1>5, <1>6 DEF IInv, Typed
<1>8. task[s].at \in {"remove", "write"} /\ After(s).at # "read" /\ UNCHANGED mNextFileRef
  BY <1>1, <1>3
<1> QED
  BY <1>2, <1>3, <1>6, <1>7, <1>8, AttrStep

(* The next start finds what the attributes hold: also that of a file      *)
(* whose save had not come further than its first half.                    *)
LEMMA StopStep ==
    ASSUME IInv, ServerStops
    PROVE  IInv'
<1>1. Typed'
  BY TaskIsTask, FirstNumber, LimitAssumption DEF ServerStops, IInv, Typed
<1>2. SessionsFit'
  BY TaskIsTask, LimitAssumption DEF ServerStops, SessionsFit, ForksFit, TaskFits, Numbered, Written
<1>3. SizeIsAttrs'
  BY TaskIsTask DEF ServerStops, SizeIsAttrs
<1>4. AttrsAreContents'
  BY DEF ServerStops, IInv, AttrsAreContents
<1>5. SavedUnlessWriting'
  <2> SUFFICES ASSUME NEW f \in intact' PROVE InAttr(f)' = saved'[f]
    BY DEF SavedUnlessWriting
  <2>1. f \in intact /\ f \in File /\ ~Writing(f)
    BY DEF ServerStops, IInv, Typed, Writing
  <2> QED
    BY <2>1 DEF ServerStops, IInv, SavedUnlessWriting, InAttr
<1> QED
  BY <1>1, <1>2, <1>3, <1>4, <1>5 DEF IInv

LEMMA InitStep == Init => IInv
<1> SUFFICES ASSUME Init PROVE IInv
  OBVIOUS
<1>1. Typed
  <2>1. attr \in [File -> Content \cup {Absent}]
    BY ContentIsContent DEF Init
  <2>2. \A f \in File : InAttr(f) \in Content
    BY <2>1, ContentIsContent DEF InAttr
  <2> QED
    BY <2>1, <2>2, TaskIsTask, FirstNumber, LimitAssumption DEF Init, Typed
<1>2. SessionsFit
  BY TaskIsTask, LimitAssumption DEF Init, SessionsFit, ForksFit, TaskFits, Numbered, Written
<1>3. SizeIsAttrs
  BY TaskIsTask DEF Init, SizeIsAttrs
<1>4. AttrsAreContents
  BY ContentIsContent DEF Init, AttrsAreContents
<1>5. SavedUnlessWriting
  BY DEF Init, SavedUnlessWriting
<1> QED
  BY <1>1, <1>2, <1>3, <1>4, <1>5 DEF IInv

LEMMA SameVars ==
    ASSUME IInv, UNCHANGED vars
    PROVE  IInv'
<1>1. Typed'
  BY DEF IInv, Typed, vars
<1>2. SessionsFit'
  BY DEF IInv, SessionsFit, vars
<1>3. SizeIsAttrs'
  BY DEF IInv, SizeIsAttrs, SizeToRead, InAttr, vars
<1>4. AttrsAreContents'
  BY DEF IInv, AttrsAreContents, vars
<1>5. SavedUnlessWriting'
  BY DEF IInv, SavedUnlessWriting, Writing, InAttr, vars
<1> QED
  BY <1>1, <1>2, <1>3, <1>4, <1>5 DEF IInv

LEMMA NextStep ==
    ASSUME IInv, [Next]_vars
    PROVE  IInv'
<1>1. ASSUME NEW s \in Session,
             FPOpenFork(s) \/ OpenAndReadInResourceFork(s) \/ EndSession(s) \/ EndCloses(s)
      PROVE  IInv'
  BY <1>1, OpenStep, ReadStep, EndStep
<1>2. ASSUME NEW s \in Session, RemoveAttr(s) \/ WriteAttr(s) \/ WriteAttrFails(s)
      PROVE  IInv'
  BY <1>2, RemoveStep, WriteAttrStep
<1>3. ASSUME NEW s \in Session, NEW i \in DOMAIN mOpenFiles[s], FPCloseFork(s, i)
      PROVE  IInv'
  <2>1. task[s].at = "idle" /\ CloseFile(s, i, "close")
    BY <1>3, TaskIsTask DEF FPCloseFork, Request
  <2> QED
    BY <2>1, CloseStep
<1>4. ASSUME NEW s \in Session, NEW i \in DOMAIN mOpenFiles[s],
             FPWrite(s, i) \/ FPSetForkParms(s, i) \/ FPFlushFork(s, i)
      PROVE  IInv'
  BY <1>4, WriteStep, SetStep, FlushStep
<1> QED
  BY <1>1, <1>2, <1>3, <1>4, StopStep, SameVars DEF Next

-----------------------------------------------------------------------------
(* The theorems *)

(* The invariants hold in every state.                                     *)
THEOREM Invariance == Spec => []IInv
<1> QED
  BY InitStep, NextStep, PTL DEF Spec

(* Every variable has its type, and a task is about an open fork.          *)
THEOREM TypeCorrect == Spec => []TypeOK
<1>1. IInv => TypeOK
  <2> SUFFICES ASSUME IInv PROVE TypeOK
    OBVIOUS
  <2>1. ASSUME NEW s \in Session
        PROVE  /\ mOpenFiles[s] \in Seq(Fork) /\ Len(mOpenFiles[s]) <= MaxFiles
               /\ task[s].at \in {"idle", "read", "remove", "write", "end"}
               /\ task[s].at \in {"remove", "write"} =>
                     /\ task[s].index \in DOMAIN mOpenFiles[s]
                     /\ task[s].op = "set" \/ mOpenFiles[s][task[s].index].rsrcDirty
    BY TaskKinds DEF IInv, Typed, SessionsFit, ForksFit, TaskFits
  <2> QED
    BY <2>1 DEF IInv, Typed, TypeOK
<1> QED
  BY Invariance, <1>1, PTL

(* What a client was told is saved is what the file has, whatever the      *)
(* order in which the two halves of the saves of several sessions come,    *)
(* and wherever the server stops.                                          *)
THEOREM SavedReachesDisk == Spec => []SavedIsOnDisk
<1>1. IInv => SavedIsOnDisk
  BY DEF IInv, SavedUnlessWriting, SavedIsOnDisk, Saving, Writing
<1> QED
  BY Invariance, <1>1, PTL

(* A reference number names one fork of a session, until the numbers have  *)
(* come round.                                                             *)
THEOREM NumbersAreUnique == Spec => []RefNumsAreUnique
<1>1. IInv => RefNumsAreUnique
  <2> SUFFICES ASSUME IInv, NEW s \in Session, NEW i \in DOMAIN mOpenFiles[s],
                      NEW j \in DOMAIN mOpenFiles[s], i < j,
                      mOpenFiles[s][i].refnum = mOpenFiles[s][j].refnum,
                      mOpenFiles[s][i].age # RefRange
               PROVE  FALSE
    BY DEF RefNumsAreUnique
  <2> DEFINE a == mOpenFiles[s][i]
             b == mOpenFiles[s][j]
             next == mNextFileRef[s]
             n == IF task[s].at = "read" THEN 1 ELSE 0
  <2>1. mOpenFiles[s] \in Seq(Fork) /\ next \in RefNum
    BY DEF IInv, Typed
  <2>2. a \in Fork /\ b \in Fork
    BY <2>1, ListFacts
  <2>3. /\ a.refnum \in Int /\ a.age \in 0..RefRange /\ b.age \in 0..RefRange
        /\ RefRange \in Nat /\ next \in Int /\ n \in {0, 1}
    BY <2>1, <2>2, ForkFields, LimitAssumption DEF RefNum
  <2>4. Numbered(mOpenFiles[s], next, n)
    BY DEF IInv, SessionsFit, ForksFit
  <2>5. /\ a.age < RefRange /\ b.age < a.age
        /\ a.refnum + a.age + 1 + n - next \in {0, RefRange, 2 * RefRange}
        /\ a.refnum + b.age + 1 + n - next \in {0, RefRange, 2 * RefRange}
    BY <2>3, <2>4 DEF Numbered
  <2> HIDE DEF a, b, next, n
  <2> QED
    BY <2>3, <2>5
<1> QED
  BY Invariance, <1>1, PTL

(* Only a reader that was overtaken by a save finds a buffer that is not   *)
(* the fork.                                                               *)
THEOREM ReadWhole == Spec => ForksAreReadWhole
<1> DEFINE Step == \A s \in Session :
                      (OpenAndReadInResourceFork(s)
                         /\ mOpenFiles'[s][Len(mOpenFiles'[s])].rsrcIO = Garbage)
                      => task[s].raced
<1>1. ASSUME IInv PROVE Step
  <2> SUFFICES ASSUME NEW s \in Session, OpenAndReadInResourceFork(s), ~task[s].raced
               PROVE  mOpenFiles'[s][Len(mOpenFiles'[s])].rsrcIO # Garbage
    OBVIOUS
  <2> DEFINE q == mOpenFiles[s]
             older == [i \in DOMAIN q |->
                         [q[i] EXCEPT !.age = IF @ < RefRange THEN @ + 1 ELSE @]]
             c == ReadAttr(task[s].fork.file, task[s].size)
             k == [task[s].fork EXCEPT !.rsrcIO = c]
  <2>1. task[s].at = "read" /\ task[s] \in ReadTask
    BY <1>1, TaskKinds DEF OpenAndReadInResourceFork, IInv, Typed
  <2>2. task[s].fork \in Fork /\ task[s].size \in Nat
    BY <2>1 DEF ReadTask
  <2>3. task[s].fork.file \in File
    BY <2>2, ForkFields
  <2>4. c # Garbage /\ c \in Content
    BY <1>1, <2>1, <2>2, <2>3, ReadType DEF IInv, SizeIsAttrs
  <2>5. mOpenFiles' = [mOpenFiles EXCEPT ![s] = Append(older, k)]
    BY DEF OpenAndReadInResourceFork
  <2>6. k.rsrcIO = c
    BY <2>2 DEF Fork
  <2>7. mOpenFiles \in [Session -> Seq(Fork)]
    BY <1>1 DEF IInv, Typed
  <2>8. mOpenFiles'[s] = Append(older, k)
    BY <2>5, <2>7
  <2>9. Append(older, k)[Len(Append(older, k))] = k
    <3>1. Len(q) \in Nat /\ DOMAIN q = 1..Len(q)
      BY <2>7, ListFacts
    <3>2. DOMAIN older = 1..Len(q)
      BY <3>1
    <3> DEFINE S == {older[i] : i \in 1..Len(q)} \cup {k}
    <3> HIDE DEF older, k
    <3>3. older \in [1..Len(q) -> S]
      BY <3>2, older = [i \in 1..Len(q) |-> older[i]] DEF older
    <3>4. older \in Seq(S) /\ k \in S
      BY <3>1, <3>3, SeqDef
    <3> QED
      BY <3>4, AppendProperties
  <2> QED
    BY <2>4, <2>6, <2>8, <2>9
<1>2. IInv => [Step]_vars
  BY <1>1
<1> QED
  BY Invariance, <1>2, PTL DEF ForksAreReadWhole

(* A session that only reads a fork never writes it back.                  *)
THEOREM WritersSave == Spec => OnlyWritersSave
<1> DEFINE Step == \A s \in Session :
                      (attr' # attr /\ task'[s].at # task[s].at)
                      => mOpenFiles[s][task[s].index].wrote # "no"
<1>1. ASSUME IInv, [Next]_vars PROVE [Step]_vars
  <2> SUFFICES ASSUME Next, NEW s \in Session, attr' # attr, task'[s].at # task[s].at
               PROVE  mOpenFiles[s][task[s].index].wrote # "no"
    BY <1>1
  <2>1. PICK r \in Session : RemoveAttr(r) \/ WriteAttr(r)
    <3>1. ASSUME NEW r \in Session, EndCloses(r) PROVE attr' = attr
      BY <3>1 DEF EndCloses, CloseFile
    <3>2. ASSUME NEW r \in Session, NEW i,
                 FPWrite(r, i) \/ FPSetForkParms(r, i) \/ FPFlushFork(r, i) \/ FPCloseFork(r, i)
          PROVE  attr' = attr
      BY <3>2 DEF FPWrite, FPSetForkParms, FPFlushFork, FPCloseFork, CloseFile
    <3>3. ASSUME NEW r \in Session,
                 FPOpenFork(r) \/ OpenAndReadInResourceFork(r) \/ EndSession(r) \/ WriteAttrFails(r)
          PROVE  attr' = attr
      BY <3>3 DEF FPOpenFork, OpenAndReadInResourceFork, EndSession, WriteAttrFails
    <3>4. CASE ServerStops
      BY <3>4 DEF ServerStops
    <3> QED
      BY <3>1, <3>2, <3>3, <3>4 DEF Next
  <2>2. task[r].at \in {"remove", "write"}
    BY <2>1 DEF RemoveAttr, WriteAttr
  <2>3. CASE r = s
    BY <1>1, <2>2, <2>3, SavingFork
  <2>4. CASE r # s
    <3>1. PICK f, t : GoesOn(r, f, t)
      BY <2>1 DEF RemoveAttr, WriteAttr, Finish
    <3>2. task'[s] = task[s] \/ (task[s].at = "read" /\ task'[s] = [task[s] EXCEPT !.raced = TRUE])
      BY <2>4, <3>1 DEF GoesOn
    <3>3. task[s].at = "read" => task[s] \in ReadTask
      BY <1>1, TaskKinds DEF IInv, Typed
    <3> HIDE DEF ReadTask
    <3> QED
      BY <3>2, <3>3, RacedTask
  <2> QED
    BY <2>3, <2>4
<1> QED
  BY Invariance, <1>1, PTL DEF Spec, OnlyWritersSave
=============================================================================
