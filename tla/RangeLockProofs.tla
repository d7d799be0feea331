--------------------------- MODULE RangeLockProofs ---------------------------
(***************************************************************************)
(* Proofs about RangeLock for any number of sessions, files, fork slots    *)
(* and locks, and any offsets and lengths.                                 *)
(***************************************************************************)
EXTENDS RangeLock, SequenceTheorems, TLAPS

-----------------------------------------------------------------------------
(* The inductive invariant *)

(* What the request of a thread in mid-flight refers to: a fork that is    *)
(* open in a session that is alive, its own lock object (not yet valid     *)
(* while it is being requested), a range that is not empty once tested.    *)
RequestOf(s) ==
    /\ req[s].op # "idle" => /\ req[s].ref \in Ref
                             /\ IsOpen(s, req[s].ref)
                             /\ conn[s] # "down"
    /\ req[s].op \in {"idle", "unlock", "close"} => req[s].phase = "do"
    /\ req[s].op \in {"lock", "unlock"} =>
           /\ req[s].lock \in DOMAIN gLockList
           /\ gLockList[req[s].lock].session = s
           /\ gLockList[req[s].lock].ref = req[s].ref
    /\ req[s].op = "lock" => ~gLockList[req[s].lock].valid
    /\ req[s].op = "lock" /\ req[s].phase = "do" => req[s].start <= req[s].end
    /\ req[s].op \in {"read", "write", "flush"} => req[s].start <= req[s].end
    /\ req[s].op = "write" => req[s].end \in 0..MaxSize

RequestOK == \A s \in Session : RequestOf(s)

(* A valid lock covers at least one byte.                                  *)
ValidNotEmpty ==
    \A l \in DOMAIN gLockList :
        gLockList[l].valid => gLockList[l].start <= gLockList[l].end

(* The types and the properties of RangeLock, with the two facts above     *)
(* that make them inductive.                                               *)
IInv ==
    /\ TypeOK
    /\ RequestOK
    /\ ValidNotEmpty
    /\ ListsAgree
    /\ DeadSessionHoldsNothing
    /\ TestedRangeIsFree
    /\ OnlyRacingLocksOverlap

(* TestedRangeIsFree for one session.                                      *)
FreeFor(s) ==
    \A l \in DOMAIN gLockList :
        /\ gLockList[l].valid
        /\ gLockList[l].session # s
        /\ gLockList[l].node = fork[s][req[s].ref].node
        /\ Overlap(req[s].start, req[s].end, gLockList[l].start, gLockList[l].end)
        => l \in req[s].since

-----------------------------------------------------------------------------
(* Lemmas about the data *)

(* BList::RemoveItem on a fork's lock list yields a list of locks.         *)
LEMMA RemoveAtType ==
    ASSUME NEW S, NEW q \in Seq(S), NEW i \in DOMAIN q
    PROVE  RemoveAt(q, i) \in Seq(S)
BY DEF RemoveAt

(* An idle thread has a well-typed request.                                *)
LEMMA IdleType == Idle \in Request
BY DEF Idle, Request, Op, Phase

-----------------------------------------------------------------------------
(* Type correctness *)

(* Deleting a lock keeps the types of the lists and of the fork table.     *)
LEMMA DeleteLockType ==
    ASSUME TypeOK, NEW l \in DOMAIN gLockList, DeleteLock(l)
    PROVE  /\ fork' \in [Session -> [Ref -> ForkItem \cup {NoFork}]]
           /\ DOMAIN gLockList' \subseteq LockId
           /\ gLockList' \in [DOMAIN gLockList' -> LockObject]
<1> DEFINE o == gLockList[l]
           f == fork[o.session][o.ref]
<1>1. o \in LockObject
  BY DEF TypeOK
<1>2. o.session \in Session /\ o.ref \in Ref
  BY <1>1 DEF LockObject
<1>3. f \in ForkItem \cup {NoFork}
  BY <1>2 DEF TypeOK
<1>4. PICK i \in DOMAIN f.brlList :
          /\ f.brlList[i] = l
          /\ fork' = [fork EXCEPT ![o.session][o.ref].brlList = RemoveAt(f.brlList, i)]
  BY DEF DeleteLock
<1>5. f \in ForkItem
  BY <1>3, <1>4 DEF NoFork
<1>6. [f EXCEPT !.brlList = RemoveAt(f.brlList, i)] \in ForkItem
  BY <1>4, <1>5, RemoveAtType DEF ForkItem
<1>7. fork' \in [Session -> [Ref -> ForkItem \cup {NoFork}]]
  <2>1. fork \in [Session -> [Ref -> ForkItem \cup {NoFork}]]
    BY DEF TypeOK
  <2>2. fork' = [fork EXCEPT ![o.session] =
                    [fork[o.session] EXCEPT ![o.ref] =
                        [f EXCEPT !.brlList = RemoveAt(f.brlList, i)]]]
    BY <1>2, <1>4, <2>1
  <2> QED
    BY <1>2, <1>6, <2>1, <2>2
<1>8. DOMAIN gLockList' = DOMAIN gLockList \ {l}
  BY DEF DeleteLock
<1>9. \A m \in DOMAIN gLockList \ {l} : gLockList'[m] \in LockObject
  <2> TAKE m \in DOMAIN gLockList \ {l}
  <2>1. gLockList'[m] = [gLockList[m] EXCEPT !.raced = @ \ {l}]
    BY DEF DeleteLock
  <2>2. gLockList[m] \in LockObject
    BY DEF TypeOK
  <2> QED
    BY <2>1, <2>2 DEF LockObject
<1>10. gLockList' = [m \in DOMAIN gLockList' |-> gLockList'[m]]
  BY <1>8 DEF DeleteLock
<1> QED
  BY <1>7, <1>8, <1>9, <1>10 DEF TypeOK

(* A new request of a session keeps the type of the request table.         *)
LEMMA BecomeType ==
    ASSUME TypeOK, NEW s \in Session, NEW q \in Request, Become(s, q)
    PROVE  req' \in [Session -> Request]
BY DEF TypeOK, Become

(* Forgetting a deleted lock keeps the type of the request table.          *)
LEMMA AfterDeleteType ==
    ASSUME TypeOK, NEW s \in Session, NEW l, NEW q \in Request, AfterDelete(s, l, q)
    PROVE  req' \in [Session -> Request]
<1>1. \A t \in Session : [req[t] EXCEPT !.since = @ \ {l}] \in Request
  <2> TAKE t \in Session
  <2>1. req[t] \in Request
    BY DEF TypeOK
  <2> QED
    BY <2>1 DEF Request
<1> QED
  BY <1>1 DEF AfterDelete

-----------------------------------------------------------------------------
(* Lemmas about the state *)

(* The overlap test of RangeLocked is exact on ranges that are not empty.  *)
LEMMA RangeHitIsOverlap ==
    ASSUME TypeOK, NEW l \in DOMAIN gLockList, NEW a \in Int, NEW b \in Int,
           a <= b, gLockList[l].start <= gLockList[l].end
    PROVE  RangeHit(a, b, l) <=> Overlap(a, b, gLockList[l].start, gLockList[l].end)
<1>1. gLockList[l].start \in Int /\ gLockList[l].end \in Int
  BY DEF TypeOK, LockObject
<1> QED
  BY <1>1 DEF RangeHit, Overlap

(* A walk of the list that reports nothing meets no foreign lock at all.   *)
LEMMA NotRangeLocked ==
    ASSUME TypeOK, ValidNotEmpty, NEW s, NEW n, NEW a \in Int, NEW b \in Int, a <= b,
           ~RangeLocked(s, n, a, b), NEW l \in DOMAIN gLockList,
           gLockList[l].valid, gLockList[l].session # s, gLockList[l].node = n
    PROVE  ~Overlap(a, b, gLockList[l].start, gLockList[l].end)
BY RangeHitIsOverlap DEF RangeLocked, ValidNotEmpty

(* A session without an open fork has no lock.                             *)
LEMMA NoForkNoLock ==
    ASSUME TypeOK, ListsAgree, NEW s \in Session, \A r \in Ref : ~IsOpen(s, r)
    PROVE  \A l \in DOMAIN gLockList : gLockList[l].session # s
<1> SUFFICES ASSUME NEW l \in DOMAIN gLockList, gLockList[l].session = s
             PROVE  FALSE
  OBVIOUS
<1>1. gLockList[l].ref \in Ref
  BY DEF TypeOK, LockObject
<1>2. fork[s][gLockList[l].ref].brlList = <<>>
  BY <1>1 DEF IsOpen, NoFork
<1>3. l \in Range(fork[s][gLockList[l].ref].brlList)
  BY DEF ListsAgree
<1> QED
  BY <1>2, <1>3 DEF Range

(* A step that leaves forks and locks alone and touches one session only   *)
(* keeps the invariant if it does so for that session.                     *)
LEMMA QuietStep ==
    ASSUME IInv, TypeOK', UNCHANGED <<fork, gLockList>>, NEW s \in Session,
           \A t \in Session \ {s} : req'[t] = req[t] /\ conn'[t] = conn[t],
           RequestOf(s)',
           conn'[s] = "down" => conn[s] = "down" \/ \A r \in Ref : ~IsOpen(s, r),
           Scanned(s)' => FreeFor(s)'
    PROVE  IInv'
<1>1. RequestOK'
  <2> SUFFICES ASSUME NEW t \in Session, t # s PROVE RequestOf(t)'
    BY DEF RequestOK
  <2>1. RequestOf(t)
    BY DEF IInv, RequestOK
  <2> QED
    BY <2>1 DEF RequestOf, IsOpen
<1>2. ValidNotEmpty' /\ ListsAgree' /\ OnlyRacingLocksOverlap'
  BY DEF IInv, ValidNotEmpty, ListsAgree, OnlyRacingLocksOverlap
<1>3. DeadSessionHoldsNothing'
  <2> SUFFICES ASSUME NEW t \in Session, conn'[t] = "down"
               PROVE  /\ \A r \in Ref : ~IsOpen(t, r)
                      /\ \A l \in DOMAIN gLockList : gLockList[l].session # t
    BY DEF DeadSessionHoldsNothing, IsOpen
  <2>1. CASE conn[t] = "down"
    BY <2>1 DEF IInv, DeadSessionHoldsNothing
  <2>2. CASE t = s /\ \A r \in Ref : ~IsOpen(s, r)
    BY <2>2, NoForkNoLock DEF IInv
  <2> QED
    BY <2>1, <2>2
<1>4. TestedRangeIsFree'
  <2> SUFFICES ASSUME NEW t \in Session, t # s, Scanned(t)' PROVE FreeFor(t)'
    BY DEF TestedRangeIsFree, FreeFor
  <2>1. Scanned(t) /\ req'[t] = req[t]
    BY DEF Scanned
  <2> QED
    BY <2>1 DEF IInv, TestedRangeIsFree, FreeFor
<1> QED
  BY <1>1, <1>2, <1>3, <1>4 DEF IInv

-----------------------------------------------------------------------------
(* Deleting a lock *)

(* What remains of a list without repetitions when one item is removed.    *)
LEMMA RemoveAtRange ==
    ASSUME NEW S, NEW q \in Seq(S), NEW i \in DOMAIN q,
           \A j, k \in DOMAIN q : q[j] = q[k] => j = k
    PROVE  /\ \A j \in DOMAIN q : q[j] # q[i] => q[j] \in Range(RemoveAt(q, i))
           /\ \A j \in DOMAIN RemoveAt(q, i) :
                  /\ RemoveAt(q, i)[j] # q[i]
                  /\ \E k \in DOMAIN q : RemoveAt(q, i)[j] = q[k]
           /\ \A j, k \in DOMAIN RemoveAt(q, i) :
                  RemoveAt(q, i)[j] = RemoveAt(q, i)[k] => j = k
<1> DEFINE p == RemoveAt(q, i)
           a == SubSeq(q, 1, i - 1)
           b == SubSeq(q, i + 1, Len(q))
<1>0. Len(q) \in Nat /\ i \in 1..Len(q)
  OBVIOUS
<1>1. p \in Seq(S) /\ Len(p) = Len(q) - 1
  <2>1. a \in Seq(S) /\ Len(a) = i - 1
    BY <1>0
  <2>2. b \in Seq(S) /\ Len(b) = Len(q) - i
    BY <1>0
  <2> HIDE DEF a, b
  <2>3. a \o b \in Seq(S) /\ Len(a \o b) = Len(a) + Len(b)
    BY <2>1, <2>2, ConcatProperties
  <2>4. p = a \o b
    BY DEF RemoveAt, a, b
  <2> QED
    BY SMTT(30), <1>0, <2>1, <2>2, <2>3, <2>4
<1>2. \A j \in 1..Len(p) : p[j] = IF j < i THEN q[j] ELSE q[j + 1]
  <2>1. a \in Seq(S) /\ Len(a) = i - 1 /\ \A j \in 1..(i - 1) : a[j] = q[j]
    BY <1>0
  <2>2. /\ b \in Seq(S) /\ Len(b) = Len(q) - i
        /\ \A j \in 1..(Len(q) - i) : b[j] = q[i + j]
    BY <1>0
  <2> HIDE DEF a, b
  <2>3. \A j \in 1..(Len(a) + Len(b)) :
            (a \o b)[j] = IF j <= Len(a) THEN a[j] ELSE b[j - Len(a)]
    BY <2>1, <2>2, ConcatProperties
  <2>4. p = a \o b
    BY DEF RemoveAt, a, b
  <2> HIDE DEF p
  <2> TAKE j \in 1..Len(p)
  <2>5. j \in 1..(Len(a) + Len(b)) /\ j \in Int /\ i \in Int
    BY <1>0, <1>1, <2>1, <2>2
  <2>6. CASE j < i
    BY <1>0, <2>1, <2>3, <2>4, <2>5, <2>6
  <2>7. CASE ~(j < i)
    <3>0. j \in Int /\ i \in Int /\ i <= j /\ j <= Len(q) - 1 /\ Len(a) = i - 1
      BY <1>0, <1>1, <2>1, <2>7
    <3>1. j - Len(a) \in 1..(Len(q) - i) /\ i + (j - Len(a)) = j + 1 /\ ~(j <= Len(a))
      BY <1>0, <3>0
    <3>2. p[j] = b[j - Len(a)]
      BY <2>3, <2>4, <2>5, <3>1
    <3>3. b[j - Len(a)] = q[i + (j - Len(a))]
      BY <2>2, <3>1
    <3> QED
      BY <2>5, <2>7, <3>1, <3>2, <3>3
  <2> QED
    BY <2>6, <2>7
<1>3. DOMAIN p = 1..Len(p) /\ DOMAIN q = 1..Len(q) /\ Len(q) \in Nat
  BY <1>1
<1>4. ASSUME NEW j \in DOMAIN q, q[j] # q[i]
      PROVE  q[j] \in Range(p)
  <2>1. CASE j < i
    <3>1. j \in 1..Len(p) /\ p[j] = q[j]
      BY <1>1, <1>2, <1>3, <2>1
    <3> QED
      BY <1>3, <3>1 DEF Range
  <2>2. CASE j > i
    <3>1. j - 1 \in 1..Len(p) /\ p[j - 1] = q[j]
      BY <1>1, <1>2, <1>3, <2>2
    <3> QED
      BY <1>3, <3>1 DEF Range
  <2> QED
    BY <1>3, <1>4, <2>1, <2>2
<1>5. \A j \in DOMAIN p : \E k \in DOMAIN q :
          p[j] = q[k] /\ k # i /\ k = IF j < i THEN j ELSE j + 1
  <2> TAKE j \in DOMAIN p
  <2>1. (IF j < i THEN j ELSE j + 1) \in DOMAIN q
    BY <1>1, <1>3
  <2> WITNESS (IF j < i THEN j ELSE j + 1) \in DOMAIN q
  <2> QED
    BY <1>1, <1>2, <1>3
<1>6. \A j \in DOMAIN p : p[j] # q[i]
  BY <1>5
<1>7. \A j, k \in DOMAIN p : p[j] = p[k] => j = k
  BY <1>3, <1>5
<1> HIDE DEF p
<1>8. /\ \A j \in DOMAIN q : q[j] # q[i] => q[j] \in Range(p)
      /\ \A j \in DOMAIN p : p[j] # q[i] /\ \E k \in DOMAIN q : p[j] = q[k]
      /\ \A j, k \in DOMAIN p : p[j] = p[k] => j = k
  BY <1>4, <1>5, <1>6, <1>7
<1> QED
  BY <1>8 DEF p

(* Deleting a lock keeps all that the invariant says of the lists.  The    *)
(* session s that deletes it goes on to `next', a request that does not    *)
(* refer to the lock.                                                      *)
LEMMA DeleteStep ==
    ASSUME IInv, NEW s \in Session, NEW l \in DOMAIN gLockList,
           gLockList[l].session = s,
           NEW next \in {Idle, req[s]}, next.op \in {"idle", "close"},
           DeleteLock(l), AfterDelete(s, l, next), UNCHANGED <<size, conn>>
    PROVE  IInv'
<1> DEFINE r == gLockList[l].ref
           f == fork[s][r]
<1>0. TypeOK /\ RequestOK /\ ListsAgree
  BY DEF IInv
<1>1. s \in Session /\ r \in Ref /\ l \in LockId
  BY <1>0 DEF TypeOK, LockObject
<1>2. PICK i \in DOMAIN f.brlList :
          /\ f.brlList[i] = l
          /\ fork' = [fork EXCEPT ![s][r].brlList = RemoveAt(f.brlList, i)]
  BY DEF DeleteLock
<1> DEFINE q == f.brlList
           p == RemoveAt(q, i)
<1>3. f \in ForkItem /\ q \in Seq(LockId)
  <2>1. f \in ForkItem \cup {NoFork}
    BY <1>0, <1>1 DEF TypeOK
  <2> QED
    BY <1>2, <2>1 DEF NoFork, ForkItem
<1>4. /\ DOMAIN gLockList' = DOMAIN gLockList \ {l}
      /\ \A m \in DOMAIN gLockList' : gLockList'[m] = [gLockList[m] EXCEPT !.raced = @ \ {l}]
  BY DEF DeleteLock
<1>5. \A m \in DOMAIN gLockList' :
          /\ m \in DOMAIN gLockList /\ m # l
          /\ gLockList'[m].session = gLockList[m].session
          /\ gLockList'[m].ref = gLockList[m].ref
          /\ gLockList'[m].node = gLockList[m].node
          /\ gLockList'[m].valid = gLockList[m].valid
          /\ gLockList'[m].start = gLockList[m].start
          /\ gLockList'[m].end = gLockList[m].end
          /\ gLockList'[m].raced = gLockList[m].raced \ {l}
  <2> TAKE m \in DOMAIN gLockList'
  <2>1. gLockList[m] \in LockObject
    BY <1>0, <1>4 DEF TypeOK
  <2> QED
    BY <1>4, <2>1 DEF LockObject
<1>6. /\ \A t \in Session, u \in Ref : t # s \/ u # r => fork'[t][u] = fork[t][u]
      /\ fork'[s][r] = [f EXCEPT !.brlList = p]
  BY <1>0, <1>1, <1>2 DEF TypeOK
<1>7. fork'[s][r].brlList = p /\ fork'[s][r].node = f.node
  BY <1>3, <1>6 DEF ForkItem
<1>8. \A t \in Session, u \in Ref : IsOpen(t, u)' <=> IsOpen(t, u)
  <2>1. f # NoFork
    BY <1>2 DEF NoFork
  <2>2. f.node \in Node
    BY <1>3 DEF ForkItem
  <2>3. fork'[s][r] # NoFork
    BY <1>7, <2>2, NodeAssumption DEF NoFork
  <2> QED
    BY <1>6, <2>1, <2>3 DEF IsOpen
<1>9. \A t \in Session, u \in Ref : fork'[t][u].node = fork[t][u].node
  BY <1>6, <1>7
<1>10. /\ \A j \in DOMAIN q : q[j] # l => q[j] \in Range(p)
       /\ \A j \in DOMAIN p : p[j] # l /\ \E k \in DOMAIN q : p[j] = q[k]
       /\ \A j, k \in DOMAIN p : p[j] = p[k] => j = k
  <2>1. \A j, k \in DOMAIN q : q[j] = q[k] => j = k
    BY <1>0, <1>1 DEF ListsAgree
  <2> QED
    BY <1>2, <1>3, <2>1, RemoveAtRange
<1>11. /\ \A t \in Session : t # s =>
              req'[t] = [req[t] EXCEPT !.since = @ \ {l}]
       /\ req'[s] = next
  BY DEF AfterDelete
<1>12. \A t \in Session : t # s =>
           /\ req'[t].op = req[t].op /\ req'[t].phase = req[t].phase
           /\ req'[t].ref = req[t].ref /\ req'[t].lock = req[t].lock
           /\ req'[t].start = req[t].start /\ req'[t].end = req[t].end
           /\ req'[t].since = req[t].since \ {l}
  <2> TAKE t \in Session
  <2>1. req[t] \in Request
    BY <1>0 DEF TypeOK
  <2> QED
    BY <1>11, <2>1 DEF Request
<1>13. next \in Request
  BY <1>0, IdleType DEF TypeOK
<1> HIDE DEF p, q, f, r
<1>20. TypeOK'
  <2>1. req' \in [Session -> Request]
    BY <1>0, <1>13, AfterDeleteType
  <2> QED
    BY <1>0, <2>1, DeleteLockType DEF TypeOK
<1>21. RequestOK'
  <2> SUFFICES ASSUME NEW t \in Session PROVE RequestOf(t)'
    BY DEF RequestOK
  <2>1. RequestOf(t)
    BY <1>0 DEF RequestOK
  <2>2. CASE t = s
    BY <1>8, <1>11, <2>1, <2>2 DEF RequestOf, Idle
  <2>3. CASE t # s
    <3>1. req[t].op \in {"lock", "unlock"} => req[t].lock # l
      BY <2>1, <2>3 DEF RequestOf
    <3>2. req[t].op \in {"lock", "unlock"} => req[t].lock \in DOMAIN gLockList'
      BY <1>4, <2>1, <3>1 DEF RequestOf
    <3> QED
      BY <1>5, <1>8, <1>12, <2>1, <2>3, <3>2 DEF RequestOf
  <2> QED
    BY <2>2, <2>3
<1>22. ValidNotEmpty'
  BY <1>5 DEF IInv, ValidNotEmpty
<1>23. ListsAgree'
  <2>1. ASSUME NEW m \in DOMAIN gLockList'
        PROVE  LET o == gLockList'[m] IN
               /\ o.node = fork'[o.session][o.ref].node
               /\ m \in Range(fork'[o.session][o.ref].brlList)
    <3>1. /\ m \in DOMAIN gLockList /\ m # l
          /\ gLockList[m].session \in Session /\ gLockList[m].ref \in Ref
          /\ gLockList[m].node = fork[gLockList[m].session][gLockList[m].ref].node
          /\ m \in Range(fork[gLockList[m].session][gLockList[m].ref].brlList)
      BY <1>0, <1>5 DEF ListsAgree, TypeOK, LockObject
    <3>2. CASE gLockList[m].session = s /\ gLockList[m].ref = r
      <4>1. m \in Range(q)
        BY <3>1, <3>2 DEF q, f
      <4>2. m \in Range(p)
        BY <1>10, <3>1, <4>1 DEF Range
      <4> QED
        BY <1>5, <1>7, <1>9, <3>1, <3>2, <4>2
    <3>3. CASE ~(gLockList[m].session = s /\ gLockList[m].ref = r)
      BY <1>5, <1>6, <3>1, <3>3
    <3> QED
      BY <3>2, <3>3
  <2>2. ASSUME NEW t \in Session, NEW u \in Ref
        PROVE  LET list == fork'[t][u].brlList IN
               /\ \A j \in DOMAIN list :
                      /\ list[j] \in DOMAIN gLockList'
                      /\ gLockList'[list[j]].session = t
                      /\ gLockList'[list[j]].ref = u
               /\ \A j, k \in DOMAIN list : list[j] = list[k] => j = k
    <3>1. /\ \A j \in DOMAIN fork[t][u].brlList :
                 /\ fork[t][u].brlList[j] \in DOMAIN gLockList
                 /\ gLockList[fork[t][u].brlList[j]].session = t
                 /\ gLockList[fork[t][u].brlList[j]].ref = u
          /\ \A j, k \in DOMAIN fork[t][u].brlList :
                 fork[t][u].brlList[j] = fork[t][u].brlList[k] => j = k
      BY <1>0 DEF ListsAgree
    <3>2. CASE t = s /\ u = r
      <4>1. \A j \in DOMAIN p : p[j] \in DOMAIN gLockList'
        BY <1>4, <1>10, <3>1, <3>2 DEF q, f
      <4>2. \A j \in DOMAIN p : gLockList[p[j]].session = t /\ gLockList[p[j]].ref = u
        BY <1>10, <3>1, <3>2 DEF q, f
      <4> QED
        BY <1>5, <1>7, <1>10, <3>2, <4>1, <4>2
    <3>3. CASE ~(t = s /\ u = r)
      <4>1. \A j \in DOMAIN fork[t][u].brlList : fork[t][u].brlList[j] # l
        BY <3>1, <3>3 DEF r
      <4>2. \A j \in DOMAIN fork[t][u].brlList : fork[t][u].brlList[j] \in DOMAIN gLockList'
        BY <1>4, <3>1, <4>1
      <4> QED
        BY <1>5, <1>6, <3>1, <3>3, <4>2
    <3> QED
      BY <3>2, <3>3
  <2> QED
    BY <2>1, <2>2 DEF ListsAgree
<1>24. DeadSessionHoldsNothing'
  BY <1>5, <1>8 DEF IInv, DeadSessionHoldsNothing
<1>25. TestedRangeIsFree'
  <2> SUFFICES ASSUME NEW t \in Session, Scanned(t)', NEW m \in DOMAIN gLockList',
                      gLockList'[m].valid, gLockList'[m].session # t,
                      gLockList'[m].node = fork'[t][req'[t].ref].node,
                      Overlap(req'[t].start, req'[t].end,
                              gLockList'[m].start, gLockList'[m].end)
               PROVE  m \in req'[t].since
    BY DEF TestedRangeIsFree, Overlap
  <2>1. t # s
    BY <1>11 DEF Scanned
  <2>2. Scanned(t)
    BY <1>12, <2>1 DEF Scanned
  <2>3. req[t].ref \in Ref
    BY <1>0, <2>2 DEF RequestOK, RequestOf, Scanned
  <2>4. gLockList[m].node = fork[t][req[t].ref].node
    BY <1>5, <1>9, <1>12, <2>1, <2>3
  <2>5. Overlap(req[t].start, req[t].end, gLockList[m].start, gLockList[m].end)
    BY <1>5, <1>12, <2>1
  <2>6. m \in DOMAIN gLockList /\ m # l /\ gLockList[m].valid /\ gLockList[m].session # t
    BY <1>5
  <2>7. m \in req[t].since
    BY <2>2, <2>4, <2>5, <2>6 DEF IInv, TestedRangeIsFree
  <2> QED
    BY <1>12, <2>1, <2>6, <2>7
<1>26. OnlyRacingLocksOverlap'
  <2> SUFFICES ASSUME NEW m \in DOMAIN gLockList', NEW k \in DOMAIN gLockList',
                      gLockList'[m].valid, gLockList'[k].valid,
                      gLockList'[m].session # gLockList'[k].session,
                      gLockList'[m].node = gLockList'[k].node,
                      Overlap(gLockList'[m].start, gLockList'[m].end,
                              gLockList'[k].start, gLockList'[k].end)
               PROVE  m \in gLockList'[k].raced \/ k \in gLockList'[m].raced
    BY DEF OnlyRacingLocksOverlap, Overlap
  <2>1. m \in gLockList[k].raced \/ k \in gLockList[m].raced
    BY <1>5 DEF IInv, OnlyRacingLocksOverlap
  <2> QED
    BY <1>5, <2>1
<1> QED
  BY <1>20, <1>21, <1>22, <1>23, <1>24, <1>25, <1>26 DEF IInv

-----------------------------------------------------------------------------
(* Steps that change the fork table or the list *)

(* FPOpenFork: the new item brings no lock and disturbs no request.        *)
LEMMA OpenStep ==
    ASSUME IInv, NEW s \in Session, NEW r \in Ref, NEW n \in Node, NEW k \in Kind,
           FPOpenFork(s, r, n, k)
    PROVE  IInv'
<1> DEFINE item == [node |-> n, kind |-> k, brlList |-> <<>>]
<1>0. TypeOK /\ RequestOK /\ ListsAgree
  BY DEF IInv
<1>1. /\ Ready(s) /\ ~IsOpen(s, r)
      /\ fork' = [fork EXCEPT ![s][r] = item]
      /\ UNCHANGED <<size, gLockList, conn, req>>
  BY DEF FPOpenFork
<1>2. /\ fork'[s][r] = item
      /\ \A t \in Session, u \in Ref : t # s \/ u # r => fork'[t][u] = fork[t][u]
  BY <1>0, <1>1 DEF TypeOK
<1>3. \A l \in DOMAIN gLockList :
          /\ gLockList[l].session \in Session /\ gLockList[l].ref \in Ref
          /\ gLockList[l].session # s \/ gLockList[l].ref # r
  <2> TAKE l \in DOMAIN gLockList
  <2>1. gLockList[l].session \in Session /\ gLockList[l].ref \in Ref
    BY <1>0 DEF TypeOK, LockObject
  <2>2. fork[s][r].brlList = <<>>
    BY <1>1 DEF IsOpen, NoFork
  <2> QED
    BY <1>0, <2>1, <2>2 DEF ListsAgree, Range
<1>4. req[s] = Idle /\ conn[s] = "up"
  BY <1>1 DEF Ready
<1>5. TypeOK'
  <2>1. item \in ForkItem
    BY DEF ForkItem
  <2> QED
    BY <1>0, <1>1, <2>1 DEF TypeOK
<1>6. RequestOK'
  <2> SUFFICES ASSUME NEW t \in Session PROVE RequestOf(t)'
    BY DEF RequestOK
  <2>1. RequestOf(t)
    BY <1>0 DEF RequestOK
  <2>2. CASE t = s
    BY <1>1, <1>4, <2>2 DEF RequestOf, Idle
  <2>3. CASE t # s
    BY <1>1, <1>2, <2>1, <2>3 DEF RequestOf, IsOpen
  <2> QED
    BY <2>2, <2>3
<1>7. ValidNotEmpty' /\ OnlyRacingLocksOverlap'
  BY <1>1 DEF IInv, ValidNotEmpty, OnlyRacingLocksOverlap
<1>8. ListsAgree'
  <2>1. \A l \in DOMAIN gLockList :
            LET o == gLockList[l] IN
            /\ o.node = fork'[o.session][o.ref].node
            /\ l \in Range(fork'[o.session][o.ref].brlList)
    BY <1>0, <1>2, <1>3 DEF ListsAgree
  <2>2. ASSUME NEW t \in Session, NEW u \in Ref
        PROVE  LET list == fork'[t][u].brlList IN
               /\ \A i \in DOMAIN list :
                      /\ list[i] \in DOMAIN gLockList
                      /\ gLockList[list[i]].session = t
                      /\ gLockList[list[i]].ref = u
               /\ \A i, j \in DOMAIN list : list[i] = list[j] => i = j
    <3>1. CASE t = s /\ u = r
      BY <1>2, <3>1
    <3>2. CASE ~(t = s /\ u = r)
      BY SMTT(30), <1>0, <1>2, <3>2 DEF ListsAgree
    <3> QED
      BY <3>1, <3>2
  <2>3. gLockList' = gLockList
    BY <1>1
  <2> QED
    BY <2>1, <2>2, <2>3 DEF ListsAgree
<1>9. DeadSessionHoldsNothing'
  <2> SUFFICES ASSUME NEW t \in Session, conn[t] = "down"
               PROVE  /\ \A u \in Ref : ~IsOpen(t, u)'
                      /\ \A l \in DOMAIN gLockList : gLockList[l].session # t
    BY <1>1 DEF DeadSessionHoldsNothing
  <2> QED
    BY <1>2, <1>4 DEF IInv, DeadSessionHoldsNothing, IsOpen
<1>10. TestedRangeIsFree'
  <2> SUFFICES ASSUME NEW t \in Session, Scanned(t) PROVE FreeFor(t)'
    BY <1>1 DEF TestedRangeIsFree, FreeFor, Scanned
  <2>1. t # s /\ req[t].ref \in Ref
    BY <1>0, <1>4 DEF Scanned, Idle, RequestOK, RequestOf
  <2> QED
    BY <1>1, <1>2, <2>1 DEF IInv, TestedRangeIsFree, FreeFor
<1> QED
  BY <1>5, <1>6, <1>7, <1>8, <1>9, <1>10 DEF IInv

(* The last step of CloseFile frees an item that owns no lock.             *)
LEMMA FreeStep ==
    ASSUME IInv, NEW s \in Session, CloseFile_Free(s)
    PROVE  IInv'
<1> DEFINE r == req[s].ref
<1>0. TypeOK /\ RequestOK /\ ListsAgree
  BY DEF IInv
<1>1. /\ req[s].op = "close" /\ fork[s][r].brlList = <<>>
      /\ fork' = [fork EXCEPT ![s][r] = NoFork]
      /\ req' = [req EXCEPT ![s] = Idle]
      /\ UNCHANGED <<size, gLockList, conn>>
  BY DEF CloseFile_Free, Become
<1>2. r \in Ref
  BY <1>0, <1>1 DEF RequestOK, RequestOf
<1>3. /\ fork'[s][r] = NoFork
      /\ \A t \in Session, u \in Ref : t # s \/ u # r => fork'[t][u] = fork[t][u]
      /\ req'[s] = Idle
      /\ \A t \in Session : t # s => req'[t] = req[t]
  BY <1>0, <1>1, <1>2 DEF TypeOK
<1>4. \A l \in DOMAIN gLockList :
          /\ gLockList[l].session \in Session /\ gLockList[l].ref \in Ref
          /\ gLockList[l].session # s \/ gLockList[l].ref # r
  <2> TAKE l \in DOMAIN gLockList
  <2>1. gLockList[l].session \in Session /\ gLockList[l].ref \in Ref
    BY <1>0 DEF TypeOK, LockObject
  <2> QED
    BY <1>0, <1>1, <2>1 DEF ListsAgree, Range
<1> HIDE DEF r
<1>5. TypeOK'
  BY <1>0, <1>1, <1>2, IdleType DEF TypeOK
<1>6. RequestOK'
  <2> SUFFICES ASSUME NEW t \in Session PROVE RequestOf(t)'
    BY DEF RequestOK
  <2>1. CASE t = s
    BY <1>3, <2>1 DEF RequestOf, Idle
  <2>2. CASE t # s
    BY <1>0, <1>1, <1>3, <2>2 DEF RequestOK, RequestOf, IsOpen
  <2> QED
    BY <2>1, <2>2
<1>7. ValidNotEmpty' /\ OnlyRacingLocksOverlap'
  BY <1>1 DEF IInv, ValidNotEmpty, OnlyRacingLocksOverlap
<1>8. ListsAgree'
  <2>1. \A l \in DOMAIN gLockList :
            LET o == gLockList[l] IN
            /\ o.node = fork'[o.session][o.ref].node
            /\ l \in Range(fork'[o.session][o.ref].brlList)
    BY <1>0, <1>3, <1>4 DEF ListsAgree
  <2>2. ASSUME NEW t \in Session, NEW u \in Ref
        PROVE  LET list == fork'[t][u].brlList IN
               /\ \A i \in DOMAIN list :
                      /\ list[i] \in DOMAIN gLockList
                      /\ gLockList[list[i]].session = t
                      /\ gLockList[list[i]].ref = u
               /\ \A i, j \in DOMAIN list : list[i] = list[j] => i = j
    <3>1. CASE t = s /\ u = r
      BY <1>3, <3>1 DEF NoFork
    <3>2. CASE ~(t = s /\ u = r)
      BY <1>0, <1>3, <3>2 DEF ListsAgree
    <3> QED
      BY <3>1, <3>2
  <2>3. gLockList' = gLockList
    BY <1>1
  <2> QED
    BY <2>1, <2>2, <2>3 DEF ListsAgree
<1>9. DeadSessionHoldsNothing'
  <2> SUFFICES ASSUME NEW t \in Session, conn[t] = "down"
               PROVE  /\ \A u \in Ref : ~IsOpen(t, u)'
                      /\ \A l \in DOMAIN gLockList : gLockList[l].session # t
    BY <1>1 DEF DeadSessionHoldsNothing
  <2> QED
    BY <1>3 DEF IInv, DeadSessionHoldsNothing, IsOpen
<1>10. TestedRangeIsFree'
  <2> SUFFICES ASSUME NEW t \in Session, Scanned(t)' PROVE FreeFor(t)'
    BY DEF TestedRangeIsFree, FreeFor
  <2>1. t # s
    BY <1>3 DEF Scanned, Idle
  <2>2. Scanned(t) /\ req[t].ref \in Ref
    BY <1>0, <1>3, <2>1 DEF Scanned, RequestOK, RequestOf
  <2> QED
    BY <1>1, <1>3, <2>1, <2>2 DEF IInv, TestedRangeIsFree, FreeFor
<1> QED
  BY <1>5, <1>6, <1>7, <1>8, <1>9, <1>10 DEF IInv

(* The commit of a lock: every foreign lock it overlaps was committed      *)
(* after its scan, and every request tested before learns of it.           *)
LEMMA CommitStep ==
    ASSUME IInv, NEW s \in Session, Lock_Commit(s)
    PROVE  IInv'
<1> DEFINE l == req[s].lock
<1>0. TypeOK /\ RequestOK /\ ListsAgree
  BY DEF IInv
<1>1. /\ req[s].op = "lock" /\ req[s].phase = "do"
      /\ gLockList' = [gLockList EXCEPT ![l] =
                          [@ EXCEPT !.start = req[s].start, !.end = req[s].end,
                                    !.valid = TRUE, !.raced = req[s].since]]
      /\ req' = [t \in Session |->
                   IF t = s THEN Idle
                   ELSE IF Scanned(t) THEN [req[t] EXCEPT !.since = @ \cup {l}]
                   ELSE req[t]]
      /\ UNCHANGED <<size, fork, conn>>
  BY DEF Lock_Commit
<1>2. /\ l \in DOMAIN gLockList /\ gLockList[l].session = s
      /\ gLockList[l].ref = req[s].ref /\ req[s].start <= req[s].end
      /\ req[s].ref \in Ref /\ ~gLockList[l].valid
  BY <1>0, <1>1 DEF RequestOK, RequestOf
<1>3. req[s] \in Request /\ gLockList[l] \in LockObject
  BY <1>0, <1>2 DEF TypeOK
<1>4. /\ DOMAIN gLockList' = DOMAIN gLockList
      /\ \A m \in DOMAIN gLockList : m # l => gLockList'[m] = gLockList[m]
      /\ gLockList'[l].session = s
      /\ gLockList'[l].ref = gLockList[l].ref
      /\ gLockList'[l].node = gLockList[l].node
      /\ gLockList'[l].start = req[s].start
      /\ gLockList'[l].end = req[s].end
      /\ gLockList'[l].valid
      /\ gLockList'[l].raced = req[s].since
  BY <1>0, <1>1, <1>2, <1>3 DEF TypeOK, LockObject
<1>5. \A m \in DOMAIN gLockList :
          /\ gLockList'[m].session = gLockList[m].session
          /\ gLockList'[m].ref = gLockList[m].ref
          /\ gLockList'[m].node = gLockList[m].node
  BY <1>2, <1>4
<1>6. gLockList[l].node = fork[s][req[s].ref].node
  BY <1>0, <1>2 DEF ListsAgree
<1>7. /\ req'[s] = Idle
      /\ \A t \in Session : t # s =>
             /\ req'[t].op = req[t].op /\ req'[t].phase = req[t].phase
             /\ req'[t].ref = req[t].ref /\ req'[t].lock = req[t].lock
             /\ req'[t].start = req[t].start /\ req'[t].end = req[t].end
             /\ req'[t].since = IF Scanned(t) THEN req[t].since \cup {l} ELSE req[t].since
  <2>1. req'[s] = Idle
    BY <1>1
  <2>2. ASSUME NEW t \in Session, t # s
        PROVE  /\ req'[t].op = req[t].op /\ req'[t].phase = req[t].phase
               /\ req'[t].ref = req[t].ref /\ req'[t].lock = req[t].lock
               /\ req'[t].start = req[t].start /\ req'[t].end = req[t].end
               /\ req'[t].since = IF Scanned(t) THEN req[t].since \cup {l}
                                  ELSE req[t].since
    <3>1. req[t] \in Request
      BY <1>0 DEF TypeOK
    <3>2. req'[t] = IF Scanned(t) THEN [req[t] EXCEPT !.since = @ \cup {l}] ELSE req[t]
      BY <1>1, <2>2
    <3> QED
      BY <3>1, <3>2 DEF Request
  <2> QED
    BY <2>1, <2>2
<1> HIDE DEF l
<1>8. TypeOK'
  <2>1. gLockList' \in [DOMAIN gLockList' -> LockObject]
    <3>1. gLockList'[l] \in LockObject
      BY <1>1, <1>2, <1>3 DEF LockObject, Request
    <3> QED
      BY <1>0, <1>1, <1>4, <3>1 DEF TypeOK
  <2>2. req' \in [Session -> Request]
    <3>1. \A t \in Session : [req[t] EXCEPT !.since = @ \cup {l}] \in Request
      <4> TAKE t \in Session
      <4>1. req[t] \in Request /\ l \in LockId
        BY <1>0, <1>2 DEF TypeOK
      <4> QED
        BY <4>1 DEF Request
    <3> QED
      BY <1>0, <1>1, <3>1, IdleType DEF TypeOK
  <2> QED
    BY <1>0, <1>1, <1>4, <2>1, <2>2 DEF TypeOK
<1>9. RequestOK'
  <2> SUFFICES ASSUME NEW t \in Session PROVE RequestOf(t)'
    BY DEF RequestOK
  <2>1. CASE t = s
    BY <1>7, <2>1 DEF RequestOf, Idle
  <2>2. CASE t # s
    <3>1. RequestOf(t)
      BY <1>0 DEF RequestOK
    <3>2. req[t].op \in {"lock", "unlock"} => req[t].lock # l
      BY <1>2, <2>2, <3>1 DEF RequestOf
    <3> QED
      BY <1>1, <1>4, <1>5, <1>7, <2>2, <3>1, <3>2 DEF RequestOf, IsOpen
  <2> QED
    BY <2>1, <2>2
<1>10. ValidNotEmpty'
  BY <1>2, <1>4 DEF IInv, ValidNotEmpty
<1>11. ListsAgree'
  <2>1. fork' = fork
    BY <1>1
  <2>2. DOMAIN gLockList' = DOMAIN gLockList
    BY <1>4
  <2> QED
    BY <1>0, <1>5, <2>1, <2>2 DEF ListsAgree
<1>12. DeadSessionHoldsNothing'
  BY <1>1, <1>4, <1>5 DEF IInv, DeadSessionHoldsNothing, IsOpen
<1>13. TestedRangeIsFree'
  <2> SUFFICES ASSUME NEW t \in Session, Scanned(t)',
                      NEW m \in DOMAIN gLockList,
                      gLockList'[m].valid, gLockList'[m].session # t,
                      gLockList'[m].node = fork[t][req'[t].ref].node,
                      Overlap(req'[t].start, req'[t].end,
                              gLockList'[m].start, gLockList'[m].end)
               PROVE  m \in req'[t].since
    BY <1>1, <1>4 DEF TestedRangeIsFree, Overlap
  <2>1. t # s
    BY <1>7 DEF Scanned, Idle
  <2>2. Scanned(t)
    BY <1>7, <2>1 DEF Scanned
  <2>3. CASE m = l
    BY <1>7, <2>1, <2>2, <2>3
  <2>4. CASE m # l
    <3>1. /\ gLockList[m].valid /\ gLockList[m].session # t
          /\ gLockList[m].node = fork[t][req[t].ref].node
          /\ Overlap(req[t].start, req[t].end, gLockList[m].start, gLockList[m].end)
      BY <1>4, <1>7, <2>1, <2>4
    <3>2. m \in req[t].since
      BY <2>2, <3>1 DEF IInv, TestedRangeIsFree
    <3> QED
      BY <1>7, <2>1, <2>2, <3>2
  <2> QED
    BY <2>3, <2>4
<1>14. OnlyRacingLocksOverlap'
  <2>1. ASSUME NEW m \in DOMAIN gLockList, m # l,
               gLockList[m].valid, gLockList[m].session # s,
               gLockList[m].node = gLockList[l].node,
               Overlap(req[s].start, req[s].end, gLockList[m].start, gLockList[m].end)
        PROVE  m \in req[s].since
    <3>1. Scanned(s)
      BY <1>1 DEF Scanned
    <3> QED
      BY <1>6, <2>1, <3>1 DEF IInv, TestedRangeIsFree
  <2>2. SUFFICES ASSUME NEW m \in DOMAIN gLockList, NEW k \in DOMAIN gLockList,
                        gLockList'[m].valid, gLockList'[k].valid,
                        gLockList'[m].session # gLockList'[k].session,
                        gLockList'[m].node = gLockList'[k].node,
                        Overlap(gLockList'[m].start, gLockList'[m].end,
                                gLockList'[k].start, gLockList'[k].end)
                 PROVE  m \in gLockList'[k].raced \/ k \in gLockList'[m].raced
    BY <1>4 DEF OnlyRacingLocksOverlap, Overlap
  <2>3. CASE m # l /\ k # l
    BY <1>4, <2>2, <2>3 DEF IInv, OnlyRacingLocksOverlap
  <2>4. CASE m = l /\ k # l
    <3>1. Overlap(req[s].start, req[s].end, gLockList[k].start, gLockList[k].end)
      BY <1>4, <2>2, <2>4
    <3> QED
      BY <1>4, <2>1, <2>2, <2>4, <3>1
  <2>5. CASE k = l /\ m # l
    <3>1. Overlap(req[s].start, req[s].end, gLockList[m].start, gLockList[m].end)
      BY <1>4, <2>2, <2>5 DEF Overlap
    <3> QED
      BY <1>4, <2>1, <2>2, <2>5, <3>1
  <2>6. m # k
    BY <2>2
  <2> QED
    BY <2>3, <2>4, <2>5, <2>6
<1> QED
  BY <1>8, <1>9, <1>10, <1>11, <1>12, <1>13, <1>14 DEF IInv

(* A lock request puts an object that is not yet valid into both lists.    *)
LEMMA LockStep ==
    ASSUME IInv, NEW s \in Session, NEW r \in Ref, NEW off \in Offset, NEW len \in Length,
           NEW fromEnd \in BOOLEAN, NEW ext \in BOOLEAN,
           FPByteRangeLock_Lock(s, r, off, len, fromEnd, ext)
    PROVE  IInv'
<1> DEFINE f == fork[s][r]
           o == [session |-> s, ref |-> r, node |-> f.node,
                 start |-> 0, end |-> 0, valid |-> FALSE, raced |-> {}]
           range(sz) == LockRange(off, len, fromEnd, ext, sz)
           New(sz, l) == [op |-> "lock", phase |-> "scan", ref |-> r, lock |-> l,
                          start |-> range(sz).start,
                          end |-> range(sz).start + range(sz).length - 1,
                          since |-> {}]
<1>0. TypeOK /\ RequestOK /\ ListsAgree
  BY DEF IInv
<1>1. PICK sz \in ForkSizes(s, r), l \in LockId :
         /\ l \notin DOMAIN gLockList
         /\ gLockList' = [m \in DOMAIN gLockList \cup {l} |->
                            IF m = l THEN o ELSE gLockList[m]]
         /\ fork' = [fork EXCEPT ![s][r].brlList = Append(@, l)]
         /\ Become(s, New(sz, l))
  BY Zenon DEF FPByteRangeLock_Lock
<1>2. /\ req[s] = Idle /\ conn[s] = "up" /\ IsOpen(s, r)
      /\ UNCHANGED <<size, conn>>
  BY DEF FPByteRangeLock_Lock, Ready
<1>3. f \in ForkItem /\ f.brlList \in Seq(LockId)
  BY <1>0, <1>2 DEF IsOpen, TypeOK, ForkItem
<1>4. sz \in Int
  <2>1. CASE f.kind = "data"
    BY <1>0, <1>1, <1>3, <2>1, BoundAssumption DEF ForkSizes, TypeOK, ForkItem
  <2>2. CASE f.kind # "data"
    BY <1>1, <2>2, BoundAssumption DEF ForkSizes
  <2> QED
    BY <2>1, <2>2
<1> DEFINE q == f.brlList
           p == Append(q, l)
<1>5. /\ p \in Seq(LockId) /\ Len(p) = Len(q) + 1 /\ Len(q) \in Nat
      /\ \A i \in 1..Len(q) : p[i] = q[i]
      /\ p[Len(q) + 1] = l
  BY SMTT(30), <1>1, <1>3
<1>6. DOMAIN p = 1..(Len(q) + 1) /\ DOMAIN q = 1..Len(q)
  BY <1>3, <1>5
<1>7. New(sz, l) \in Request
  <2>1. off \in Int /\ len \in Int
    BY InputAssumption
  <2>2. range(sz).start \in Int /\ range(sz).length \in Int
    BY <1>4, <2>1 DEF LockRange
  <2> HIDE DEF range
  <2> QED
    BY <2>2 DEF Request, Op, Phase
<1>8. /\ req'[s] = New(sz, l)
      /\ \A t \in Session : t # s => req'[t] = req[t]
      /\ req' \in [Session -> Request]
  BY <1>0, <1>1, <1>7 DEF Become, TypeOK
<1>9. /\ fork'[s][r] = [f EXCEPT !.brlList = p]
      /\ \A t \in Session, u \in Ref : t # s \/ u # r => fork'[t][u] = fork[t][u]
  BY <1>0, <1>1 DEF TypeOK
<1>10. fork'[s][r].brlList = p /\ fork'[s][r].node = f.node
  BY <1>3, <1>9 DEF ForkItem
<1>11. \A t \in Session, u \in Ref : fork'[t][u].node = fork[t][u].node
  BY <1>9, <1>10
<1>12. \A t \in Session, u \in Ref : IsOpen(t, u)' <=> IsOpen(t, u)
  <2>1. f.node \in Node
    BY <1>3 DEF ForkItem
  <2>2. fork'[s][r] # NoFork
    BY <1>10, <2>1, NodeAssumption DEF NoFork
  <2> QED
    BY <1>2, <1>9, <2>2 DEF IsOpen
<1>13. /\ DOMAIN gLockList' = DOMAIN gLockList \cup {l}
       /\ gLockList'[l] = o
       /\ \A m \in DOMAIN gLockList : m # l /\ gLockList'[m] = gLockList[m]
  BY <1>1
<1>14. \A t \in Session, u \in Ref : \A i \in DOMAIN fork[t][u].brlList :
           /\ fork[t][u].brlList[i] \in DOMAIN gLockList
           /\ fork[t][u].brlList[i] # l
           /\ gLockList[fork[t][u].brlList[i]].session = t
           /\ gLockList[fork[t][u].brlList[i]].ref = u
  BY SMTT(30), <1>0, <1>1 DEF ListsAgree
<1>15. /\ New(sz, l).op = "lock" /\ New(sz, l).phase = "scan"
       /\ New(sz, l).ref = r /\ New(sz, l).lock = l
  OBVIOUS
<1>16. o.session = s /\ o.ref = r /\ o.node = f.node /\ ~o.valid
  OBVIOUS
<1>17. TypeOK'
  <2>1. o \in LockObject
    BY <1>3 DEF LockObject, ForkItem
  <2>2. [f EXCEPT !.brlList = p] \in ForkItem
    BY <1>3, <1>5 DEF ForkItem
  <2>3. fork' \in [Session -> [Ref -> ForkItem \cup {NoFork}]]
    BY <1>0, <1>1, <2>2 DEF TypeOK
  <2>4. gLockList' \in [DOMAIN gLockList' -> LockObject] /\ DOMAIN gLockList' \subseteq LockId
    BY <1>0, <1>1, <2>1 DEF TypeOK
  <2> QED
    BY <1>0, <1>2, <1>8, <2>3, <2>4 DEF TypeOK
<1> HIDE DEF o, p, q, f, New, range
<1>18. RequestOK'
  <2> SUFFICES ASSUME NEW t \in Session PROVE RequestOf(t)'
    BY DEF RequestOK
  <2>1. CASE t = s
    BY <1>2, <1>8, <1>12, <1>13, <1>15, <1>16, <2>1 DEF RequestOf
  <2>2. CASE t # s
    BY <1>0, <1>2, <1>8, <1>12, <1>13, <2>2 DEF RequestOK, RequestOf
  <2> QED
    BY <2>1, <2>2
<1>19. ValidNotEmpty'
  BY <1>13, <1>16 DEF IInv, ValidNotEmpty
<1>20. ListsAgree'
  <2>1. ASSUME NEW m \in DOMAIN gLockList'
        PROVE  LET x == gLockList'[m] IN
               /\ x.node = fork'[x.session][x.ref].node
               /\ m \in Range(fork'[x.session][x.ref].brlList)
    <3>1. CASE m = l
      BY SMTT(30), <1>5, <1>6, <1>10, <1>13, <1>16, <3>1 DEF Range
    <3>2. CASE m # l
      <4>1. /\ m \in DOMAIN gLockList /\ gLockList'[m] = gLockList[m]
            /\ gLockList[m].session \in Session /\ gLockList[m].ref \in Ref
            /\ gLockList[m].node = fork[gLockList[m].session][gLockList[m].ref].node
            /\ m \in Range(fork[gLockList[m].session][gLockList[m].ref].brlList)
        BY <1>0, <1>13, <3>2 DEF ListsAgree, TypeOK, LockObject
      <4>2. CASE gLockList[m].session = s /\ gLockList[m].ref = r
        <5>1. m \in Range(q)
          BY <4>1, <4>2 DEF q, f
        <5>2. m \in Range(p)
          BY <1>5, <1>6, <5>1 DEF Range
        <5> QED
          BY <1>10, <1>11, <4>1, <4>2, <5>2
      <4>3. CASE ~(gLockList[m].session = s /\ gLockList[m].ref = r)
        BY <1>9, <4>1, <4>3
      <4> QED
        BY <4>2, <4>3
    <3> QED
      BY <3>1, <3>2
  <2>2. ASSUME NEW t \in Session, NEW u \in Ref
        PROVE  LET list == fork'[t][u].brlList IN
               /\ \A i \in DOMAIN list :
                      /\ list[i] \in DOMAIN gLockList'
                      /\ gLockList'[list[i]].session = t
                      /\ gLockList'[list[i]].ref = u
               /\ \A i, j \in DOMAIN list : list[i] = list[j] => i = j
    <3>1. \A i, j \in DOMAIN fork[t][u].brlList :
              fork[t][u].brlList[i] = fork[t][u].brlList[j] => i = j
      BY <1>0 DEF ListsAgree
    <3>2. CASE t = s /\ u = r
      <4>1. \A i \in DOMAIN p : i = Len(q) + 1 \/ i \in DOMAIN q
        BY <1>5, <1>6
      <4>2. \A i \in DOMAIN q : p[i] = q[i] /\ q[i] # l /\ i # Len(q) + 1
        BY SMTT(30), <1>5, <1>6, <1>14, <3>2 DEF q, f
      <4>3. \A i \in DOMAIN p :
                /\ p[i] \in DOMAIN gLockList'
                /\ gLockList'[p[i]].session = s
                /\ gLockList'[p[i]].ref = r
        <5> SUFFICES ASSUME NEW i \in DOMAIN p
                     PROVE  /\ p[i] \in DOMAIN gLockList'
                            /\ (gLockList')[p[i]].session = s
                            /\ (gLockList')[p[i]].ref = r
          OBVIOUS
        <5>1. CASE i = Len(q) + 1
          <6>1. p[i] = l
            BY <1>5, <5>1
          <6> QED
            BY <1>13, <1>16, <6>1
        <5>2. CASE i \in DOMAIN q
          <6>1. p[i] = q[i]
            BY <4>2, <5>2
          <6>2. /\ q[i] \in DOMAIN gLockList
                /\ gLockList[q[i]].session = s
                /\ gLockList[q[i]].ref = r
            BY <1>14, <3>2, <5>2 DEF q, f
          <6> QED
            BY <1>13, <6>1, <6>2
        <5> QED
          BY <4>1, <5>1, <5>2
      <4>4. \A i, j \in DOMAIN q : q[i] = q[j] => i = j
        BY <3>1, <3>2 DEF q, f
      <4>5. \A i, j \in DOMAIN p : p[i] = p[j] => i = j
        BY <1>5, <4>1, <4>2, <4>4
      <4> QED
        BY <1>10, <3>2, <4>3, <4>5
    <3>3. CASE ~(t = s /\ u = r)
      BY SMTT(30), <1>9, <1>13, <1>14, <3>1, <3>3
    <3> QED
      BY <3>2, <3>3
  <2> QED
    BY <2>1, <2>2 DEF ListsAgree
<1>21. DeadSessionHoldsNothing'
  BY <1>2, <1>12, <1>13, <1>16 DEF IInv, DeadSessionHoldsNothing
<1>22. TestedRangeIsFree'
  <2> SUFFICES ASSUME NEW t \in Session, Scanned(t)',
                      NEW m \in DOMAIN gLockList',
                      gLockList'[m].valid, gLockList'[m].session # t,
                      gLockList'[m].node = fork'[t][req'[t].ref].node,
                      Overlap(req'[t].start, req'[t].end,
                              gLockList'[m].start, gLockList'[m].end)
               PROVE  m \in req'[t].since
    BY DEF TestedRangeIsFree, Overlap
  <2>1. t # s
    BY <1>8, <1>15 DEF Scanned
  <2>2. Scanned(t) /\ req'[t] = req[t] /\ req[t].ref \in Ref
    BY <1>0, <1>8, <2>1 DEF Scanned, RequestOK, RequestOf
  <2>3. m \in DOMAIN gLockList /\ gLockList'[m] = gLockList[m]
    BY <1>13, <1>16
  <2>4. gLockList[m].node = fork[t][req[t].ref].node
    BY <1>11, <2>2, <2>3
  <2> QED
    BY <2>2, <2>3, <2>4 DEF IInv, TestedRangeIsFree
<1>23. OnlyRacingLocksOverlap'
  <2> SUFFICES ASSUME NEW m \in DOMAIN gLockList', NEW k \in DOMAIN gLockList',
                      gLockList'[m].valid, gLockList'[k].valid,
                      gLockList'[m].session # gLockList'[k].session,
                      gLockList'[m].node = gLockList'[k].node,
                      Overlap(gLockList'[m].start, gLockList'[m].end,
                              gLockList'[k].start, gLockList'[k].end)
               PROVE  m \in gLockList'[k].raced \/ k \in gLockList'[m].raced
    BY DEF OnlyRacingLocksOverlap, Overlap
  <2>1. /\ m \in DOMAIN gLockList /\ gLockList'[m] = gLockList[m]
        /\ k \in DOMAIN gLockList /\ gLockList'[k] = gLockList[k]
    BY <1>13, <1>16
  <2> QED
    BY <2>1 DEF IInv, OnlyRacingLocksOverlap
<1> QED
  BY <1>17, <1>18, <1>19, <1>20, <1>21, <1>22, <1>23 DEF IInv

(* Unlocking only ever narrows a lock, and leaves a valid one not empty.   *)
LEMMA ShrunkNarrows ==
    ASSUME NEW o \in LockObject, NEW off \in Int, NEW last \in Int,
           off <= o.end, last >= o.start
    PROVE  /\ Shrunk(o, off, last) \in LockObject
           /\ o.start <= Shrunk(o, off, last).start
           /\ Shrunk(o, off, last).end <= o.end
           /\ o.start <= o.end => Shrunk(o, off, last).start <= Shrunk(o, off, last).end
           /\ Shrunk(o, off, last).session = o.session
           /\ Shrunk(o, off, last).ref = o.ref
           /\ Shrunk(o, off, last).node = o.node
           /\ Shrunk(o, off, last).valid = o.valid
           /\ Shrunk(o, off, last).raced = o.raced
<1> DEFINE a == IF last < o.end THEN last + 1 ELSE o.start
           b == IF last >= o.end /\ off > o.start THEN off - 1 ELSE o.end
<1>1. Shrunk(o, off, last) = [o EXCEPT !.start = a, !.end = b]
  BY DEF Shrunk
<1>2. o.start \in Int /\ o.end \in Int
  BY DEF LockObject
<1>3. /\ a \in Int /\ b \in Int /\ o.start <= a /\ b <= o.end
      /\ o.start <= o.end => a <= b
  BY <1>2
<1> HIDE DEF a, b
<1> QED
  BY <1>1, <1>3 DEF LockObject

(* An unlock request narrows one lock of its own session.                  *)
LEMMA UnlockStep ==
    ASSUME IInv, NEW s \in Session, NEW r \in Ref, NEW off \in Offset, NEW len \in Length,
           FPByteRangeLock_Unlock(s, r, off, len)
    PROVE  IInv'
<1> DEFINE last == UnlockEnd(off, len)
           q == fork[s][r].brlList
           New(l) == [op |-> "unlock", phase |-> "do", ref |-> r, lock |-> l,
                      start |-> off, end |-> last, since |-> {}]
<1>0. TypeOK /\ RequestOK /\ ListsAgree
  BY DEF IInv
<1>1. PICK i \in DOMAIN q :
          /\ off <= gLockList[q[i]].end /\ last >= gLockList[q[i]].start
          /\ gLockList' = [gLockList EXCEPT ![q[i]] = Shrunk(@, off, last)]
          /\ Become(s, New(q[i]))
  BY Zenon DEF FPByteRangeLock_Unlock
<1>2. /\ req[s] = Idle /\ conn[s] = "up" /\ IsOpen(s, r)
      /\ UNCHANGED <<size, fork, conn>>
  BY DEF FPByteRangeLock_Unlock, Ready
<1> DEFINE l == q[i]
<1>3. l \in DOMAIN gLockList /\ gLockList[l].session = s /\ gLockList[l].ref = r
  BY <1>0 DEF ListsAgree
<1>4. off \in Int /\ last \in Int
  BY InputAssumption DEF UnlockEnd
<1>5. gLockList[l] \in LockObject
  BY <1>0, <1>3 DEF TypeOK
<1> HIDE DEF last
<1>6. /\ gLockList'[l] = Shrunk(gLockList[l], off, last)
      /\ DOMAIN gLockList' = DOMAIN gLockList
      /\ \A m \in DOMAIN gLockList : m # l => gLockList'[m] = gLockList[m]
  BY <1>0, <1>1, <1>3 DEF TypeOK
<1>7. /\ gLockList'[l] \in LockObject
      /\ gLockList[l].start <= gLockList'[l].start
      /\ gLockList'[l].end <= gLockList[l].end
      /\ gLockList[l].start <= gLockList[l].end => gLockList'[l].start <= gLockList'[l].end
      /\ gLockList'[l].session = gLockList[l].session
      /\ gLockList'[l].ref = gLockList[l].ref
      /\ gLockList'[l].node = gLockList[l].node
      /\ gLockList'[l].valid = gLockList[l].valid
      /\ gLockList'[l].raced = gLockList[l].raced
  <2>1. off <= gLockList[l].end /\ last >= gLockList[l].start
    BY <1>1
  <2> HIDE DEF l
  <2> QED
    BY <1>4, <1>5, <1>6, <2>1, ShrunkNarrows
<1>8. \A m \in DOMAIN gLockList :
          /\ gLockList'[m].session = gLockList[m].session
          /\ gLockList'[m].ref = gLockList[m].ref
          /\ gLockList'[m].node = gLockList[m].node
          /\ gLockList'[m].valid = gLockList[m].valid
          /\ gLockList'[m].raced = gLockList[m].raced
  BY <1>6, <1>7
<1>9. \A m \in DOMAIN gLockList : \A a \in Int, b \in Int :
          Overlap(a, b, gLockList'[m].start, gLockList'[m].end)
          => Overlap(a, b, gLockList[m].start, gLockList[m].end)
  <2> TAKE m \in DOMAIN gLockList
  <2>1. /\ gLockList[m].start \in Int /\ gLockList[m].end \in Int
        /\ gLockList'[l].start \in Int /\ gLockList'[l].end \in Int
    BY <1>0, <1>7 DEF TypeOK, LockObject
  <2>2. CASE m = l
    BY SMTT(30), <1>7, <2>1, <2>2 DEF Overlap
  <2>3. CASE m # l
    BY <1>6, <2>3
  <2> QED
    BY <2>2, <2>3
<1>10. New(l) \in Request
  <2>1. l \in LockId
    BY <1>0, <1>3 DEF TypeOK
  <2> QED
    BY <1>4, <2>1 DEF Request, Op, Phase
<1>11. /\ req'[s] = New(l)
       /\ \A t \in Session : t # s => req'[t] = req[t]
       /\ req' \in [Session -> Request]
  BY <1>0, <1>1, <1>10 DEF Become, TypeOK
<1>12. /\ New(l).op = "unlock" /\ New(l).phase = "do" /\ New(l).ref = r /\ New(l).lock = l
  OBVIOUS
<1> HIDE DEF l, New, q
<1>13. TypeOK'
  BY <1>0, <1>2, <1>6, <1>7, <1>11, <1>1, <1>3 DEF TypeOK, l
<1>14. RequestOK'
  <2> SUFFICES ASSUME NEW t \in Session PROVE RequestOf(t)'
    BY DEF RequestOK
  <2>1. CASE t = s
    BY <1>2, <1>3, <1>6, <1>8, <1>11, <1>12, <2>1 DEF RequestOf, IsOpen
  <2>2. CASE t # s
    BY <1>0, <1>2, <1>6, <1>8, <1>11, <2>2 DEF RequestOK, RequestOf, IsOpen
  <2> QED
    BY <2>1, <2>2
<1>15. ValidNotEmpty'
  BY <1>6, <1>7 DEF IInv, ValidNotEmpty
<1>16. ListsAgree'
  BY SMTT(30), <1>0, <1>2, <1>6, <1>8 DEF ListsAgree
<1>17. DeadSessionHoldsNothing'
  BY <1>2, <1>6, <1>8 DEF IInv, DeadSessionHoldsNothing, IsOpen
<1>18. TestedRangeIsFree'
  <2> SUFFICES ASSUME NEW t \in Session, Scanned(t)', NEW m \in DOMAIN gLockList,
                      gLockList'[m].valid, gLockList'[m].session # t,
                      gLockList'[m].node = fork[t][req'[t].ref].node,
                      Overlap(req'[t].start, req'[t].end,
                              gLockList'[m].start, gLockList'[m].end)
               PROVE  m \in req'[t].since
    BY <1>2, <1>6 DEF TestedRangeIsFree, Overlap
  <2>1. t # s
    BY <1>11, <1>12 DEF Scanned
  <2>2. Scanned(t) /\ req'[t] = req[t]
    BY <1>11, <2>1 DEF Scanned
  <2>3. req[t].start \in Int /\ req[t].end \in Int
    BY <1>0 DEF TypeOK, Request
  <2>4. Overlap(req[t].start, req[t].end, gLockList[m].start, gLockList[m].end)
    BY <1>9, <2>2, <2>3
  <2> QED
    BY <1>8, <2>2, <2>4 DEF IInv, TestedRangeIsFree
<1>19. OnlyRacingLocksOverlap'
  <2> SUFFICES ASSUME NEW m \in DOMAIN gLockList, NEW k \in DOMAIN gLockList,
                      gLockList'[m].valid, gLockList'[k].valid,
                      gLockList'[m].session # gLockList'[k].session,
                      gLockList'[m].node = gLockList'[k].node,
                      Overlap(gLockList'[m].start, gLockList'[m].end,
                              gLockList'[k].start, gLockList'[k].end)
               PROVE  m \in gLockList'[k].raced \/ k \in gLockList'[m].raced
    BY <1>6 DEF OnlyRacingLocksOverlap, Overlap
  <2>1. /\ gLockList'[m].start \in Int /\ gLockList'[m].end \in Int
        /\ gLockList[k].start \in Int /\ gLockList[k].end \in Int
    <3>1. gLockList[k] \in LockObject /\ gLockList[m] \in LockObject
      BY <1>0 DEF TypeOK
    <3>2. gLockList'[m] \in LockObject
      BY <1>6, <1>7, <3>1
    <3> QED
      BY <3>1, <3>2 DEF LockObject
  <2>2. Overlap(gLockList'[m].start, gLockList'[m].end,
                gLockList[k].start, gLockList[k].end)
    BY <1>9, <2>1
  <2>3. Overlap(gLockList[k].start, gLockList[k].end,
                gLockList'[m].start, gLockList'[m].end)
    BY <2>2 DEF Overlap
  <2>4. Overlap(gLockList[k].start, gLockList[k].end,
                gLockList[m].start, gLockList[m].end)
    BY <1>9, <2>1, <2>3
  <2> QED
    BY <1>8, <2>4 DEF IInv, OnlyRacingLocksOverlap
<1> QED
  BY <1>13, <1>14, <1>15, <1>16, <1>17, <1>18, <1>19 DEF IInv

-----------------------------------------------------------------------------
(* Steps that leave the fork table and the list alone *)

(* A session that becomes idle or stays so keeps the invariant.            *)
LEMMA ToIdleStep ==
    ASSUME IInv, NEW s \in Session, Become(s, Idle),
           UNCHANGED <<fork, gLockList, conn>>, size' \in [Node -> 0..MaxSize]
    PROVE  IInv'
<1>1. TypeOK'
  BY IdleType, BecomeType DEF IInv, TypeOK
<1>2. req'[s] = Idle /\ \A t \in Session \ {s} : req'[t] = req[t]
  BY DEF IInv, TypeOK, Become
<1>3. RequestOf(s)'
  BY <1>2 DEF RequestOf, Idle
<1>4. ~Scanned(s)'
  BY <1>2 DEF Scanned, Idle
<1> QED
  BY <1>1, <1>2, <1>3, <1>4, QuietStep

(* A request enters a phase in which it has not been tested.               *)
LEMMA ToUntestedStep ==
    ASSUME IInv, NEW s \in Session, NEW q \in Request, Become(s, q),
           UNCHANGED <<size, fork, gLockList, conn>>,
           RequestOf(s)', ~Scanned(s)'
    PROVE  IInv'
<1>1. TypeOK'
  BY BecomeType DEF IInv, TypeOK
<1>2. \A t \in Session \ {s} : req'[t] = req[t]
  BY DEF IInv, TypeOK, Become
<1> QED
  BY <1>1, <1>2, QuietStep

(* A read, write or flush begins.                                          *)
LEMMA BeginAccessStep ==
    ASSUME IInv, NEW s \in Session, NEW r \in Ref, Ready(s), IsOpen(s, r),
           NEW op \in {"read", "write", "flush"},
           NEW first \in Int, NEW count \in Nat,
           op = "write" => first + count \in 0..MaxSize,
           BeginAccess(s, r, op, first, count),
           UNCHANGED <<size, fork, gLockList, conn>>
    PROVE  IInv'
<1> DEFINE q == [op |-> op, phase |-> "scan", ref |-> r, lock |-> 0,
                 start |-> first, end |-> first + count, since |-> {}]
<1>1. /\ q \in Request /\ q.start <= q.end /\ q.ref = r /\ q.op = op /\ q.phase = "scan"
      /\ q.end = first + count
  BY DEF Request, Op, Phase
<1>2. Become(s, q)
  BY DEF BeginAccess
<1>3. req'[s] = q
  BY <1>2 DEF IInv, TypeOK, Become
<1>4. conn[s] = "up"
  BY DEF Ready
<1> HIDE DEF q
<1>5. RequestOf(s)' /\ ~Scanned(s)'
  BY <1>1, <1>3, <1>4 DEF RequestOf, Scanned, IsOpen
<1> QED
  BY <1>1, <1>2, <1>5, ToUntestedStep

(* CloseFile begins, called by FPCloseFork or by the destructor.           *)
LEMMA BeginCloseStep ==
    ASSUME IInv, NEW s \in Session, NEW r \in Ref, conn[s] # "down", IsOpen(s, r),
           BeginClose(s, r), UNCHANGED <<size, fork, gLockList, conn>>
    PROVE  IInv'
<1> DEFINE q == [op |-> "close", phase |-> "do", ref |-> r, lock |-> 0,
                 start |-> 0, end |-> 0, since |-> {}]
<1>1. q \in Request /\ q.ref = r /\ q.op = "close" /\ q.phase = "do"
  BY DEF Request, Op, Phase
<1>2. Become(s, q)
  BY DEF BeginClose
<1>3. req'[s] = q
  BY <1>2 DEF IInv, TypeOK, Become
<1> HIDE DEF q
<1>4. RequestOf(s)' /\ ~Scanned(s)'
  BY <1>1, <1>3 DEF RequestOf, Scanned, IsOpen
<1> QED
  BY <1>1, <1>2, <1>4, ToUntestedStep

(* A step of the life of a session that keeps its request.                 *)
LEMMA LifeStep ==
    ASSUME IInv, NEW s \in Session, req[s] = Idle \/ conn[s] = "down",
           NEW c \in {"up", "ending", "down"}, conn' = [conn EXCEPT ![s] = c],
           c = "down" => \A r \in Ref : ~IsOpen(s, r),
           UNCHANGED <<size, fork, gLockList, req>>
    PROVE  IInv'
<1>1. TypeOK'
  BY DEF IInv, TypeOK
<1>2. conn'[s] = c /\ \A t \in Session \ {s} : conn'[t] = conn[t]
  BY DEF IInv, TypeOK
<1>3. RequestOf(s)' /\ ~Scanned(s)'
  <2>1. RequestOf(s)
    BY DEF IInv, RequestOK
  <2>2. req[s].op = "idle" /\ req[s].phase = "do"
    BY <2>1 DEF Idle, RequestOf
  <2> QED
    BY <2>2 DEF RequestOf, Scanned
<1> QED
  BY <1>1, <1>2, <1>3, QuietStep

(* A walk of the list that finds the range free leaves the request tested. *)
LEMMA TestedStep ==
    ASSUME IInv, NEW s \in Session, req[s].op \in {"lock", "read", "write", "flush"},
           req[s].phase = "scan", req[s].start <= req[s].end,
           ~RangeLocked(s, fork[s][req[s].ref].node, req[s].start, req[s].end),
           Become(s, [req[s] EXCEPT !.phase = "do"]),
           UNCHANGED <<size, fork, gLockList, conn>>
    PROVE  IInv'
<1> DEFINE q == [req[s] EXCEPT !.phase = "do"]
<1>1. req[s] \in Request
  BY DEF IInv, TypeOK
<1>2. /\ q \in Request /\ q.op = req[s].op /\ q.phase = "do" /\ q.ref = req[s].ref
      /\ q.lock = req[s].lock /\ q.start = req[s].start /\ q.end = req[s].end
      /\ q.since = req[s].since
  BY <1>1 DEF Request, Phase
<1>3. req'[s] = q /\ \A t \in Session \ {s} : req'[t] = req[t]
  BY DEF IInv, TypeOK, Become
<1> HIDE DEF q
<1>4. TypeOK'
  BY <1>2, BecomeType DEF IInv, TypeOK, q
<1>5. RequestOf(s)'
  BY <1>2, <1>3 DEF IInv, RequestOK, RequestOf, IsOpen
<1>6. FreeFor(s)'
  <2>1. req[s].start \in Int /\ req[s].end \in Int
    BY <1>1 DEF Request
  <2>2. \A l \in DOMAIN gLockList :
            /\ gLockList[l].valid /\ gLockList[l].session # s
            /\ gLockList[l].node = fork[s][req[s].ref].node
            => ~Overlap(req[s].start, req[s].end, gLockList[l].start, gLockList[l].end)
    BY <2>1, NotRangeLocked DEF IInv
  <2> QED
    BY <1>2, <1>3, <2>2 DEF FreeFor
<1> QED
  BY <1>3, <1>4, <1>5, <1>6, QuietStep

(* Lock_Scan: the walk that precedes the commit of a lock.                 *)
LEMMA LockScanStep ==
    ASSUME IInv, NEW s \in Session, Lock_Scan(s)
    PROVE  IInv'
<1> DEFINE q == [req[s] EXCEPT !.phase = "fail"]
           refused == \/ req[s].end < req[s].start
                      \/ RangeLocked(s, gLockList[req[s].lock].node,
                                     req[s].start, req[s].end)
<1>1. /\ req[s].op = "lock" /\ req[s].phase = "scan" /\ req[s] \in Request
      /\ Become(s, [req[s] EXCEPT !.phase = IF refused THEN "fail" ELSE "do"])
      /\ UNCHANGED <<size, fork, gLockList, conn>>
  BY DEF Lock_Scan, IInv, TypeOK
<1>2. RequestOf(s)
  BY DEF IInv, RequestOK
<1>3. CASE refused
  <2>1. /\ q \in Request /\ q.op = "lock" /\ q.phase = "fail"
        /\ q.ref = req[s].ref /\ q.lock = req[s].lock
    BY <1>1 DEF Request, Phase
  <2>2. Become(s, q)
    BY <1>1, <1>3
  <2>3. req'[s] = q
    BY <2>2 DEF IInv, TypeOK, Become
  <2> HIDE DEF q
  <2>4. RequestOf(s)' /\ ~Scanned(s)'
    BY <1>1, <1>2, <2>1, <2>3 DEF RequestOf, Scanned, IsOpen
  <2> QED
    BY <1>1, <2>1, <2>2, <2>4, ToUntestedStep
<1>4. CASE ~refused
  <2>1. gLockList[req[s].lock].node = fork[s][req[s].ref].node
    BY <1>1, <1>2 DEF IInv, ListsAgree, RequestOf
  <2>2. req[s].start <= req[s].end
    <3>1. req[s].start \in Int /\ req[s].end \in Int
      BY <1>1 DEF Request
    <3> QED
      BY <1>4, <3>1
  <2>3. Become(s, [req[s] EXCEPT !.phase = "do"])
    BY <1>1, <1>4
  <2> QED
    BY <1>1, <1>4, <2>1, <2>2, <2>3, TestedStep
<1> QED
  BY <1>3, <1>4

-----------------------------------------------------------------------------
(* Theorems *)

(* The server starts with no open fork and no lock.                        *)
LEMMA InitIInv == Init => IInv
<1> SUFFICES ASSUME Init PROVE IInv
  OBVIOUS
<1>1. TypeOK
  BY IdleType DEF Init, TypeOK
<1>2. \A s \in Session : req[s].op = "idle" /\ req[s].phase = "do" /\ ~Scanned(s) /\ conn[s] = "up"
  BY DEF Init, Idle, Scanned
<1>3. DOMAIN gLockList = {}
  BY DEF Init
<1>4. \A s \in Session, r \in Ref : fork[s][r].brlList = <<>>
  BY DEF Init, NoFork
<1> QED
  BY <1>1, <1>2, <1>3, <1>4
  DEF IInv, RequestOK, RequestOf, ValidNotEmpty, ListsAgree,
      DeadSessionHoldsNothing, TestedRangeIsFree, OnlyRacingLocksOverlap

(* A request a client sends keeps the invariant.                           *)
LEMMA ClientRequestStep ==
    ASSUME IInv, NEW s \in Session, ClientRequest(s)
    PROVE  IInv'
<1>0. TypeOK
  BY DEF IInv
<1>1. ASSUME NEW r \in Ref, NEW n \in Node, NEW k \in Kind, FPOpenFork(s, r, n, k)
      PROVE  IInv'
  BY <1>1, OpenStep
<1>2. ASSUME NEW r \in Ref, NEW len \in 0..MaxSize, FPSetForkParms(s, r, len)
      PROVE  IInv'
  <2>1. /\ req[s] = Idle /\ UNCHANGED <<fork, gLockList, conn, req>>
        /\ size' \in [Node -> 0..MaxSize]
    BY <1>0, <1>2 DEF FPSetForkParms, Ready, TypeOK
  <2>2. Become(s, Idle)
    BY <1>0, <2>1 DEF Become, TypeOK
  <2> QED
    BY <2>1, <2>2, ToIdleStep
<1>3. ASSUME NEW r \in Ref, NEW off \in Offset, NEW len \in Length,
             NEW fromEnd \in BOOLEAN, NEW ext \in BOOLEAN,
             FPByteRangeLock_Lock(s, r, off, len, fromEnd, ext)
      PROVE  IInv'
  BY <1>3, LockStep
<1>4. ASSUME NEW r \in Ref, NEW off \in Offset, NEW len \in Length,
             FPByteRangeLock_Unlock(s, r, off, len)
      PROVE  IInv'
  BY <1>4, UnlockStep
<1>5. ASSUME NEW r \in Ref, NEW off \in Offset, NEW count \in Length,
             FPRead(s, r, off, count)
      PROVE  IInv'
  <2>1. off \in Int /\ count \in Nat
    BY <1>5, InputAssumption DEF FPRead
  <2> QED
    BY <1>5, <2>1, BeginAccessStep DEF FPRead
<1>6. ASSUME NEW r \in Ref, NEW off \in Offset, NEW count \in Length,
             NEW fromEnd \in BOOLEAN, FPWrite(s, r, off, count, fromEnd)
      PROVE  IInv'
  <2> DEFINE f == fork[s][r]
             first == IF f.kind = "data" /\ fromEnd THEN size[f.node] + off ELSE off
  <2>1. /\ Ready(s) /\ IsOpen(s, r) /\ count >= 0
        /\ BeginAccess(s, r, "write", first, count)
        /\ UNCHANGED <<size, fork, gLockList, conn>>
    BY <1>6 DEF FPWrite
  <2>2. off \in Int /\ count \in Nat
    BY <2>1, InputAssumption
  <2>3. f.node \in Node
    BY <1>0, <2>1 DEF IsOpen, TypeOK, ForkItem
  <2>4. first \in Int
    BY <1>0, <2>2, <2>3, BoundAssumption DEF TypeOK
  <2>5. first >= 0 /\ first + count <= MaxSize
    BY <1>6 DEF FPWrite
  <2> HIDE DEF first
  <2>6. first + count \in 0..MaxSize
    BY <2>2, <2>4, <2>5, BoundAssumption
  <2> QED
    BY <2>1, <2>2, <2>4, <2>6, BeginAccessStep
<1>7. ASSUME NEW r \in Ref, FPFlushFork(s, r)
      PROVE  IInv'
  <2>1. fork[s][r].node \in Node
    BY <1>0, <1>7 DEF FPFlushFork, IsOpen, TypeOK, ForkItem
  <2>2. size[fork[s][r].node] \in Nat
    BY <1>0, <2>1, BoundAssumption DEF TypeOK
  <2> QED
    BY <1>7, <2>2, BeginAccessStep DEF FPFlushFork
<1>8. ASSUME NEW r \in Ref, FPCloseFork(s, r)
      PROVE  IInv'
  BY <1>8, BeginCloseStep DEF FPCloseFork, Ready
<1>9. CASE EndSession(s)
  BY <1>9, LifeStep DEF EndSession, Ready
<1>10. CASE NewSession(s)
  BY <1>10, LifeStep DEF NewSession
<1> QED
  BY <1>1, <1>2, <1>3, <1>4, <1>5, <1>6, <1>7, <1>8, <1>9, <1>10 DEF ClientRequest

(* A step a session thread takes by itself keeps the invariant.            *)
LEMMA ThreadStepStep ==
    ASSUME IInv, NEW s \in Session, ThreadStep(s)
    PROVE  IInv'
<1>0. TypeOK /\ RequestOf(s)
  BY DEF IInv, RequestOK
<1>1. CASE Lock_Scan(s)
  BY <1>1, LockScanStep
<1>2. CASE Lock_Commit(s)
  BY <1>2, CommitStep
<1>3. CASE Lock_Fail(s)
  <2>1. req[s].lock \in DOMAIN gLockList /\ gLockList[req[s].lock].session = s
    BY <1>0, <1>3 DEF Lock_Fail, RequestOf
  <2> QED
    BY <1>3, <2>1, DeleteStep DEF Lock_Fail, Idle
<1>4. CASE Unlock_Delete(s)
  <2>1. req[s].lock \in DOMAIN gLockList /\ gLockList[req[s].lock].session = s
    BY <1>0, <1>4 DEF Unlock_Delete, RequestOf
  <2> QED
    BY <1>4, <2>1, DeleteStep DEF Unlock_Delete, Idle
<1>5. CASE Access_Scan(s)
  <2>1. CASE RangeLocked(s, fork[s][req[s].ref].node, req[s].start, req[s].end)
    BY <1>0, <1>5, <2>1, ToIdleStep DEF Access_Scan, TypeOK
  <2>2. CASE ~RangeLocked(s, fork[s][req[s].ref].node, req[s].start, req[s].end)
    BY <1>0, <1>5, <2>2, TestedStep DEF Access_Scan, RequestOf
  <2> QED
    BY <2>1, <2>2
<1>6. CASE Access_Do(s)
  <2>1. Become(s, Idle) /\ UNCHANGED <<fork, gLockList, conn>>
    BY <1>6 DEF Access_Do
  <2>2. size' \in [Node -> 0..MaxSize]
    <3>1. CASE req[s].op = "write" /\ fork[s][req[s].ref].kind = "data"
      <4>1. req[s].end \in 0..MaxSize
        BY <1>0, <3>1 DEF RequestOf
      <4> QED
        BY <1>0, <1>6, <4>1 DEF Access_Do, TypeOK
    <3>2. CASE ~(req[s].op = "write" /\ fork[s][req[s].ref].kind = "data")
      BY <1>0, <1>6, <3>2 DEF Access_Do, TypeOK
    <3> QED
      BY <3>1, <3>2
  <2> QED
    BY <2>1, <2>2, ToIdleStep
<1>7. CASE CloseFile_Drop(s)
  <2> DEFINE list == fork[s][req[s].ref].brlList
  <2>1. /\ req[s].op = "close" /\ list # <<>>
        /\ DeleteLock(Head(list)) /\ AfterDelete(s, Head(list), req[s])
        /\ UNCHANGED <<size, conn>>
    BY <1>7 DEF CloseFile_Drop
  <2>2. list \in Seq(LockId) /\ req[s].ref \in Ref
    BY <1>0, <2>1 DEF TypeOK, RequestOf, ForkItem, NoFork, IsOpen
  <2>3. 1 \in DOMAIN list /\ Head(list) = list[1]
    BY <2>1, <2>2
  <2>4. Head(list) \in DOMAIN gLockList /\ gLockList[Head(list)].session = s
    BY SMTT(30), <2>2, <2>3 DEF IInv, ListsAgree
  <2> QED
    BY <2>1, <2>4, DeleteStep
<1>8. CASE CloseFile_Free(s)
  BY <1>8, FreeStep
<1>9. ASSUME NEW r \in Ref, Destructor_Close(s, r)
      PROVE  IInv'
  BY <1>9, BeginCloseStep DEF Destructor_Close
<1>10. CASE Destructor_Done(s)
  BY <1>10, LifeStep DEF Destructor_Done
<1> QED
  BY <1>1, <1>2, <1>3, <1>4, <1>5, <1>6, <1>7, <1>8, <1>9, <1>10 DEF ThreadStep

(* IInv is an invariant of every behaviour.                                *)
THEOREM Invariance == Spec => []IInv
<1>1. Init => IInv
  BY InitIInv
<1>2. IInv /\ [Next]_vars => IInv'
  <2> SUFFICES ASSUME IInv, [Next]_vars PROVE IInv'
    OBVIOUS
  <2>1. CASE Next
    BY <2>1, ClientRequestStep, ThreadStepStep DEF Next
  <2>2. CASE UNCHANGED vars
    BY SMTT(30), <2>2 DEF vars, IInv, TypeOK, RequestOK, RequestOf, IsOpen, ValidNotEmpty,
                ListsAgree, DeadSessionHoldsNothing, TestedRangeIsFree, Scanned,
                OnlyRacingLocksOverlap
  <2> QED
    BY <2>1, <2>2
<1> QED
  BY <1>1, <1>2, PTL DEF Spec

(* Every variable always has its type.                                     *)
THEOREM TypeCorrectness == Spec => []TypeOK
BY Invariance, PTL DEF IInv

(* For any number of sessions and locks: an overlap of two sessions' locks *)
(* can only come from the window between Lock's scan and its commit.       *)
THEOREM OverlapsAreRaces == Spec => []OnlyRacingLocksOverlap
BY Invariance, PTL DEF IInv

(* A request that passed its test meets only locks committed later.        *)
THEOREM TestsAreSound == Spec => []TestedRangeIsFree
BY Invariance, PTL DEF IInv

(* The global list and the forks' own lists never disagree.                *)
THEOREM ListsNeverDisagree == Spec => []ListsAgree
BY Invariance, PTL DEF IInv

(* No lock and no open fork survives its session.                          *)
THEOREM NothingSurvivesItsSession == Spec => []DeadSessionHoldsNothing
BY Invariance, PTL DEF IInv

(* afpLockErr always has a foreign lock behind it.                         *)
THEOREM RefusalsAreJustified == Spec => RefusedOnlyByForeignLock
<1> DEFINE Refused(s) ==
               /\ req[s].phase = "scan" /\ req[s].start <= req[s].end
               /\ req'[s].phase = "fail" \/ req'[s] = Idle
           Blocker(s) ==
               \E l \in DOMAIN gLockList :
                   /\ gLockList[l].valid
                   /\ gLockList[l].session # s
                   /\ gLockList[l].node = fork[s][req[s].ref].node
                   /\ Overlap(req[s].start, req[s].end,
                              gLockList[l].start, gLockList[l].end)
<1>1. ASSUME IInv, NEW s \in Session, Refused(s),
             RangeLocked(s, fork[s][req[s].ref].node, req[s].start, req[s].end)
      PROVE  Blocker(s)
  <2>1. req[s].start \in Int /\ req[s].end \in Int /\ req[s].start <= req[s].end
    BY <1>1 DEF IInv, TypeOK, Request
  <2>2. PICK l \in DOMAIN gLockList :
            /\ gLockList[l].session # s
            /\ gLockList[l].valid
            /\ gLockList[l].node = fork[s][req[s].ref].node
            /\ RangeHit(req[s].start, req[s].end, l)
    BY <1>1 DEF RangeLocked
  <2>3. gLockList[l].start <= gLockList[l].end
    BY <1>1, <2>2 DEF IInv, ValidNotEmpty
  <2> QED
    BY <1>1, <2>1, <2>2, <2>3, RangeHitIsOverlap DEF IInv
<1>2. ASSUME IInv, NEW t \in Session, ClientRequest(t) \/ ThreadStep(t),
             NEW s \in Session, Refused(s)
      PROVE  Blocker(s)
  <2>1. TypeOK /\ RequestOf(s) /\ ListsAgree /\ RequestOf(t)
    BY <1>2 DEF IInv, RequestOK
  <2>2. req'[s] # req[s] /\ req'[s].phase # "scan" /\ req[s] # Idle
    BY <1>2 DEF Idle
  <2>3. CASE s # t
    <3>1. req'[s] = req[s] \/ req'[s].phase = req[s].phase
      <4>1. \A q : Become(t, q) => req'[s] = req[s]
        BY <2>1, <2>3 DEF Become, TypeOK
      <4>2. \A l, q : AfterDelete(t, l, q) => req'[s].phase = req[s].phase
        <5>1. req[s] \in Request
          BY <2>1 DEF TypeOK
        <5> QED
          BY <2>3, <5>1 DEF AfterDelete, Request
      <4>3. Lock_Commit(t) => req'[s].phase = req[s].phase
        <5>1. req[s] \in Request
          BY <2>1 DEF TypeOK
        <5> QED
          BY <2>3, <5>1 DEF Lock_Commit, Request
      <4>4. CASE ClientRequest(t)
        <5>1. ASSUME NEW r \in Ref, NEW off \in Offset, NEW len \in Length,
                     NEW fromEnd \in BOOLEAN, NEW ext \in BOOLEAN,
                     FPByteRangeLock_Lock(t, r, off, len, fromEnd, ext)
              PROVE  \E q : Become(t, q)
          BY <5>1, Zenon DEF FPByteRangeLock_Lock
        <5>2. ASSUME NEW r \in Ref, NEW off \in Offset, NEW len \in Length,
                     FPByteRangeLock_Unlock(t, r, off, len)
              PROVE  \E q : Become(t, q)
          BY <5>2, Zenon DEF FPByteRangeLock_Unlock
        <5>3. \/ \E q : Become(t, q)
              \/ UNCHANGED req
              \/ \E r \in Ref : FPFlushFork(t, r) \/ FPCloseFork(t, r)
              \/ \E r \in Ref, off \in Offset, count \in Length : FPRead(t, r, off, count)
              \/ \E r \in Ref, off \in Offset, count \in Length, fromEnd \in BOOLEAN :
                     FPWrite(t, r, off, count, fromEnd)
          BY <4>4, <5>1, <5>2
          DEF ClientRequest, FPOpenFork, FPSetForkParms, EndSession, NewSession
        <5>4. \A r, op, a, b : BeginAccess(t, r, op, a, b) => req'[s] = req[s]
          BY <4>1 DEF BeginAccess
        <5>5. \A r : BeginClose(t, r) => req'[s] = req[s]
          BY <4>1 DEF BeginClose
        <5> QED
          BY <4>1, <5>3, <5>4, <5>5 DEF FPRead, FPWrite, FPFlushFork, FPCloseFork
      <4>5. CASE ThreadStep(t)
        BY <4>1, <4>2, <4>3, <4>5
        DEF ThreadStep, Lock_Scan, Lock_Fail, Unlock_Delete, Access_Scan, Access_Do,
            CloseFile_Drop, CloseFile_Free, Destructor_Close, BeginClose, Destructor_Done
      <4> QED
        BY <1>2, <4>4, <4>5
    <3> QED
      BY <1>2, <2>2, <3>1
  <2>4. CASE s = t
    <3>1. ~ClientRequest(t)
      <4>1. ~Ready(t)
        BY <2>2, <2>4 DEF Ready
      <4>2. ~NewSession(t)
        BY <2>2, <2>4 DEF NewSession
      <4>3. \A r, off, len, fromEnd, ext : ~FPByteRangeLock_Lock(t, r, off, len, fromEnd, ext)
        BY <4>1 DEF FPByteRangeLock_Lock
      <4>4. \A r, off, len : ~FPByteRangeLock_Unlock(t, r, off, len)
        BY <4>1 DEF FPByteRangeLock_Unlock
      <4> QED
        BY <4>1, <4>2, <4>3, <4>4
        DEF ClientRequest, FPOpenFork, FPSetForkParms, FPRead, FPWrite, FPFlushFork, FPCloseFork,
            EndSession
    <3>2. CASE Lock_Scan(s)
      <4>1. gLockList[req[s].lock].node = fork[s][req[s].ref].node
        BY <2>1, <3>2 DEF Lock_Scan, RequestOf, ListsAgree
      <4>2. /\ req[s] \in Request
            /\ Become(s, [req[s] EXCEPT !.phase =
                  IF \/ req[s].end < req[s].start
                     \/ RangeLocked(s, gLockList[req[s].lock].node,
                                    req[s].start, req[s].end)
                  THEN "fail" ELSE "do"])
            /\ req[s].op = "lock"
        BY <2>1, <3>2 DEF Lock_Scan, TypeOK
      <4>3. ~(req[s].end < req[s].start)
        BY <1>2, <4>2 DEF Request
      <4>4. CASE ~RangeLocked(s, gLockList[req[s].lock].node, req[s].start, req[s].end)
        <5>1. Become(s, [req[s] EXCEPT !.phase = "do"])
          BY <4>2, <4>3, <4>4
        <5>2. req'[s] = [req[s] EXCEPT !.phase = "do"]
          BY <2>1, <5>1 DEF Become, TypeOK
        <5>3. req'[s].op = "lock" /\ req'[s].phase = "do"
          BY <4>2, <5>2 DEF Request
        <5> QED
          BY <1>2, <5>3 DEF Idle
      <4> QED
        BY <1>1, <1>2, <4>1, <4>4
    <3>3. CASE Access_Scan(s)
      <4>1. CASE RangeLocked(s, fork[s][req[s].ref].node, req[s].start, req[s].end)
        BY <1>1, <1>2, <4>1
      <4>2. CASE ~RangeLocked(s, fork[s][req[s].ref].node, req[s].start, req[s].end)
        <5>1. /\ Become(s, [req[s] EXCEPT !.phase = "do"]) /\ req[s] \in Request
              /\ req[s].op # "idle"
          BY <2>1, <3>3, <4>2 DEF Access_Scan, TypeOK
        <5>2. req'[s] = [req[s] EXCEPT !.phase = "do"]
          BY <2>1, <5>1 DEF Become, TypeOK
        <5>3. req'[s].op # "idle" /\ req'[s].phase = "do"
          BY <5>1, <5>2 DEF Request
        <5> QED
          BY <1>2, <5>3 DEF Idle
      <4> QED
        BY <4>1, <4>2
    <3>4. req[s].phase = "scan"
      BY <1>2
    <3>5. ~(Lock_Commit(s) \/ Lock_Fail(s) \/ Unlock_Delete(s) \/ Access_Do(s)
            \/ CloseFile_Drop(s) \/ CloseFile_Free(s) \/ Destructor_Done(s))
      BY <2>1, <2>2, <3>4
      DEF RequestOf, Lock_Commit, Lock_Fail, Unlock_Delete, Access_Do,
          CloseFile_Drop, CloseFile_Free, Destructor_Done
    <3>6. \A r \in Ref : ~Destructor_Close(s, r)
      BY <2>2 DEF Destructor_Close
    <3> QED
      BY <1>2, <2>4, <3>1, <3>2, <3>3, <3>5, <3>6 DEF ThreadStep
  <2> QED
    BY <2>3, <2>4
<1>3. ASSUME IInv, [Next]_vars
      PROVE  [\A s \in Session : Refused(s) => Blocker(s)]_vars
  BY <1>2, <1>3 DEF Next
<1>4. IInv /\ [Next]_vars => [\A s \in Session : Refused(s) => Blocker(s)]_vars
  BY <1>3
<1> QED
  BY <1>4, Invariance, PTL DEF Spec, RefusedOnlyByForeignLock
=============================================================================
