--------------------------- MODULE ScavengerProofs ---------------------------
(***************************************************************************)
(* Proofs about Scavenger for any number of connections and volumes, any   *)
(* intervals in the order of the code's, and passes of any length.         *)
(***************************************************************************)
EXTENDS Scavenger, SequenceTheorems, WellFoundedInduction, TLAPS

(* A set of places has a first one.                                        *)
LEMMA MinIsLeast ==
    ASSUME NEW S \in SUBSET Nat, S # {}
    PROVE  Min(S) \in S /\ \A n \in S : Min(S) <= n
<1>1. PICK m \in S : \A n \in S : ~(<<n, m>> \in OpToRel(<, Nat))
  BY NatLessThanWellFounded, WFMin
<1>2. ASSUME NEW n \in S, n < m PROVE FALSE
  <2>1. <<n, m>> \in Nat \X Nat /\ <<n, m>>[1] < <<n, m>>[2]
    BY <1>2
  <2>2. <<n, m>> \in OpToRel(<, Nat)
    BY <2>1, Zenon DEF OpToRel
  <2> QED
    BY <1>1, <2>2
<1>3. \A n \in S : m <= n
  BY <1>2
<1> QED
  BY <1>3 DEF Min

(* BList::RemoveItem or std::vector::erase yields a list of the same kind, *)
(* one shorter.                                                            *)
LEMMA RemoveAtType ==
    ASSUME NEW S, NEW q \in Seq(S), NEW h \in DOMAIN q
    PROVE  /\ RemoveAt(q, h) \in Seq(S)
           /\ Len(RemoveAt(q, h)) = Len(q) - 1
           /\ \A j \in DOMAIN RemoveAt(q, h) :
                  RemoveAt(q, h)[j] = IF j < h THEN q[j] ELSE q[j + 1]
<1> DEFINE a == SubSeq(q, 1, h - 1)
           b == SubSeq(q, h + 1, Len(q))
<1>0. Len(q) \in Nat /\ h \in 1..Len(q) /\ DOMAIN q = 1..Len(q)
  OBVIOUS
<1>1. a \in Seq(S) /\ Len(a) = h - 1 /\ \A j \in 1..h-1 : a[j] = q[j]
  BY <1>0
<1>2. b \in Seq(S) /\ Len(b) = Len(q) - h /\ \A j \in 1..Len(q)-h : b[j] = q[j + h]
  BY <1>0
<1> HIDE DEF a, b
<1>3. /\ a \o b \in Seq(S) /\ Len(a \o b) = Len(a) + Len(b)
      /\ \A j \in 1..Len(a)+Len(b) : (a \o b)[j] = IF j <= Len(a) THEN a[j] ELSE b[j - Len(a)]
  BY <1>1, <1>2, ConcatProperties
<1>4. RemoveAt(q, h) = a \o b
  BY DEF RemoveAt, a, b
<1>5. ASSUME NEW j \in 1..Len(q)-1 PROVE (a \o b)[j] = IF j < h THEN q[j] ELSE q[j + 1]
  <2>1. CASE j < h
    <3>1. j \in 1..h-1 /\ j \in 1..Len(a)+Len(b) /\ j <= Len(a)
      BY <1>0, <1>1, <1>2, <2>1
    <3>2. (a \o b)[j] = a[j]
      BY <1>3, <3>1
    <3> QED
      BY <1>1, <3>1, <3>2, <2>1
  <2>2. CASE ~(j < h)
    <3>1. Len(a) = h - 1 /\ j \in 1..Len(a)+Len(b) /\ ~(j <= Len(a))
      BY <1>0, <1>1, <1>2, <2>2
    <3>2. (a \o b)[j] = b[j - Len(a)]
      BY <1>3, <3>1
    <3>3. j - Len(a) \in 1..Len(q)-h /\ j - Len(a) + h = j + 1
      BY <1>0, <3>1, <2>2
    <3> QED
      BY <1>2, <3>2, <3>3, <2>2
  <2> QED
    BY <2>1, <2>2
<1>6. Len(a) + Len(b) = Len(q) - 1
  BY <1>0, <1>1, <1>2
<1>7. a \o b \in Seq(S) /\ Len(a \o b) = Len(q) - 1
  BY <1>3, <1>6
<1>8. DOMAIN (a \o b) = 1..Len(q)-1
  BY <1>7
<1> QED
  BY <1>4, <1>5, <1>7, <1>8

(* What remains of a list when one item is removed: every other item, and  *)
(* nothing new; of a list without repetitions, not the item.               *)
LEMMA RemoveAtRange ==
    ASSUME NEW S, NEW q \in Seq(S), NEW h \in DOMAIN q
    PROVE  /\ \A x \in Range(q) : x # q[h] => x \in Range(RemoveAt(q, h))
           /\ Range(RemoveAt(q, h)) \subseteq Range(q)
           /\ (\A j, k \in DOMAIN q : j # k => q[j] # q[k])
                  => /\ q[h] \notin Range(RemoveAt(q, h))
                     /\ \A j, k \in DOMAIN RemoveAt(q, h) :
                            j # k => RemoveAt(q, h)[j] # RemoveAt(q, h)[k]
<1> DEFINE p == RemoveAt(q, h)
<1>0. Len(q) \in Nat /\ h \in 1..Len(q) /\ DOMAIN q = 1..Len(q)
  OBVIOUS
<1>1. /\ DOMAIN p = 1..Len(q)-1
      /\ \A j \in 1..Len(q)-1 : p[j] = IF j < h THEN q[j] ELSE q[j + 1]
  <2>1. /\ p \in Seq(S) /\ Len(p) = Len(q) - 1
        /\ \A j \in DOMAIN p : p[j] = IF j < h THEN q[j] ELSE q[j + 1]
    BY RemoveAtType
  <2> HIDE DEF p
  <2>2. DOMAIN p = 1..Len(q)-1
    BY <2>1
  <2> QED
    BY <2>1, <2>2
<1> HIDE DEF p
<1>2. \A x \in Range(q) : x # q[h] => x \in Range(p)
  <2> SUFFICES ASSUME NEW j \in 1..Len(q), q[j] # q[h] PROVE q[j] \in Range(p)
    BY <1>0 DEF Range
  <2>1. CASE j < h
    <3>1. j \in 1..Len(q)-1 /\ p[j] = q[j]
      BY <1>0, <1>1, <2>1
    <3> QED
      BY <1>1, <3>1 DEF Range
  <2>2. CASE ~(j < h)
    <3>1. j # h
      OBVIOUS
    <3>2. j - 1 \in 1..Len(q)-1 /\ ~(j - 1 < h) /\ j - 1 + 1 = j
      BY <1>0, <2>2, <3>1
    <3>3. p[j - 1] = q[j]
      BY <1>1, <3>2
    <3> QED
      BY <1>1, <3>2, <3>3 DEF Range
  <2> QED
    BY <2>1, <2>2
<1>3. Range(p) \subseteq Range(q)
  <2> SUFFICES ASSUME NEW j \in 1..Len(q)-1 PROVE p[j] \in Range(q)
    BY <1>1 DEF Range
  <2>1. j \in DOMAIN q /\ j + 1 \in DOMAIN q
    BY <1>0
  <2> QED
    BY <1>1, <2>1 DEF Range
<1>4. ASSUME \A j, k \in DOMAIN q : j # k => q[j] # q[k]
      PROVE  /\ q[h] \notin Range(p)
             /\ \A j, k \in DOMAIN p : j # k => p[j] # p[k]
  <2>1. \A j \in 1..Len(q)-1 : p[j] # q[h]
    BY <1>0, <1>1, <1>4
  <2>2. \A j, k \in 1..Len(q)-1 : j # k => p[j] # p[k]
    BY <1>0, <1>1, <1>4
  <2> QED
    BY <1>1, <2>1, <2>2 DEF Range
<1> QED
  BY <1>2, <1>3, <1>4 DEF p

(* Appending adds one item.                                                *)
LEMMA AppendRange ==
    ASSUME NEW S, NEW q \in Seq(S), NEW x \in S
    PROVE  /\ Append(q, x) \in Seq(S) /\ Len(Append(q, x)) = Len(q) + 1
           /\ Range(Append(q, x)) = Range(q) \cup {x}
           /\ \A j \in DOMAIN q : Append(q, x)[j] = q[j]
           /\ DOMAIN Append(q, x) = DOMAIN q \cup {Len(q) + 1}
           /\ Append(q, x)[Len(q) + 1] = x
<1>0. Len(q) \in Nat /\ DOMAIN q = 1..Len(q)
  OBVIOUS
<1>1. /\ Append(q, x) \in Seq(S) /\ Len(Append(q, x)) = Len(q) + 1
      /\ DOMAIN Append(q, x) = 1..Len(q)+1
      /\ \A j \in 1..Len(q) : Append(q, x)[j] = q[j]
      /\ Append(q, x)[Len(q) + 1] = x
  OBVIOUS
<1>2. \A j \in 1..Len(q)+1 : j \in 1..Len(q) \/ j = Len(q) + 1
  BY <1>0
<1>3. \A j \in 1..Len(q) : j \in 1..Len(q)+1
  BY <1>0
<1>4. Len(q) + 1 \in 1..Len(q)+1
  BY <1>0
<1>5. \A y \in Range(Append(q, x)) : y \in Range(q) \cup {x}
  BY <1>0, <1>1, <1>2 DEF Range
<1>6. \A y \in Range(q) \cup {x} : y \in Range(Append(q, x))
  BY <1>0, <1>1, <1>3, <1>4 DEF Range
<1>7. 1..Len(q)+1 = (1..Len(q)) \cup {Len(q) + 1}
  BY <1>0
<1> QED
  BY <1>0, <1>1, <1>5, <1>6, <1>7

(* Removing the first occurrence of an item from a list in which it occurs *)
(* once at most.                                                           *)
LEMMA RemoveFirstRange ==
    ASSUME NEW S, NEW q \in Seq(S), NEW x,
           \A j, k \in DOMAIN q : j # k => q[j] # q[k]
    PROVE  /\ RemoveFirst(q, x) \in Seq(S)
           /\ Range(RemoveFirst(q, x)) = Range(q) \ {x}
           /\ \A j, k \in DOMAIN RemoveFirst(q, x) :
                  j # k => RemoveFirst(q, x)[j] # RemoveFirst(q, x)[k]
<1> DEFINE I == {h \in 1..Len(q) : q[h] = x}
<1>0. Len(q) \in Nat /\ DOMAIN q = 1..Len(q)
  OBVIOUS
<1>1. CASE I = {}
  <2>1. RemoveFirst(q, x) = q
    BY <1>1 DEF RemoveFirst
  <2>2. x \notin Range(q)
    BY <1>0, <1>1 DEF Range
  <2> QED
    BY <2>1, <2>2
<1>2. CASE I # {}
  <2> DEFINE h == Min(I)
  <2>1. h \in I
    <3>1. I \in SUBSET Nat
      BY <1>0
    <3> QED
      BY <1>2, <3>1, MinIsLeast
  <2>2. RemoveFirst(q, x) = RemoveAt(q, h)
    BY <1>2 DEF RemoveFirst, SelectInSeq
  <2> HIDE DEF h
  <2>3. h \in DOMAIN q /\ q[h] = x
    BY <1>0, <2>1
  <2>4. RemoveAt(q, h) \in Seq(S)
    BY <2>3, RemoveAtType
  <2>5. /\ \A y \in Range(q) : y # x => y \in Range(RemoveAt(q, h))
        /\ Range(RemoveAt(q, h)) \subseteq Range(q)
        /\ x \notin Range(RemoveAt(q, h))
        /\ \A j, k \in DOMAIN RemoveAt(q, h) :
               j # k => RemoveAt(q, h)[j] # RemoveAt(q, h)[k]
    BY <2>3, RemoveAtRange
  <2> QED
    BY <2>2, <2>4, <2>5
<1> QED
  BY <1>1, <1>2

-----------------------------------------------------------------------------
(* The inductive invariant *)

(* The list holds the connections whose thread is between TrackConnection  *)
(* and StopTracking.                                                       *)
TrackedAreRunning ==
    \A c \in Connection :
        c \in Range(mOpenConnections) <=> thread[c] \in {"receiving", "stopping"}

(* The connection the scavenger works with is the last one it has taken.   *)
CurrentIsListed ==
    /\ phase = "snooze" => i = 0
    /\ phase \in {"check", "volumes"} =>
           i \in DOMAIN mOpenConnections /\ current = mOpenConnections[i]

(* Announcements that are owed are to sessions the pass has yet to come    *)
(* to, or to the current one for a volume it has yet to look at.           *)
Ahead(c) == \E k \in DOMAIN mOpenConnections : k > i /\ mOpenConnections[k] = c

OwedIsAhead ==
    \A p \in owed :
        /\ p[2] \in mOpenVolumes[p[1]] /\ p[2] \in mIsDirty
        /\ \/ phase # "snooze" /\ Ahead(p[1])
           \/ phase = "check" /\ p[1] = current
           \/ phase = "volumes" /\ p[1] = current /\ p[2] \in todo

IInv == TypeOK /\ TrackedAreRunning /\ CurrentIsListed /\ OwedIsAhead

-----------------------------------------------------------------------------
(* Lemmas about the data *)

(* The bounds of the ages are numbers.                                     *)
LEMMA AgeBounds == MaxRecvAge \in Nat /\ MaxSentAge \in Nat /\ MaxAge \in Nat
BY IntervalAssumption DEF MaxRecvAge, MaxSentAge, MaxAge

(* An age stays in its range.                                              *)
LEMMA OlderType ==
    ASSUME NEW max \in Nat, NEW a \in 0..max
    PROVE  Older(a, max) \in 0..max
BY DEF Older

(* A tracked connection is a connection.                                   *)
LEMMA TrackedType ==
    ASSUME TypeOK
    PROVE  /\ Range(mOpenConnections) \subseteq Connection
           /\ \A k \in DOMAIN mOpenConnections :
                  mOpenConnections[k] \in Connection /\ mOpenConnections[k] \in Range(mOpenConnections)
           /\ Len(mOpenConnections) \in Nat /\ DOMAIN mOpenConnections = 1..Len(mOpenConnections)
           /\ i \in Nat
<1>1. mOpenConnections \in Seq(Connection)
  BY DEF TypeOK
<1>2. Len(mOpenConnections) \in Nat /\ DOMAIN mOpenConnections = 1..Len(mOpenConnections)
  BY <1>1
<1>3. \A k \in DOMAIN mOpenConnections : mOpenConnections[k] \in Connection
  BY <1>1
<1> QED
  BY <1>2, <1>3 DEF Range, TypeOK

-----------------------------------------------------------------------------
(* Type correctness *)

LEMMA InitType == Init => TypeOK
<1> SUFFICES ASSUME Init PROVE TypeOK
  OBVIOUS
<1>1. mOpenConnections \in Seq(Connection) /\ Len(mOpenConnections) = 0 /\ IsInjective(mOpenConnections)
  BY DEF Init, IsInjective
<1> QED
  BY <1>1, AgeBounds DEF Init, TypeOK

(* A request changes only what is the connection's, and dirty volumes.     *)
LEMMA RequestsType ==
    ASSUME TypeOK, NEW c \in Connection, Requests(c)
    PROVE  TypeOK'
<1> USE AgeBounds DEF TypeOK, Request, Awake, Replied, scavengerVars
<1>1. CASE Tickle(c)
  BY <1>1 DEF Tickle
<1>2. ASSUME NEW v \in Volume, VolumeOpened(c, v) PROVE TypeOK'
  BY <1>2 DEF VolumeOpened
<1>3. ASSUME NEW v \in Volume, VolumeClosed(c, v) PROVE TypeOK'
  BY <1>3 DEF VolumeClosed
<1>4. ASSUME NEW v \in Volume, MakeDirty(c, v) PROVE TypeOK'
  BY <1>4 DEF MakeDirty
<1>5. CASE CloseFile_Unknown(c)
  BY <1>5 DEF CloseFile_Unknown
<1>6. CASE Zzzz(c)
  BY <1>6 DEF Zzzz
<1>7. CASE CloseSession(c)
  BY <1>7 DEF CloseSession
<1> QED
  BY <1>1, <1>2, <1>3, <1>4, <1>5, <1>6, <1>7 DEF Requests

(* The thread of a connection.                                             *)
LEMMA ThreadType ==
    ASSUME TypeOK, TrackedAreRunning, CurrentIsListed, NEW c \in Connection,
           \/ Client_Close(c) \/ ServerConnection(c) \/ TrackConnection(c)
           \/ Receive_Return(c) \/ StopTracking(c)
    PROVE  TypeOK'
<1>1. CASE Client_Close(c)
  BY <1>1 DEF Client_Close, TypeOK, scavengerVars, sessionVars
<1>2. CASE ServerConnection(c)
  BY <1>2 DEF ServerConnection, TypeOK, scavengerVars, sessionVars
<1>3. CASE TrackConnection(c)
  <2>1. /\ mOpenConnections' \in Seq(Connection) /\ IsInjective(mOpenConnections')
        /\ i' \in 0..Len(mOpenConnections')
    <3>1. /\ mOpenConnections' \in Seq(Connection)
          /\ DOMAIN mOpenConnections' = DOMAIN mOpenConnections \cup {Len(mOpenConnections) + 1}
          /\ Len(mOpenConnections') = Len(mOpenConnections) + 1
          /\ \A k \in DOMAIN mOpenConnections : mOpenConnections'[k] = mOpenConnections[k]
          /\ mOpenConnections'[Len(mOpenConnections) + 1] = c
      BY <1>3, AppendRange DEF TrackConnection, TypeOK
    <3>2. \A k \in DOMAIN mOpenConnections : mOpenConnections[k] # c
      BY <1>3, TrackedType DEF TrackConnection, TrackedAreRunning
    <3>3. IsInjective(mOpenConnections')
      BY <3>1, <3>2 DEF IsInjective, TypeOK
    <3> QED
      BY <1>3, <3>1, <3>3, TrackedType DEF TrackConnection, TypeOK, scavengerVars
  <2> QED
    BY <1>3, <2>1 DEF TrackConnection, TypeOK, scavengerVars, sessionVars
<1>4. CASE Receive_Return(c)
  BY <1>4 DEF Receive_Return, TypeOK, scavengerVars, sessionVars
<1>5. CASE StopTracking(c)
  <2>1. mOpenConnections' \in Seq(Connection) /\ IsInjective(mOpenConnections')
    BY <1>5, RemoveFirstRange DEF StopTracking, TypeOK, IsInjective
  <2>2. i' = 0 /\ Len(mOpenConnections') \in Nat
    BY <1>5, <2>1 DEF StopTracking, Delete, CurrentIsListed, scavengerVars
  <2> QED
    BY <1>5, <2>1, <2>2, AgeBounds DEF StopTracking, Delete, TypeOK, scavengerVars
<1> QED
  BY <1>1, <1>2, <1>3, <1>4, <1>5

(* A message of the scavenger.                                             *)
LEMMA SendType ==
    ASSUME TypeOK, NEW c \in Connection, Send(c)
    PROVE  /\ sentAge' \in [Connection -> 0..MaxSentAge]
           /\ mContinueRecv' \in [Connection -> BOOLEAN]
<1>1. /\ sentAge \in [Connection -> 0..MaxSentAge]
      /\ mContinueRecv \in [Connection -> BOOLEAN]
  BY DEF TypeOK
<1>2. 0 \in 0..MaxSentAge
  BY AgeBounds
<1>3. sentAge' \in [Connection -> 0..MaxSentAge]
  BY <1>1, <1>2 DEF Send
<1> QED
  BY <1>1, <1>3 DEF Send

(* The scavenger's thread.                                                 *)
LEMMA ScavengerType ==
    ASSUME TypeOK, CurrentIsListed, ScavengerThread
    PROVE  TypeOK'
<1>1. CASE Scavenger_Wake
  <2>1. owed' \subseteq Connection \X Volume
    BY <1>1, TrackedType DEF Scavenger_Wake, TypeOK
  <2>2. i' \in 0..Len(mOpenConnections')
    BY <1>1, TrackedType DEF Scavenger_Wake
  <2> QED
    BY <1>1, <2>1, <2>2, AgeBounds DEF Scavenger_Wake, TypeOK, sessionVars
<1>2. CASE Scavenger_Tickle
  <2>1. current' \in Connection /\ i' \in 0..Len(mOpenConnections')
    BY <1>2, TrackedType DEF Scavenger_Tickle
  <2>2. /\ sentAge' \in [Connection -> 0..MaxSentAge]
        /\ mContinueRecv' \in [Connection -> BOOLEAN]
    <3>1. CASE Send(current')
      BY <2>1, <3>1, SendType
    <3>2. CASE UNCHANGED <<sentAge, mContinueRecv>>
      BY <3>2 DEF TypeOK
    <3> QED
      BY <1>2, <3>1, <3>2 DEF Scavenger_Tickle
  <2> QED
    BY <1>2, <2>1, <2>2 DEF Scavenger_Tickle, TypeOK, sessionVars
<1>3. CASE Scavenger_Kill
  BY <1>3 DEF Scavenger_Kill, TypeOK, sessionVars
<1>4. CASE Scavenger_Check
  BY <1>4 DEF Scavenger_Check, TypeOK, sessionVars
<1>5. ASSUME NEW v \in Volume, Scavenger_Volume(v) PROVE TypeOK'
  <2>1. current \in Connection
    BY <1>5, TrackedType DEF Scavenger_Volume, CurrentIsListed
  <2>2. /\ sentAge' \in [Connection -> 0..MaxSentAge]
        /\ mContinueRecv' \in [Connection -> BOOLEAN]
        /\ owed' \subseteq Connection \X Volume
    <3>1. CASE Send(current) /\ owed' = owed \ {<<current, v>>}
      BY <2>1, <3>1, SendType DEF TypeOK
    <3>2. CASE UNCHANGED <<sentAge, mContinueRecv, owed>>
      BY <3>2 DEF TypeOK
    <3> QED
      BY <1>5, <3>1, <3>2 DEF Scavenger_Volume
  <2> QED
    BY <1>5, <2>2 DEF Scavenger_Volume, TypeOK, sessionVars
<1>6. CASE Scavenger_Clean
  BY <1>6, TrackedType, AgeBounds DEF Scavenger_Clean, TypeOK, sessionVars
<1> QED
  BY <1>1, <1>2, <1>3, <1>4, <1>5, <1>6 DEF ScavengerThread

LEMMA TickType ==
    ASSUME TypeOK, Tick
    PROVE  TypeOK'
<1>1. age' \in 0..MaxAge
  BY OlderType, AgeBounds DEF Tick, TypeOK
<1>2. recvAge' \in [Connection -> 0..MaxRecvAge]
  <2> SUFFICES ASSUME NEW c \in Connection
               PROVE  (IF thread[c] = "none" THEN 0 ELSE Older(recvAge[c], MaxRecvAge))
                         \in 0..MaxRecvAge
    BY DEF Tick
  <2>1. recvAge[c] \in 0..MaxRecvAge
    BY DEF TypeOK
  <2> QED
    BY <2>1, OlderType, AgeBounds
<1>3. sentAge' \in [Connection -> 0..MaxSentAge]
  <2> SUFFICES ASSUME NEW c \in Connection
               PROVE  (IF thread[c] = "none" THEN 0 ELSE Older(sentAge[c], MaxSentAge))
                         \in 0..MaxSentAge
    BY DEF Tick
  <2>1. sentAge[c] \in 0..MaxSentAge
    BY DEF TypeOK
  <2> QED
    BY <2>1, OlderType, AgeBounds
<1> QED
  BY <1>1, <1>2, <1>3 DEF Tick, TypeOK

-----------------------------------------------------------------------------
(* The list and the announcements *)

(* A step that touches neither the list nor where the pass is, nor takes   *)
(* an open volume of which an announcement is owed, keeps the invariant.   *)
LEMMA QuietStep ==
    ASSUME IInv, TypeOK', UNCHANGED <<phase, i, current, todo, mOpenConnections>>,
           \A c \in Connection : thread'[c] \in {"receiving", "stopping"}
                                   <=> thread[c] \in {"receiving", "stopping"},
           owed' \subseteq owed, mIsDirty \subseteq mIsDirty',
           \A p \in owed' : p[2] \in mOpenVolumes'[p[1]]
    PROVE  IInv'
<1>1. TrackedAreRunning'
  BY DEF IInv, TrackedAreRunning
<1>2. CurrentIsListed'
  BY DEF IInv, CurrentIsListed
<1>3. OwedIsAhead'
  BY DEF IInv, OwedIsAhead, Ahead
<1> QED
  BY <1>1, <1>2, <1>3 DEF IInv

LEMMA RequestsStep ==
    ASSUME IInv, NEW c \in Connection, Requests(c)
    PROVE  IInv'
<1>1. TypeOK'
  BY RequestsType DEF IInv
<1>2. /\ UNCHANGED <<phase, i, current, todo, mOpenConnections, thread>>
      /\ owed' \subseteq owed /\ mIsDirty \subseteq mIsDirty'
  BY DEF Requests, Tickle, VolumeOpened, VolumeClosed, MakeDirty, CloseFile_Unknown, Zzzz,
         CloseSession, Request, scavengerVars
<1>3. ASSUME NEW p \in owed' PROVE p[2] \in mOpenVolumes'[p[1]]
  <2>1. /\ p \in Connection \X Volume /\ p = <<p[1], p[2]>>
        /\ p[2] \in mOpenVolumes[p[1]]
        /\ mOpenVolumes \in [Connection -> SUBSET Volume]
    BY <1>2, <1>3 DEF IInv, TypeOK, OwedIsAhead
  <2>2. ASSUME NEW v \in Volume, VolumeOpened(c, v) PROVE p[2] \in mOpenVolumes'[p[1]]
    BY <2>1, <2>2 DEF VolumeOpened
  <2>3. ASSUME NEW v \in Volume, VolumeClosed(c, v) PROVE p[2] \in mOpenVolumes'[p[1]]
    <3>1. p # <<c, v>>
      BY <1>3, <2>3 DEF VolumeClosed
    <3>2. p[1] # c \/ p[2] # v
      BY <2>1, <3>1
    <3> QED
      BY <2>1, <2>3, <3>2 DEF VolumeClosed
  <2>4. CASE UNCHANGED mOpenVolumes
    BY <2>1, <2>4
  <2> QED
    BY <2>2, <2>3, <2>4 DEF Requests, Tickle, MakeDirty, CloseFile_Unknown, Zzzz, CloseSession
<1> QED
  BY <1>1, <1>2, <1>3, QuietStep

LEMMA TickStep ==
    ASSUME IInv, Tick
    PROVE  IInv'
<1>1. TypeOK'
  BY TickType DEF IInv
<1>2. /\ UNCHANGED <<phase, i, current, todo, mOpenConnections, thread>>
      /\ UNCHANGED <<owed, mIsDirty, mOpenVolumes>>
  BY DEF Tick
<1>3. \A p \in owed' : p[2] \in mOpenVolumes'[p[1]]
  BY <1>2 DEF IInv, OwedIsAhead
<1> QED
  BY <1>1, <1>2, <1>3, QuietStep

(* While the scavenger sleeps no announcement is owed.                     *)
LEMMA NothingOwed ==
    ASSUME IInv, phase = "snooze"
    PROVE  owed = {}
BY DEF IInv, OwedIsAhead

LEMMA ThreadStep ==
    ASSUME IInv, NEW c \in Connection,
           \/ Client_Close(c) \/ ServerConnection(c) \/ TrackConnection(c)
           \/ Receive_Return(c) \/ StopTracking(c)
    PROVE  IInv'
<1>1. TypeOK'
  BY ThreadType DEF IInv
<1>2. thread \in [Connection -> {"none", "starting", "receiving", "stopping"}]
  BY DEF IInv, TypeOK
<1>3. CASE Client_Close(c) \/ ServerConnection(c) \/ Receive_Return(c)
  <2>1. /\ UNCHANGED <<phase, i, current, todo, mOpenConnections, owed, mIsDirty, mOpenVolumes>>
        /\ \A d \in Connection : thread'[d] \in {"receiving", "stopping"}
                                    <=> thread[d] \in {"receiving", "stopping"}
    BY <1>2, <1>3 DEF Client_Close, ServerConnection, Receive_Return, scavengerVars, sessionVars
  <2>2. \A p \in owed' : p[2] \in mOpenVolumes'[p[1]]
    BY <2>1 DEF IInv, OwedIsAhead
  <2> QED
    BY <1>1, <2>1, <2>2, QuietStep
<1>4. CASE TrackConnection(c)
  <2>1. TrackedAreRunning'
    <3>1. Range(mOpenConnections') = Range(mOpenConnections) \cup {c}
      BY <1>4, AppendRange DEF TrackConnection, IInv, TypeOK
    <3> QED
      BY <1>2, <1>4, <3>1 DEF TrackConnection, IInv, TrackedAreRunning
  <2>2. CurrentIsListed'
    BY <1>4 DEF TrackConnection, IInv, CurrentIsListed, scavengerVars
  <2>3. OwedIsAhead'
    BY <1>4, NothingOwed DEF TrackConnection, OwedIsAhead
  <2> QED
    BY <1>1, <2>1, <2>2, <2>3 DEF IInv
<1>5. CASE StopTracking(c)
  <2>1. TrackedAreRunning'
    <3>1. Range(mOpenConnections') = Range(mOpenConnections) \ {c}
      BY <1>5, RemoveFirstRange DEF StopTracking, IInv, TypeOK, IsInjective
    <3> QED
      BY <1>2, <1>5, <3>1 DEF StopTracking, Delete, IInv, TrackedAreRunning
  <2>2. CurrentIsListed'
    BY <1>5 DEF StopTracking, Delete, IInv, CurrentIsListed, scavengerVars
  <2>3. OwedIsAhead'
    BY <1>5, NothingOwed DEF StopTracking, Delete, OwedIsAhead
  <2> QED
    BY <1>1, <2>1, <2>2, <2>3 DEF IInv
<1> QED
  BY <1>3, <1>4, <1>5

LEMMA ScavengerStep ==
    ASSUME IInv, ScavengerThread
    PROVE  IInv'
<1>1. TypeOK'
  BY ScavengerType DEF IInv
<1>2. UNCHANGED <<mOpenConnections, mOpenVolumes, thread>>
  BY DEF ScavengerThread, Scavenger_Wake, Scavenger_Tickle, Scavenger_Kill, Scavenger_Check,
         Scavenger_Volume, Scavenger_Clean, sessionVars
<1>3. TrackedAreRunning'
  BY <1>2 DEF IInv, TrackedAreRunning
<1>4. /\ Len(mOpenConnections) \in Nat /\ DOMAIN mOpenConnections = 1..Len(mOpenConnections)
      /\ i \in Nat /\ owed \subseteq Connection \X Volume
  BY TrackedType DEF IInv, TypeOK
<1>5. CurrentIsListed'
  <2>1. CASE Scavenger_Wake \/ Scavenger_Clean
    BY <2>1 DEF Scavenger_Wake, Scavenger_Clean, CurrentIsListed
  <2>2. CASE Scavenger_Tickle
    BY <1>2, <1>4, <2>2 DEF Scavenger_Tickle, CurrentIsListed
  <2>3. CASE Scavenger_Kill \/ Scavenger_Check \/ \E v \in Volume : Scavenger_Volume(v)
    BY <1>2, <2>3 DEF Scavenger_Kill, Scavenger_Check, Scavenger_Volume, IInv, CurrentIsListed
  <2> QED
    BY <2>1, <2>2, <2>3 DEF ScavengerThread
<1>6. OwedIsAhead'
  <2>1. CASE Scavenger_Wake
    <3>1. ASSUME NEW p \in owed'
          PROVE  /\ p[2] \in mOpenVolumes'[p[1]] /\ p[2] \in mIsDirty'
                 /\ phase' # "snooze" /\ Ahead(p[1])'
      <4>1. p[1] \in Range(mOpenConnections) /\ p[2] \in mOpenVolumes[p[1]] /\ p[2] \in mIsDirty
        BY <2>1, <3>1 DEF Scavenger_Wake
      <4>2. PICK k \in DOMAIN mOpenConnections : mOpenConnections[k] = p[1]
        BY <4>1 DEF Range
      <4> QED
        BY <1>2, <1>4, <2>1, <4>1, <4>2 DEF Scavenger_Wake, Ahead
    <3> QED
      BY <3>1 DEF OwedIsAhead
  <2>2. CASE Scavenger_Tickle
    <3>1. ASSUME NEW p \in owed
          PROVE  Ahead(p[1])' \/ p[1] = current'
      <4>1. PICK k \in DOMAIN mOpenConnections : k > i /\ mOpenConnections[k] = p[1]
        BY <2>2 DEF Scavenger_Tickle, IInv, OwedIsAhead, Ahead
      <4>2. k = i + 1 \/ k > i + 1
        BY <1>4, <4>1
      <4> QED
        BY <1>2, <2>2, <4>1, <4>2 DEF Scavenger_Tickle, Ahead
    <3> QED
      BY <1>2, <2>2, <3>1 DEF Scavenger_Tickle, IInv, OwedIsAhead
  <2>3. CASE Scavenger_Kill
    BY <1>2, <2>3 DEF Scavenger_Kill, IInv, OwedIsAhead, Ahead
  <2>4. CASE Scavenger_Check
    <3>1. \A p \in owed : p[2] \in Volume
      BY <1>4
    <3> QED
      BY <1>2, <2>4, <3>1 DEF Scavenger_Check, IInv, OwedIsAhead, Ahead
  <2>5. ASSUME NEW v \in Volume, Scavenger_Volume(v) PROVE OwedIsAhead'
    <3>1. ASSUME NEW p \in owed'
          PROVE  /\ p \in owed
                 /\ p[1] = current => p[2] # v
      <4>1. p \in owed /\ p = <<p[1], p[2]>>
        BY <1>4, <2>5, <3>1 DEF Scavenger_Volume
      <4>2. CASE v \in mIsDirty /\ v \in mOpenVolumes[current]
        BY <2>5, <3>1, <4>1, <4>2 DEF Scavenger_Volume
      <4>3. CASE ~(v \in mIsDirty /\ v \in mOpenVolumes[current])
        BY <4>1, <4>3 DEF IInv, OwedIsAhead
      <4> QED
        BY <4>1, <4>2, <4>3
    <3> QED
      BY <1>2, <2>5, <3>1 DEF Scavenger_Volume, IInv, OwedIsAhead, Ahead
  <2>6. CASE Scavenger_Clean
    <3>1. ~ \E p \in owed : Ahead(p[1])
      BY <1>4, <2>6 DEF Scavenger_Clean, Ahead
    <3>2. owed' = {}
      BY <2>6, <3>1 DEF Scavenger_Clean, IInv, OwedIsAhead
    <3> QED
      BY <3>2 DEF OwedIsAhead
  <2> QED
    BY <2>1, <2>2, <2>3, <2>4, <2>5, <2>6 DEF ScavengerThread
<1> QED
  BY <1>1, <1>3, <1>5, <1>6 DEF IInv

LEMMA InitStep == Init => IInv
<1> SUFFICES ASSUME Init PROVE IInv
  OBVIOUS
<1>1. Range(mOpenConnections) = {}
  BY DEF Init, Range
<1>2. TrackedAreRunning
  BY <1>1 DEF Init, TrackedAreRunning
<1> QED
  BY <1>2, InitType DEF Init, IInv, CurrentIsListed, OwedIsAhead

LEMMA NextStep ==
    ASSUME IInv, [Next]_vars
    PROVE  IInv'
<1>1. CASE Tick
  BY <1>1, TickStep
<1>2. ASSUME NEW c \in Connection, Requests(c) PROVE IInv'
  BY <1>2, RequestsStep
<1>3. ASSUME NEW c \in Connection,
             \/ Client_Close(c) \/ ServerConnection(c) \/ TrackConnection(c)
             \/ Receive_Return(c) \/ StopTracking(c)
      PROVE  IInv'
  BY <1>3, ThreadStep
<1>4. CASE ScavengerThread
  BY <1>4, ScavengerStep
<1>5. CASE UNCHANGED vars
  <2>1. TypeOK'
    BY <1>5 DEF IInv, TypeOK, vars, scavengerVars, sessionVars
  <2>2. /\ UNCHANGED <<phase, i, current, todo, mOpenConnections, thread>>
        /\ UNCHANGED <<owed, mIsDirty, mOpenVolumes>>
    BY <1>5 DEF vars, scavengerVars, sessionVars
  <2>3. \A p \in owed' : p[2] \in mOpenVolumes'[p[1]]
    BY <2>2 DEF IInv, OwedIsAhead
  <2> QED
    BY <2>1, <2>2, <2>3, QuietStep
<1> QED
  BY <1>1, <1>2, <1>3, <1>4, <1>5 DEF Next

-----------------------------------------------------------------------------
(* The theorems *)

(* The invariants hold in every state.                                     *)
THEOREM Invariance == Spec => []IInv
<1> QED
  BY InitStep, NextStep, PTL DEF Spec

(* Every variable has its type, and nobody is tracked twice.               *)
THEOREM TypeCorrect == Spec => []TypeOK
<1>1. IInv => TypeOK
  BY DEF IInv
<1> QED
  BY Invariance, <1>1, PTL

(* The scavenger never works with the pointer of a deleted connection:     *)
(* from when it takes the entry to when it takes the next, StopTracking    *)
(* waits for the mutex.                                                    *)
THEOREM PointerLive == Spec => []PointerIsLive
<1>1. IInv => PointerIsLive
  <2> SUFFICES ASSUME IInv, phase \in {"check", "volumes"}
               PROVE  thread[current] \in {"receiving", "stopping"}
    BY DEF PointerIsLive
  <2>1. current \in Range(mOpenConnections) /\ current \in Connection
    BY TrackedType DEF IInv, CurrentIsListed
  <2> QED
    BY <2>1 DEF IInv, TrackedAreRunning
<1> QED
  BY Invariance, <1>1, PTL

(* MarkAllVolumesClean comes after every announcement of the pass: nobody  *)
(* is passed over, although requests mark volumes dirty, open and close    *)
(* them while the pass is under way.                                       *)
THEOREM AnnouncedFirst == Spec => AnnouncedBeforeClean
<1>1. ASSUME IInv, [Next]_vars
      PROVE  [phase = "next" /\ phase' = "snooze" => owed = {}]_vars
  <2> SUFFICES ASSUME Next, phase = "next", phase' = "snooze"
               PROVE  owed = {}
    BY <1>1
  <2>1. phase' = phase \/ ScavengerThread
    BY DEF Next, Tick, Client_Close, ServerConnection, TrackConnection, Receive_Return,
           StopTracking, Delete, Requests, Tickle, VolumeOpened, VolumeClosed, MakeDirty,
           CloseFile_Unknown, Zzzz, CloseSession, Request, scavengerVars
  <2>2. Scavenger_Clean
    BY <2>1 DEF ScavengerThread, Scavenger_Wake, Scavenger_Tickle, Scavenger_Kill,
                Scavenger_Check, Scavenger_Volume
  <2>3. ~ \E p \in owed : Ahead(p[1])
    BY <1>1, <2>2, TrackedType DEF IInv, Scavenger_Clean, Ahead
  <2> QED
    BY <1>1, <2>3 DEF IInv, OwedIsAhead
<1> QED
  BY Invariance, <1>1, PTL DEF Spec, AnnouncedBeforeClean

(* The scavenger kills no session for nothing.  A time stamp newer than    *)
(* the clock of the pass is the one way to lose a session that is neither  *)
(* overdue nor closed: the unsigned difference wraps.                      *)
THEOREM KilledOnlyForAReason == Spec => KilledForAReason
<1> DEFINE Reason(c) == recvAge[c] > DeadInterval \/ closed[c] \/ recvAge[c] < age
           Step == \A c \in Connection :
                       phase \in {"next", "check", "volumes"} /\ phase' # phase
                       /\ mContinueRecv[c] /\ ~mContinueRecv'[c]
                       => Reason(c)
<1>1. ASSUME IInv, [Next]_vars
      PROVE  [Step]_vars
  <2> SUFFICES ASSUME Next, NEW c \in Connection, phase' # phase,
                      mContinueRecv[c], ~mContinueRecv'[c]
               PROVE  Reason(c)
    BY <1>1
  <2>1. mContinueRecv \in [Connection -> BOOLEAN]
    BY <1>1 DEF IInv, TypeOK
  <2>2. ScavengerThread
    BY DEF Next, Tick, Client_Close, ServerConnection, TrackConnection, Receive_Return,
           StopTracking, Delete, Requests, Tickle, VolumeOpened, VolumeClosed, MakeDirty,
           CloseFile_Unknown, Zzzz, CloseSession, Request, scavengerVars
  <2>3. ASSUME NEW d, Send(d) PROVE closed[c]
    BY <2>1, <2>3 DEF Send
  <2>4. CASE Scavenger_Tickle
    BY <2>3, <2>4 DEF Scavenger_Tickle
  <2>5. ASSUME NEW v \in Volume, Scavenger_Volume(v) PROVE Reason(c)
    BY <2>3, <2>5 DEF Scavenger_Volume
  <2>6. CASE Scavenger_Kill
    <3>1. c = current /\ Interval(recvAge[c]) > DeadInterval
      BY <2>1, <2>6 DEF Scavenger_Kill, Overdue
    <3>2. recvAge[c] \in Nat /\ age \in Nat /\ DeadInterval \in Nat
      BY <1>1, AgeBounds, IntervalAssumption DEF IInv, TypeOK
    <3> QED
      BY <3>1, <3>2 DEF Interval
  <2> QED
    BY <2>2, <2>4, <2>5, <2>6 DEF ScavengerThread, Scavenger_Wake, Scavenger_Check, Scavenger_Clean
<1> QED
  BY Invariance, <1>1, PTL DEF Spec, KilledForAReason
=============================================================================
