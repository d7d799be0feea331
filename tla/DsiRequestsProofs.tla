------------------------- MODULE DsiRequestsProofs -------------------------
(***************************************************************************)
(* Proofs about DsiRequests for ids of any width, a replay cache of any    *)
(* size and any number of requests, repetitions and connections.           *)
(***************************************************************************)
EXTENDS DsiRequests, SequenceTheorems, WellFoundedInduction, TLAPS

(* A set of places has a first one.                                        *)
LEMMA MinIsLeast ==
    ASSUME NEW S \in SUBSET Nat, S # {}
    PROVE  Min(S) \in S /\ \A n \in S : Min(S) <= n
<1>1. PICK m \in S : \A n \in S : ~(<<n, m>> \in OpToRel(<, Nat))
  BY NatLessThanWellFounded, WFMin
<1>2. ASSUME NEW n \in S, n < m PROVE FALSE
  <2>1. <<n, m>> \in Nat \X Nat /\ <<n, m>>[1] < <<n, m>>[2]
    BY <1>2
  <2>2. <<n, m>> \in OpToRel(<, Nat)
    BY <2>1, Zenon DEF OpToRel
  <2> QED
    BY <1>1, <2>2
<1>3. \A n \in S : m <= n
  BY <1>2
<1> QED
  BY <1>3 DEF Min

(* Appending adds one item.                                                *)
LEMMA AppendRange ==
    ASSUME NEW S, NEW q \in Seq(S), NEW x \in S
    PROVE  /\ Append(q, x) \in Seq(S) /\ Len(Append(q, x)) = Len(q) + 1
           /\ Range(Append(q, x)) = Range(q) \cup {x}
           /\ \A j \in DOMAIN q : Append(q, x)[j] = q[j]
           /\ DOMAIN Append(q, x) = DOMAIN q \cup {Len(q) + 1}
           /\ Append(q, x)[Len(q) + 1] = x
<1>0. Len(q) \in Nat /\ DOMAIN q = 1..Len(q)
  OBVIOUS
<1>1. /\ Append(q, x) \in Seq(S) /\ Len(Append(q, x)) = Len(q) + 1
      /\ DOMAIN Append(q, x) = 1..Len(q)+1
      /\ \A j \in 1..Len(q) : Append(q, x)[j] = q[j]
      /\ Append(q, x)[Len(q) + 1] = x
  OBVIOUS
<1>2. \A j \in 1..Len(q)+1 : j \in 1..Len(q) \/ j = Len(q) + 1
  BY <1>0
<1>3. \A j \in 1..Len(q) : j \in 1..Len(q)+1
  BY <1>0
<1>4. Len(q) + 1 \in 1..Len(q)+1
  BY <1>0
<1>5. \A y \in Range(Append(q, x)) : y \in Range(q) \cup {x}
  BY <1>0, <1>1, <1>2 DEF Range
<1>6. \A y \in Range(q) \cup {x} : y \in Range(Append(q, x))
  BY <1>0, <1>1, <1>3, <1>4 DEF Range
<1>7. 1..Len(q)+1 = (1..Len(q)) \cup {Len(q) + 1}
  BY <1>0
<1> QED
  BY <1>0, <1>1, <1>5, <1>6, <1>7

-----------------------------------------------------------------------------
(* The inductive invariant *)

(* What is on its way to the server is a request, under its own id, and no *)
(* request was sent on a connection to come.                               *)
PacketsFit ==
    /\ \A i \in DOMAIN toServer :
          toServer[i].op \in DOMAIN ops /\ toServer[i].id = ops[toServer[i].op].id
    /\ \A u \in DOMAIN ops : ops[u].connection <= connection

(* Before the first request nothing has happened.                          *)
Begun ==
    unchecked = 0 => /\ mClientRequestID = 0 /\ mReplayCache = <<>>
                     /\ \A u \in DOMAIN ops : ops[u].runsHere = 0

(* Replies are cached once the version is known, which is when the client  *)
(* has logged in.                                                          *)
Logged == mContinueRecv => (v33 => mIsAuthenticated) /\ (~v33 => mReplayCache = <<>>)

(* Until a second id is taken unchecked the ids of the requests executed,  *)
(* and those of the cached replies, go up to where the counter is.         *)
RunsUpTo(m) ==
    \A u \in DOMAIN ops : ops[u].runsHere <= 1 /\ (ops[u].runsHere > 0 => ops[u].id <= m)
CachedUpTo(m) ==
    /\ \A i \in DOMAIN mReplayCache :
          LET c == mReplayCache[i]
          IN  c.op \in DOMAIN ops /\ ops[c.op].id = c.requestID /\ c.requestID <= m
    /\ \A i, j \in DOMAIN mReplayCache :
          i < j => mReplayCache[i].requestID < mReplayCache[j].requestID
Ascends ==
    unchecked <= 1 => /\ RunsUpTo(mClientRequestID) /\ CachedUpTo(mClientRequestID)
                      /\ CacheCoversTheLatest

(* Of a client that has not sent a request again: the last request taken   *)
(* and the requests of the connection, all the later ones.                 *)
Taken == Len(ops) - Len(toServer)
Here(u) == ops[u].connection = connection
NextAfter(u) == IF u = Len(ops) THEN nextID ELSE ops[u + 1].id

InOrder ==
    /\ \A i \in DOMAIN toServer : toServer[i].op = Taken + i
    /\ \A u, w \in DOMAIN ops : u <= w /\ Here(u) => Here(w)
    /\ \A u \in DOMAIN ops : u > Taken => Here(u) /\ ops[u].answer = 0
    /\ \A u \in DOMAIN ops : Here(u) => NextAfter(u) = Successor(ops[u].id)
    /\ IF Taken \in DOMAIN ops /\ Here(Taken) THEN mClientRequestID = ops[Taken].id
                                              ELSE mClientRequestID = 0

(* The replies on their way are those to the oldest requests that wait for *)
(* one, in their order; there are no others until the session is killed.   *)
Waits(u) == Here(u) /\ ops[u].kind # "tickle" /\ ops[u].answer = 0
Answers ==
    /\ \A i, j \in DOMAIN toClient : i < j => toClient[i].op < toClient[j].op
    /\ \A i \in DOMAIN toClient :
          LET r == toClient[i]
          IN  r.op \in DOMAIN ops /\ r.op <= Taken /\ Waits(r.op) /\ r.id = ops[r.op].id
    /\ \A u \in DOMAIN ops : Waits(u) =>
          \/ \E i \in DOMAIN toClient : toClient[i].op = u
          \/ \A i \in DOMAIN toClient : toClient[i].op < u
    /\ mContinueRecv =>
          \A u \in DOMAIN ops : Waits(u) /\ u <= Taken =>
              \E i \in DOMAIN toClient : toClient[i].op = u
    /\ \A u \in DOMAIN ops : Here(u) => ops[u].answer \in {0, u}

IInv ==
    /\ TypeOK /\ PacketsFit /\ Begun /\ Logged /\ Ascends
    /\ ~replayed => Len(toServer) <= Len(ops) /\ InOrder /\ Answers /\ ~outOfSequence

-----------------------------------------------------------------------------
(* Lemmas about ids *)

LEMMA ModLess == ASSUME NEW a \in Nat, NEW b \in Nat, a < b PROVE a % b = a
OBVIOUS

(* The counter takes an id, or goes up by one without wrapping.            *)
LEMMA NextID ==
    ASSUME mClientRequestID \in ID, NEW id \in ID
    PROVE  /\ GetNextClientRequestID(id) \in ID
           /\ TakenUnchecked => GetNextClientRequestID(id) = id
           /\ ~TakenUnchecked => /\ GetNextClientRequestID(id) = mClientRequestID + 1
                                 /\ mClientRequestID < MaxID
           /\ id = Successor(mClientRequestID) => GetNextClientRequestID(id) = id
<1>1. MaxID \in Nat /\ mClientRequestID \in 0..MaxID /\ id \in 0..MaxID
  BY IDAssumption DEF ID
<1>2. CASE TakenUnchecked
  BY <1>1, <1>2 DEF GetNextClientRequestID, ID
<1>3. CASE ~TakenUnchecked
  <2>1. mClientRequestID + 1 \in Nat /\ MaxID + 1 \in Nat
        /\ mClientRequestID + 1 < MaxID + 1 /\ mClientRequestID # MaxID
    BY <1>1, <1>3 DEF TakenUnchecked
  <2>2. (mClientRequestID + 1) % (MaxID + 1) = mClientRequestID + 1
    BY <2>1, ModLess
  <2> QED
    BY <1>1, <1>3, <2>1, <2>2 DEF GetNextClientRequestID, ID, Successor
<1> QED
  BY <1>2, <1>3

LEMMA SuccessorType == ASSUME NEW id \in ID PROVE Successor(id) \in ID
BY IDAssumption DEF Successor, ID

-----------------------------------------------------------------------------
(* Lemmas about the requests *)

LEMMA OperationFields ==
    ASSUME NEW o \in Operation
    PROVE  /\ o.id \in ID /\ o.kind \in Kind /\ o.connection \in 1..MaxConnections
           /\ o.runsHere \in Nat /\ o.answer \in Op \cup {0}
BY DEF Operation

(* A request when it is sent again, answered, executed or, on another      *)
(* connection, counted anew.                                               *)
LEMMA OperationChanges ==
    ASSUME NEW o \in Operation, NEW c \in 1..MaxConnections, NEW n \in Nat,
           NEW a \in Op \cup {0}
    PROVE  /\ [o EXCEPT !.connection = c] \in Operation
           /\ [o EXCEPT !.connection = c] =
                 [id |-> o.id, kind |-> o.kind, connection |-> c,
                  runsHere |-> o.runsHere, answer |-> o.answer]
           /\ [o EXCEPT !.answer = a] \in Operation
           /\ [o EXCEPT !.answer = a] =
                 [id |-> o.id, kind |-> o.kind, connection |-> o.connection,
                  runsHere |-> o.runsHere, answer |-> a]
           /\ [o EXCEPT !.runsHere = n] \in Operation
           /\ [o EXCEPT !.runsHere = n] =
                 [id |-> o.id, kind |-> o.kind, connection |-> o.connection,
                  runsHere |-> n, answer |-> o.answer]
BY DEF Operation

-----------------------------------------------------------------------------
(* Lemmas about the replay cache *)

(* The reply is cached behind all the others, or all but the oldest.       *)
LEMMA CacheAdds ==
    ASSUME NEW cache \in Seq(CacheItem), Len(cache) <= CacheSize, NEW item \in CacheItem
    PROVE  LET new == AFPReplayAddReply(cache, item) IN
           /\ new \in Seq(CacheItem) /\ Len(new) <= CacheSize
           /\ \E d \in {0, 1} :
                 /\ Len(cache) + 1 = Len(new) + d /\ d <= Len(cache)
                 /\ \A j \in 1..Len(new) - 1 : new[j] = cache[j + d]
                 /\ new[Len(new)] = item
<1>0. Len(cache) \in Nat /\ CacheSize \in Nat \ {0}
  BY CacheAssumption
<1>1. CASE Len(cache) >= CacheSize
  <2>1. cache # <<>>
    BY <1>0, <1>1
  <2> DEFINE rest == Tail(cache)
  <2>2. /\ rest \in Seq(CacheItem) /\ Len(rest) = Len(cache) - 1
        /\ \A j \in 1..Len(rest) : rest[j] = cache[j + 1]
    BY <2>1, HeadTailProperties
  <2>3. AFPReplayAddReply(cache, item) = Append(rest, item)
    BY <1>1 DEF AFPReplayAddReply
  <2> HIDE DEF rest
  <2> DEFINE new == Append(rest, item)
  <2>4. /\ new \in Seq(CacheItem) /\ Len(new) = Len(rest) + 1
        /\ \A j \in 1..Len(rest) : new[j] = rest[j]
        /\ new[Len(rest) + 1] = item
    BY <2>2, AppendProperties
  <2> HIDE DEF new
  <2>5. Len(new) = Len(cache) /\ Len(new) <= CacheSize /\ 1 <= Len(cache)
    BY <1>0, <1>1, <2>2, <2>4
  <2>6. \A j \in 1..Len(new) - 1 : new[j] = cache[j + 1]
    BY <1>0, <2>2, <2>4
  <2>7. new[Len(new)] = item
    BY <2>4
  <2> QED
    BY <1>0, <2>3, <2>4, <2>5, <2>6, <2>7 DEF new
<1>2. CASE ~(Len(cache) >= CacheSize)
  <2> DEFINE new == Append(cache, item)
  <2>1. /\ new \in Seq(CacheItem) /\ Len(new) = Len(cache) + 1
        /\ \A j \in 1..Len(cache) : new[j] = cache[j]
        /\ new[Len(cache) + 1] = item
    BY AppendProperties
  <2>2. AFPReplayAddReply(cache, item) = new
    BY <1>2 DEF AFPReplayAddReply
  <2> HIDE DEF new
  <2>3. /\ Len(new) <= CacheSize /\ Len(cache) + 1 = Len(new) + 0 /\ 0 <= Len(cache)
        /\ \A j \in 1..Len(new) - 1 : new[j] = cache[j + 0]
        /\ new[Len(new)] = item
    BY <1>0, <1>2, <2>1
  <2> QED
    BY <2>1, <2>2, <2>3
<1> QED
  BY <1>1, <1>2

(* What the search finds is a reply that is cached.                        *)
LEMMA FoundIsCached ==
    ASSUME mReplayCache \in Seq(CacheItem), NEW p, InCache(p)
    PROVE  Found(p).op \in Op
<1> DEFINE S == {j \in DOMAIN mReplayCache : Matches(mReplayCache[j], p)}
           Q(j) == /\ Matches(mReplayCache[j], p)
                   /\ \A k \in 1..(j - 1) : ~Matches(mReplayCache[k], p)
<1>1. Len(mReplayCache) \in Nat /\ DOMAIN mReplayCache = 1..Len(mReplayCache)
  OBVIOUS
<1>2. S \in SUBSET Nat /\ S # {}
  BY <1>1 DEF InCache
<1>3. PICK m \in S : \A n \in S : m <= n
  BY <1>2, MinIsLeast
<1>4. m \in DOMAIN mReplayCache /\ Matches(mReplayCache[m], p)
  BY <1>3
<1>5. \A k \in 1..(m - 1) : ~Matches(mReplayCache[k], p)
  <2> SUFFICES ASSUME NEW k \in 1..(m - 1), Matches(mReplayCache[k], p) PROVE FALSE
    OBVIOUS
  <2>1. k \in DOMAIN mReplayCache /\ ~(m <= k)
    BY <1>1, <1>4
  <2> QED
    BY <1>3, <2>1
<1>6. Q(m)
  BY <1>4, <1>5
<1> HIDE DEF Q
<1>7. \E i \in DOMAIN mReplayCache : Found(p) = mReplayCache[i]
  <2> DEFINE i == CHOOSE j \in DOMAIN mReplayCache : Q(j)
  <2>1. i \in DOMAIN mReplayCache
    BY <1>4, <1>6
  <2>2. Found(p) = mReplayCache[i]
    BY DEF Found, Q
  <2> QED
    BY <2>1, <2>2
<1>8. \A i \in DOMAIN mReplayCache : mReplayCache[i] \in CacheItem
  OBVIOUS
<1> QED
  BY <1>7, <1>8 DEF CacheItem

-----------------------------------------------------------------------------
(* A step of the server *)

Ran(p) == [ops EXCEPT ![p.op].runsHere = @ + 1]
Sent(op) == Append(toClient, [id |-> mClientRequestID', op |-> op])
Cached(op) == AFPReplayAddReply(mReplayCache, [requestID |-> mClientRequestID', op |-> op])

(* A request out of sequence changes nothing but the queues and the fate   *)
(* of the session ...                                                      *)
PutAside(p) ==
    /\ ~InSequence(p)
    /\ UNCHANGED <<ops, mReplayCache, v33, mIsAuthenticated>>
    /\ outOfSequence' \in BOOLEAN
    /\ toClient' = toClient \/ \E o \in Op : toClient' = Sent(o)

(* ... and one in sequence is answered unless it is a tickle, and perhaps  *)
(* executed and its reply cached.                                          *)
Handled(p) ==
    /\ InSequence(p)
    /\ UNCHANGED outOfSequence
    /\ ops' = ops \/ ops' = Ran(p)
    /\ toClient' = IF mContinueRecv /\ KindOf(p) # "tickle" THEN Sent(p.op) ELSE toClient
    /\ mReplayCache' = IF v33' /\ IsAFP(KindOf(p)) THEN Cached(p.op) ELSE mReplayCache
    /\ \/ UNCHANGED <<v33, mIsAuthenticated>>
       \/ ~mIsAuthenticated /\ (mContinueRecv' => mIsAuthenticated')

Worked(p) ==
    /\ Take(p)
    /\ PutAside(p) \/ Handled(p)
    /\ mContinueRecv' \in BOOLEAN /\ mSessionOpen' \in BOOLEAN
    /\ mIsAuthenticated' \in BOOLEAN /\ v33' \in BOOLEAN
    /\ mContinueRecv' => mContinueRecv

LEMMA ServerWorks ==
    ASSUME IInv, ProcessReceivedBytes
    PROVE  Worked(Head(toServer))
<1> PICK p : p = Head(toServer)
  OBVIOUS
<1> SUFFICES Worked(p)
  OBVIOUS
<1>0. /\ mContinueRecv \in BOOLEAN /\ mSessionOpen \in BOOLEAN
      /\ mIsAuthenticated \in BOOLEAN /\ v33 \in BOOLEAN /\ outOfSequence \in BOOLEAN
      /\ mReplayCache \in Seq(CacheItem)
  BY DEF IInv, TypeOK
<1>1. CASE Server_Replay(p)
  <2>1. \E o \in Op : toClient' = Sent(o) \/ toClient' = toClient
    BY <1>0, <1>1, FoundIsCached DEF Server_Replay, Send, Sent
  <2>2. PutAside(p)
    BY <1>0, <1>1, <2>1 DEF Server_Replay, PutAside
  <2> QED
    BY <1>0, <1>1, <2>2 DEF Server_Replay, Worked
<1>2. CASE Server_BadRequestID(p)
  BY <1>0, <1>2 DEF Server_BadRequestID, Worked, PutAside
<1>3. CASE Server_NotOpen(p)
  <2>1. Handled(p)
    BY <1>0, <1>3 DEF Server_NotOpen, Handled, FormatAndSendReply, Send, Sent, Cached, IsAFP
  <2> QED
    BY <1>0, <1>3, <2>1 DEF Server_NotOpen, Worked
<1>4. CASE Server_OpenSession(p)
  <2>1. Handled(p)
    BY <1>0, <1>4 DEF Server_OpenSession, Handled, FormatAndSendReply, Send, Sent, Cached,
                      IsAFP, Executed, Ran
  <2> QED
    BY <1>0, <1>4, <2>1 DEF Server_OpenSession, Worked
<1>5. CASE Server_Goodbye(p)
  <2>1. Handled(p)
    BY <1>0, <1>5 DEF Server_Goodbye, Handled, FormatAndSendReply, Send, Sent, Cached,
                      IsAFP, Executed, Ran
  <2> QED
    BY <1>0, <1>5, <2>1 DEF Server_Goodbye, Worked
<1>6. CASE Server_Tickle(p)
  <2>1. Handled(p)
    BY <1>0, <1>6 DEF Server_Tickle, Handled, IsAFP, Executed, Ran
  <2> QED
    BY <1>0, <1>6, <2>1 DEF Server_Tickle, Worked
<1>7. CASE Server_ReadWrite(p)
  <2>1. Handled(p)
    BY <1>0, <1>7 DEF Server_ReadWrite, Handled, FormatAndSendReply, Send, Sent, Cached,
                      IsAFP, Executed, Ran
  <2> QED
    BY <1>0, <1>7, <2>1 DEF Server_ReadWrite, Worked
<1>8. CASE Server_Command(p)
  <2>1. Handled(p)
    BY <1>0, <1>8 DEF Server_Command, Handled, FormatAndSendReply, Send, Sent, Cached,
                      IsAFP, Executed, Ran
  <2>2. /\ mIsAuthenticated' \in BOOLEAN /\ v33' \in BOOLEAN
        /\ mContinueRecv' = (mContinueRecv /\ mIsAuthenticated')
    BY <1>0, <1>8 DEF Server_Command
  <2> QED
    BY <1>0, <1>8, <2>1, <2>2 DEF Server_Command, Worked
<1> QED
  BY <1>1, <1>2, <1>3, <1>4, <1>5, <1>6, <1>7, <1>8 DEF ProcessReceivedBytes

(* Which request it is.                                                    *)
LEMMA TheFirst ==
    ASSUME IInv, toServer # <<>>, NEW p, p = Head(toServer)
    PROVE  /\ p \in Packet /\ p.op \in DOMAIN ops /\ p.id = ops[p.op].id /\ p.id \in ID
           /\ p = toServer[1] /\ 1 \in DOMAIN toServer
           /\ Tail(toServer) \in Seq(Packet) /\ Len(Tail(toServer)) = Len(toServer) - 1
           /\ \A i \in DOMAIN Tail(toServer) :
                 Tail(toServer)[i] = toServer[i + 1] /\ i + 1 \in DOMAIN toServer
<1>1. toServer \in Seq(Packet) /\ Len(toServer) \in Nat /\ DOMAIN toServer = 1..Len(toServer)
  BY DEF IInv, TypeOK
<1>2. Len(toServer) > 0 /\ 1 \in DOMAIN toServer /\ p = toServer[1] /\ p \in Packet
  BY <1>1
<1> DEFINE rest == Tail(toServer)
<1>3. /\ rest \in Seq(Packet) /\ Len(rest) = Len(toServer) - 1
      /\ \A i \in 1..Len(rest) : rest[i] = toServer[i + 1]
  BY <1>1, HeadTailProperties
<1> HIDE DEF rest
<1>4. DOMAIN rest = 1..Len(rest) /\ \A i \in 1..Len(rest) : i + 1 \in DOMAIN toServer
  BY <1>1, <1>2, <1>3
<1>5. p.op \in DOMAIN ops /\ p.id = ops[p.op].id
  BY <1>2 DEF IInv, PacketsFit
<1>6. p.id \in ID
  BY <1>2 DEF Packet
<1> QED
  BY <1>2, <1>3, <1>4, <1>5, <1>6 DEF rest

(* Requests keep their ids, kinds, connections and answers.                *)
Alike(u) ==
    /\ ops'[u].id = ops[u].id /\ ops'[u].kind = ops[u].kind
    /\ ops'[u].connection = ops[u].connection /\ ops'[u].answer = ops[u].answer

LEMMA RanAlike ==
    ASSUME IInv, NEW p, p.op \in DOMAIN ops, ops' = ops \/ ops' = Ran(p)
    PROVE  /\ ops' \in Seq(Operation) /\ Len(ops') = Len(ops) /\ DOMAIN ops' = DOMAIN ops
           /\ \A u \in DOMAIN ops : Alike(u)
           /\ \A u \in DOMAIN ops : ops'[u].runsHere =
                 IF ops' # ops /\ u = p.op THEN ops[u].runsHere + 1 ELSE ops[u].runsHere
<1>1. ops \in Seq(Operation) /\ Len(ops) \in Nat /\ DOMAIN ops = 1..Len(ops)
  BY DEF IInv, TypeOK
<1>2. CASE ops' = ops
  BY <1>1, <1>2 DEF Alike
<1>3. CASE ops' # ops
  <2>1. PICK o \in Operation : o = ops[p.op]
    BY <1>1
  <2>2. o.runsHere + 1 \in Nat
    BY OperationFields
  <2>3. PICK new : new = [o EXCEPT !.runsHere = o.runsHere + 1]
    OBVIOUS
  <2>4. /\ new \in Operation
        /\ new = [id |-> o.id, kind |-> o.kind, connection |-> o.connection,
                  runsHere |-> o.runsHere + 1, answer |-> o.answer]
    <3>1. o.connection \in 1..MaxConnections /\ o.answer \in Op \cup {0}
      BY OperationFields
    <3> QED
      BY <2>2, <2>3, <3>1, OperationChanges
  <2>5. ops' = [ops EXCEPT ![p.op] = new]
    BY <1>3, <2>1, <2>3 DEF Ran
  <2>6. /\ ops' \in Seq(Operation) /\ Len(ops') = Len(ops) /\ DOMAIN ops' = DOMAIN ops
        /\ ops'[p.op] = new
        /\ \A u \in DOMAIN ops : u # p.op => ops'[u] = ops[u]
    BY <1>1, <2>4, <2>5
  <2>7. /\ new.id = o.id /\ new.kind = o.kind /\ new.connection = o.connection
        /\ new.answer = o.answer /\ new.runsHere = o.runsHere + 1
    BY <2>4
  <2> QED
    BY <1>3, <2>1, <2>6, <2>7 DEF Alike
<1> QED
  BY <1>2, <1>3

(* The counter and the replies of the step.                                *)
LEMMA WorkedFacts ==
    ASSUME IInv, toServer # <<>>, NEW p, p = Head(toServer), Worked(p)
    PROVE  /\ toServer' = Tail(toServer) /\ UNCHANGED <<nextID, connection, resends, replayed>>
           /\ mClientRequestID' \in ID
           /\ ops' \in Seq(Operation) /\ Len(ops') = Len(ops) /\ DOMAIN ops' = DOMAIN ops
           /\ \A u \in DOMAIN ops : Alike(u)
           /\ \A u \in DOMAIN ops : ops'[u].runsHere =
                 IF ops' # ops /\ u = p.op THEN ops[u].runsHere + 1 ELSE ops[u].runsHere
           /\ ops' # ops => InSequence(p)
<1>1. mClientRequestID \in ID
  BY DEF IInv, TypeOK
<1>2. p.id \in ID /\ p.op \in DOMAIN ops
  BY TheFirst
<1>3. mClientRequestID' = GetNextClientRequestID(p.id)
  BY DEF Worked, Take
<1>4. mClientRequestID' \in ID
  BY <1>1, <1>2, <1>3, NextID
<1>5. ops' = ops \/ ops' = Ran(p)
  BY DEF Worked, PutAside, Handled
<1>6. ops' # ops => InSequence(p)
  BY DEF Worked, PutAside, Handled
<1> QED
  BY <1>2, <1>4, <1>5, <1>6, RanAlike DEF Worked, Take

LEMMA WorkedType ==
    ASSUME IInv, toServer # <<>>, NEW p, p = Head(toServer), Worked(p)
    PROVE  TypeOK'
<1>0. /\ p.op \in Op /\ toClient \in Seq(Reply) /\ unchecked \in Nat
      /\ mReplayCache \in Seq(CacheItem) /\ Len(mReplayCache) <= CacheSize
      /\ outOfSequence \in BOOLEAN
  BY TheFirst DEF IInv, TypeOK, Packet
<1>1. mClientRequestID' \in ID
  BY WorkedFacts
<1>2. toClient' \in Seq(Reply)
  <2>1. \A o \in Op : [id |-> mClientRequestID', op |-> o] \in Reply
    BY <1>1 DEF Reply
  <2>2. \A o \in Op : Sent(o) \in Seq(Reply)
    <3> SUFFICES ASSUME NEW o \in Op PROVE Sent(o) \in Seq(Reply)
      OBVIOUS
    <3>1. PICK r \in Reply : r = [id |-> mClientRequestID', op |-> o]
      BY <2>1
    <3>2. Append(toClient, r) \in Seq(Reply)
      BY <1>0, AppendProperties
    <3> QED
      BY <3>1, <3>2 DEF Sent
  <2> QED
    BY <1>0, <2>2 DEF Worked, PutAside, Handled
<1>3. mReplayCache' \in Seq(CacheItem) /\ Len(mReplayCache') <= CacheSize
  <2>1. [requestID |-> mClientRequestID', op |-> p.op] \in CacheItem
    BY <1>0, <1>1 DEF CacheItem
  <2>2. Cached(p.op) \in Seq(CacheItem) /\ Len(Cached(p.op)) <= CacheSize
    BY <1>0, <2>1, CacheAdds DEF Cached
  <2> QED
    BY <1>0, <2>2 DEF Worked, PutAside, Handled
<1>4. toServer' \in Seq(Packet)
  BY TheFirst, WorkedFacts
<1>5. unchecked' \in Nat
  BY <1>0 DEF Worked, Take
<1>6. outOfSequence' \in BOOLEAN
  BY <1>0 DEF Worked, PutAside, Handled
<1>7. /\ mContinueRecv' \in BOOLEAN /\ mSessionOpen' \in BOOLEAN
      /\ mIsAuthenticated' \in BOOLEAN /\ v33' \in BOOLEAN
  BY DEF Worked
<1>8. ops' \in Seq(Operation) /\ Len(ops') <= MaxOps
  <2>1. Len(ops) <= MaxOps
    BY DEF IInv, TypeOK
  <2> QED
    BY <2>1, WorkedFacts
<1>9. /\ nextID' \in ID /\ connection' \in 1..MaxConnections
      /\ resends' \in 0..MaxResends /\ replayed' \in BOOLEAN
  <2>1. /\ nextID \in ID /\ connection \in 1..MaxConnections
        /\ resends \in 0..MaxResends /\ replayed \in BOOLEAN
    BY DEF IInv, TypeOK
  <2> QED
    BY <2>1, WorkedFacts
<1> QED
  BY <1>1, <1>2, <1>3, <1>4, <1>5, <1>6, <1>7, <1>8, <1>9 DEF TypeOK

LEMMA WorkedBegun ==
    ASSUME IInv, toServer # <<>>, NEW p, p = Head(toServer), Worked(p)
    PROVE  Begun' /\ Logged' /\ PacketsFit'
<1>1. Begun'
  <2>1. unchecked' = IF TakenUnchecked THEN unchecked + 1 ELSE unchecked
    BY DEF Worked, Take
  <2>2. unchecked \in Nat
    BY DEF IInv, TypeOK
  <2>3. unchecked = 0 => TakenUnchecked
    BY DEF IInv, Begun, TakenUnchecked
  <2>4. unchecked' # 0
    BY <2>1, <2>2, <2>3
  <2> QED
    BY <2>4 DEF Begun
<1>2. Logged'
  <2>1. Logged
    BY DEF IInv
  <2>2. CASE PutAside(p)
    BY <2>1, <2>2 DEF Worked, PutAside, Logged
  <2>3. CASE Handled(p)
    BY <2>1, <2>3 DEF Worked, Handled, Logged
  <2> QED
    BY <2>2, <2>3 DEF Worked
<1>3. PacketsFit'
  <2>1. PacketsFit
    BY DEF IInv
  <2>2. /\ toServer' = Tail(toServer) /\ connection' = connection
        /\ DOMAIN ops' = DOMAIN ops /\ \A u \in DOMAIN ops : Alike(u)
    BY WorkedFacts
  <2>3. \A i \in DOMAIN toServer' : toServer'[i] = toServer[i + 1] /\ i + 1 \in DOMAIN toServer
    BY <2>2, TheFirst
  <2> QED
    BY <2>1, <2>2, <2>3 DEF PacketsFit, Alike
<1> QED
  BY <1>1, <1>2, <1>3

(* Ids and numbers of executions are numbers.                              *)
LEMMA Numbers ==
    ASSUME IInv
    PROVE  /\ \A u \in DOMAIN ops : ops[u].id \in Nat /\ ops[u].runsHere \in Nat
           /\ \A i \in DOMAIN mReplayCache : mReplayCache[i].requestID \in Nat
<1>1. \A u \in DOMAIN ops : ops[u] \in Operation
  BY DEF IInv, TypeOK
<1>2. \A i \in DOMAIN mReplayCache : mReplayCache[i] \in CacheItem
  BY DEF IInv, TypeOK
<1>3. \A id \in ID : id \in Nat
  BY IDAssumption DEF ID
<1>4. \A c \in CacheItem : c.requestID \in ID
  BY DEF CacheItem
<1> QED
  BY <1>1, <1>2, <1>3, <1>4, OperationFields

(* Where the ids were ascending they still are: either the counter has     *)
(* gone up by one or this is the first request.                            *)
LEMMA StillBelow ==
    ASSUME IInv, toServer # <<>>, NEW p, p = Head(toServer), Worked(p), unchecked' <= 1
    PROVE  /\ \A u \in DOMAIN ops : ops[u].runsHere <= 1
           /\ \A u \in DOMAIN ops : ops[u].runsHere > 0 => ops[u].id < mClientRequestID'
           /\ \A i \in DOMAIN mReplayCache :
                 LET c == mReplayCache[i]
                 IN  /\ c.op \in DOMAIN ops /\ ops[c.op].id = c.requestID
                     /\ c.requestID < mClientRequestID'
           /\ \A i, j \in DOMAIN mReplayCache :
                 i < j => mReplayCache[i].requestID < mReplayCache[j].requestID
           /\ mContinueRecv =>
                 \A i \in DOMAIN mReplayCache, u \in DOMAIN ops :
                     ops[u].runsHere > 0 /\ IsAFP(ops[u].kind)
                        /\ ops[u].id > mReplayCache[i].requestID
                     => \E j \in DOMAIN mReplayCache : mReplayCache[j].op = u
<1>1. /\ unchecked' = IF TakenUnchecked THEN unchecked + 1 ELSE unchecked
      /\ mClientRequestID' = GetNextClientRequestID(p.id)
  BY DEF Worked, Take
<1>2. /\ unchecked \in Nat /\ mClientRequestID \in ID
      /\ ops \in Seq(Operation) /\ mReplayCache \in Seq(CacheItem)
  BY DEF IInv, TypeOK
<1>3. CASE TakenUnchecked
  <2>1. unchecked = 0
    BY <1>1, <1>2, <1>3
  <2>2. mReplayCache = <<>> /\ \A u \in DOMAIN ops : ops[u].runsHere = 0
    BY <2>1 DEF IInv, Begun
  <2>3. DOMAIN mReplayCache = {}
    BY <2>2
  <2> QED
    BY <2>2, <2>3
<1>4. CASE ~TakenUnchecked
  <2>1. unchecked <= 1
    BY <1>1, <1>4
  <2>2. /\ RunsUpTo(mClientRequestID) /\ CachedUpTo(mClientRequestID)
        /\ CacheCoversTheLatest
    BY <2>1 DEF IInv, Ascends
  <2>3. mClientRequestID' = mClientRequestID + 1 /\ mClientRequestID \in Nat
    BY <1>1, <1>2, <1>4, NextID, TheFirst, IDAssumption DEF ID
  <2>4. \A u \in DOMAIN ops : ops[u].id \in Nat /\ ops[u].runsHere \in Nat
    BY Numbers
  <2>5. \A i \in DOMAIN mReplayCache : mReplayCache[i].requestID \in Nat
    BY Numbers
  <2>6. /\ \A u \in DOMAIN ops : ops[u].runsHere <= 1
        /\ \A u \in DOMAIN ops : ops[u].runsHere > 0 => ops[u].id < mClientRequestID'
    BY <2>2, <2>3, <2>4 DEF RunsUpTo
  <2>7. /\ \A i \in DOMAIN mReplayCache :
              LET c == mReplayCache[i]
              IN  /\ c.op \in DOMAIN ops /\ ops[c.op].id = c.requestID
                  /\ c.requestID < mClientRequestID'
        /\ \A i, j \in DOMAIN mReplayCache :
              i < j => mReplayCache[i].requestID < mReplayCache[j].requestID
    BY <2>2, <2>3, <2>5 DEF CachedUpTo
  <2> QED
    BY <2>1, <2>2, <2>6, <2>7 DEF CacheCoversTheLatest
<1> QED
  BY <1>3, <1>4

LEMMA WorkedAscends ==
    ASSUME IInv, toServer # <<>>, NEW p, p = Head(toServer), Worked(p)
    PROVE  Ascends'
<1> SUFFICES ASSUME unchecked' <= 1
             PROVE  /\ RunsUpTo(mClientRequestID)' /\ CachedUpTo(mClientRequestID)'
                    /\ CacheCoversTheLatest'
  BY DEF Ascends
<1> PICK m : m = mClientRequestID'
  OBVIOUS
<1>1. p.op \in DOMAIN ops /\ p.id = ops[p.op].id /\ p.id \in ID
  BY TheFirst
<1>2. /\ ops \in Seq(Operation) /\ mReplayCache \in Seq(CacheItem)
      /\ Len(mReplayCache) <= CacheSize
  BY DEF IInv, TypeOK
<1>3. /\ m \in ID /\ m \in Nat
      /\ \A u \in DOMAIN ops : ops[u].id \in Nat /\ ops[u].runsHere \in Nat
      /\ \A i \in DOMAIN mReplayCache : mReplayCache[i].requestID \in Nat
  <2>1. m \in ID
    BY WorkedFacts
  <2> QED
    BY <2>1, Numbers, IDAssumption DEF ID
<1>4. /\ DOMAIN ops' = DOMAIN ops /\ \A u \in DOMAIN ops : Alike(u)
      /\ \A u \in DOMAIN ops : ops'[u].runsHere =
            IF ops' # ops /\ u = p.op THEN ops[u].runsHere + 1 ELSE ops[u].runsHere
      /\ ops' # ops => InSequence(p)
  BY WorkedFacts
<1>5. InSequence(p) => m = p.id
  BY DEF InSequence, Worked, Take
<1>6. /\ \A u \in DOMAIN ops : ops[u].runsHere <= 1
      /\ \A u \in DOMAIN ops : ops[u].runsHere > 0 => ops[u].id < m
      /\ \A i \in DOMAIN mReplayCache :
            LET c == mReplayCache[i]
            IN  c.op \in DOMAIN ops /\ ops[c.op].id = c.requestID /\ c.requestID < m
      /\ \A i, j \in DOMAIN mReplayCache :
            i < j => mReplayCache[i].requestID < mReplayCache[j].requestID
      /\ mContinueRecv =>
            \A i \in DOMAIN mReplayCache, u \in DOMAIN ops :
                ops[u].runsHere > 0 /\ IsAFP(ops[u].kind)
                   /\ ops[u].id > mReplayCache[i].requestID
                => \E j \in DOMAIN mReplayCache : mReplayCache[j].op = u
  BY StillBelow
<1>7. \A u \in DOMAIN ops :
         ops'[u].runsHere <= 1 /\ (ops'[u].runsHere > 0 => ops'[u].id <= m)
  <2> SUFFICES ASSUME NEW u \in DOMAIN ops
               PROVE  ops'[u].runsHere <= 1 /\ (ops'[u].runsHere > 0 => ops'[u].id <= m)
    OBVIOUS
  <2>1. ops'[u].id = ops[u].id
    BY <1>4 DEF Alike
  <2>2. CASE ops' # ops /\ u = p.op
    <3>1. m = ops[u].id
      BY <1>1, <1>4, <1>5, <2>2
    <3>2. ops[u].runsHere = 0
      BY <1>3, <1>6, <3>1
    <3> QED
      BY <1>3, <1>4, <2>1, <2>2, <3>1, <3>2
  <2>3. CASE ~(ops' # ops /\ u = p.op)
    BY <1>3, <1>4, <1>6, <2>1, <2>3
  <2> QED
    BY <2>2, <2>3
<1>8. RunsUpTo(mClientRequestID)'
  BY <1>4, <1>7 DEF RunsUpTo
<1>9. CASE mReplayCache' = mReplayCache
  <2>1. CachedUpTo(mClientRequestID)'
    <3>1. \A i \in DOMAIN mReplayCache' :
            LET c == mReplayCache'[i]
            IN c.op \in DOMAIN ops' /\ ops'[c.op].id = c.requestID /\ c.requestID <= m
      BY <1>3, <1>4, <1>6, <1>9 DEF Alike
    <3> QED
      BY <1>6, <1>9, <3>1 DEF CachedUpTo
  <2>2. CacheCoversTheLatest'
    <3> SUFFICES ASSUME mContinueRecv', NEW i \in DOMAIN mReplayCache, NEW u \in DOMAIN ops,
                        ops'[u].runsHere > 0, IsAFP(ops'[u].kind),
                        ops'[u].id > mReplayCache[i].requestID
                 PROVE  \E j \in DOMAIN mReplayCache : mReplayCache[j].op = u
      BY <1>4, <1>9 DEF CacheCoversTheLatest
    <3>1. mContinueRecv /\ Logged'
      BY WorkedBegun DEF Worked
    <3>2. v33'
      BY <1>2, <1>9, <3>1 DEF Logged
    <3>3. ~(ops' # ops /\ u = p.op)
      <4> SUFFICES ASSUME ops' # ops, u = p.op PROVE FALSE
        OBVIOUS
      <4>1. InSequence(p)
        BY <1>4
      <4>2. mReplayCache' = IF v33' /\ IsAFP(KindOf(p)) THEN Cached(p.op) ELSE mReplayCache
        BY <4>1 DEF Worked, PutAside, Handled
      <4>3. IsAFP(KindOf(p))
        BY <1>4 DEF KindOf, Alike
      <4>4. mReplayCache = Cached(p.op)
        BY <1>9, <3>2, <4>2, <4>3
      <4>5. [requestID |-> m, op |-> p.op] \in CacheItem
        BY <1>3, TheFirst DEF CacheItem, Packet
      <4>6. PICK item \in CacheItem : item = [requestID |-> m, op |-> p.op]
        BY <4>5
      <4>7. mReplayCache = AFPReplayAddReply(mReplayCache, item)
        BY <4>4, <4>6 DEF Cached
      <4>8. PICK d \in {0, 1} :
              /\ Len(mReplayCache) + 1 = Len(mReplayCache) + d /\ d <= Len(mReplayCache)
              /\ mReplayCache[Len(mReplayCache)] = item
        <5> PICK new : new = AFPReplayAddReply(mReplayCache, item)
          OBVIOUS
        <5>1. \E d \in {0, 1} :
                /\ Len(mReplayCache) + 1 = Len(new) + d /\ d <= Len(mReplayCache)
                /\ new[Len(new)] = item
          BY <1>2, CacheAdds
        <5>2. new = mReplayCache
          BY <4>7
        <5> QED
          BY <5>1, <5>2
      <4>9. Len(mReplayCache) \in DOMAIN mReplayCache
        BY <1>2, <4>8
      <4> QED
        BY <1>3, <1>6, <4>6, <4>8, <4>9
    <3>4. ops[u].runsHere > 0 /\ IsAFP(ops[u].kind) /\ ops[u].id > mReplayCache[i].requestID
      BY <1>4, <3>3 DEF Alike
    <3> QED
      BY <1>6, <3>1, <3>4
  <2> QED
    BY <1>8, <2>1, <2>2
<1>10. CASE mReplayCache' # mReplayCache
  <2>1. /\ InSequence(p) /\ m = p.id /\ mReplayCache' = Cached(p.op)
        /\ mContinueRecv' => mContinueRecv
    BY <1>5, <1>10 DEF Worked, PutAside, Handled
  <2>2. [requestID |-> m, op |-> p.op] \in CacheItem
    BY <1>3, TheFirst DEF CacheItem, Packet
  <2>3. PICK item \in CacheItem : item = [requestID |-> m, op |-> p.op]
    BY <2>2
  <2>4. mReplayCache' = AFPReplayAddReply(mReplayCache, item)
    BY <2>1, <2>3 DEF Cached
  <2> PICK new : new = mReplayCache'
    OBVIOUS
  <2>5. new \in Seq(CacheItem)
    BY <1>2, <2>4, CacheAdds
  <2>6. PICK d \in {0, 1} :
          /\ Len(mReplayCache) + 1 = Len(new) + d /\ d <= Len(mReplayCache)
          /\ \A j \in 1..Len(new) - 1 : new[j] = mReplayCache[j + d]
          /\ new[Len(new)] = item
    BY <1>2, <2>4, CacheAdds
  <2>7. /\ DOMAIN new = 1..Len(new) /\ Len(new) \in DOMAIN new
        /\ DOMAIN mReplayCache = 1..Len(mReplayCache)
        /\ \A j \in DOMAIN new : j # Len(new) =>
              j + d \in DOMAIN mReplayCache /\ new[j] = mReplayCache[j + d]
    BY <1>2, <2>5, <2>6
  <2>8. item.op = p.op /\ item.requestID = m
    BY <2>3
  <2>9. \A j \in DOMAIN new : new[j].op \in DOMAIN ops /\ ops[new[j].op].id = new[j].requestID
                              /\ new[j].requestID <= m /\ (j # Len(new) => new[j].requestID < m)
    BY <1>1, <1>3, <1>6, <2>1, <2>6, <2>7, <2>8
  <2>10. \A i, j \in DOMAIN new : i < j => new[i].requestID < new[j].requestID
    <3> SUFFICES ASSUME NEW i \in DOMAIN new, NEW j \in DOMAIN new, i < j
                 PROVE  new[i].requestID < new[j].requestID
      OBVIOUS
    <3>0. i # Len(new)
      BY <2>5, <2>7
    <3>1. CASE j = Len(new)
      BY <2>6, <2>8, <2>9, <3>0, <3>1
    <3>2. CASE j # Len(new)
      <4>1. i + d < j + d
        BY <2>6, <2>7
      <4> QED
        BY <1>6, <2>7, <3>0, <3>2, <4>1
    <3> QED
      BY <3>1, <3>2
  <2>11. CachedUpTo(mClientRequestID)'
    <3>1. \A i \in DOMAIN mReplayCache' :
            LET c == mReplayCache'[i]
            IN c.op \in DOMAIN ops' /\ ops'[c.op].id = c.requestID /\ c.requestID <= m
      BY <1>4, <2>9 DEF Alike
    <3> QED
      BY <2>10, <3>1 DEF CachedUpTo
  <2>12. CacheCoversTheLatest'
    <3> SUFFICES ASSUME mContinueRecv', NEW i \in DOMAIN new, NEW u \in DOMAIN ops,
                        ops'[u].runsHere > 0, IsAFP(ops'[u].kind),
                        ops'[u].id > new[i].requestID
                 PROVE  \E j \in DOMAIN new : new[j].op = u
      BY <1>4 DEF CacheCoversTheLatest
    <3>1. CASE u = p.op
      BY <2>6, <2>7, <2>8, <3>1
    <3>2. CASE u # p.op
      <4>1. ops[u].runsHere > 0 /\ IsAFP(ops[u].kind) /\ ops[u].id > new[i].requestID
        BY <1>4, <3>2 DEF Alike
      <4>2. ops[u].id < m
        BY <1>6, <4>1
      <4>3. i # Len(new)
        BY <1>3, <2>6, <2>8, <4>1, <4>2
      <4>4. i + d \in DOMAIN mReplayCache /\ new[i] = mReplayCache[i + d]
        BY <2>7, <4>3
      <4>5. PICK k \in DOMAIN mReplayCache : mReplayCache[k].op = u
        BY <1>6, <2>1, <4>1, <4>4
      <4>6. mReplayCache[k].requestID = ops[u].id
        BY <1>6, <4>5
      <4>7. ~(k < i + d)
        BY <1>3, <1>6, <4>1, <4>4, <4>6
      <4>8. k # i + d
        BY <1>3, <4>1, <4>4, <4>6
      <4>9. k - d \in DOMAIN new /\ k - d # Len(new) /\ (k - d) + d = k
        BY <1>2, <2>5, <2>6, <2>7, <4>3, <4>5, <4>7, <4>8
      <4>10. new[k - d] = mReplayCache[k]
        BY <2>7, <4>9
      <4> QED
        BY <4>5, <4>9, <4>10
    <3> QED
      BY <3>1, <3>2
  <2> QED
    BY <1>8, <2>11, <2>12
<1> QED
  BY <1>9, <1>10

(* The request of a client that sends none again is the one behind the     *)
(* last one taken, and it is in sequence.                                  *)
LEMMA InSequenceIfInOrder ==
    ASSUME IInv, toServer # <<>>, NEW p, p = Head(toServer), Worked(p), ~replayed
    PROVE  /\ p.op = Taken + 1 /\ Taken \in Nat /\ Taken' = p.op
           /\ InSequence(p) /\ mClientRequestID' = p.id /\ Handled(p)
<1>0. /\ ops \in Seq(Operation) /\ toServer \in Seq(Packet) /\ mClientRequestID \in ID
      /\ Len(toServer) <= Len(ops) /\ InOrder
  BY DEF IInv, TypeOK
<1>1. /\ p.op \in DOMAIN ops /\ p.id = ops[p.op].id /\ p.id \in ID
      /\ p = toServer[1] /\ 1 \in DOMAIN toServer
  BY TheFirst
<1>2. Taken \in Nat /\ p.op = Taken + 1 /\ Taken < Len(ops)
  BY <1>0, <1>1 DEF Taken, InOrder
<1>5. InSequence(p)
  <2>1. CASE Taken \in DOMAIN ops /\ Here(Taken)
    <3>1. mClientRequestID = ops[Taken].id
      BY <1>0, <2>1 DEF InOrder
    <3>2. NextAfter(Taken) = Successor(ops[Taken].id)
      BY <1>0, <2>1 DEF InOrder
    <3>3. p.id = Successor(mClientRequestID)
      BY <1>1, <1>2, <3>1, <3>2 DEF NextAfter
    <3> QED
      BY <1>0, <1>1, <3>3, NextID DEF InSequence
  <2>2. CASE ~(Taken \in DOMAIN ops /\ Here(Taken))
    <3>1. mClientRequestID = 0
      BY <1>0, <2>2 DEF InOrder
    <3> QED
      BY <1>0, <1>1, <3>1, NextID DEF InSequence, TakenUnchecked
  <2> QED
    BY <2>1, <2>2
<1>6. mClientRequestID' = p.id /\ Handled(p)
  BY <1>5 DEF Worked, Take, InSequence, PutAside
<1>7. Taken' = p.op
  <2>1. Len(ops') = Len(ops) /\ Len(toServer') = Len(toServer) - 1
    BY TheFirst, WorkedFacts
  <2> QED
    BY <1>0, <1>2, <2>1 DEF Taken
<1> QED
  BY <1>2, <1>5, <1>6, <1>7

LEMMA WorkedInOrder ==
    ASSUME IInv, toServer # <<>>, NEW p, p = Head(toServer), Worked(p), ~replayed
    PROVE  Len(toServer') <= Len(ops') /\ InOrder' /\ ~outOfSequence'
<1>0. /\ ops \in Seq(Operation) /\ toServer \in Seq(Packet)
      /\ Len(toServer) <= Len(ops) /\ InOrder /\ ~outOfSequence
  BY DEF IInv, TypeOK
<1>1. /\ p.op = Taken + 1 /\ Taken \in Nat /\ Taken' = p.op
      /\ mClientRequestID' = p.id /\ Handled(p)
  BY InSequenceIfInOrder
<1>2. p.op \in DOMAIN ops /\ p.id = ops[p.op].id
  BY TheFirst
<1>3. /\ connection' = connection /\ nextID' = nextID
      /\ Len(ops') = Len(ops) /\ DOMAIN ops' = DOMAIN ops /\ \A u \in DOMAIN ops : Alike(u)
      /\ toServer' = Tail(toServer)
  BY WorkedFacts
<1>4. /\ Len(toServer') = Len(toServer) - 1
      /\ \A i \in DOMAIN toServer' : toServer'[i] = toServer[i + 1] /\ i + 1 \in DOMAIN toServer
      /\ DOMAIN toServer' = 1..Len(toServer')
  BY <1>3, TheFirst
<1>5. \A u \in DOMAIN ops : Here(u)' <=> Here(u)
  BY <1>3 DEF Here, Alike
<1>6. \A i \in DOMAIN toServer' : toServer'[i].op = Taken' + i
  <2> SUFFICES ASSUME NEW i \in DOMAIN toServer' PROVE toServer'[i].op = Taken' + i
    OBVIOUS
  <2>1. toServer[i + 1].op = Taken + (i + 1)
    BY <1>0, <1>4 DEF InOrder
  <2>2. i \in Nat
    BY <1>0, <1>4
  <2> QED
    BY <1>1, <1>4, <2>1, <2>2
<1>7. \A u \in DOMAIN ops : Here(u) => NextAfter(u)' = Successor(ops[u].id)
  <2> SUFFICES ASSUME NEW u \in DOMAIN ops, Here(u)
               PROVE  NextAfter(u)' = Successor(ops[u].id)
    OBVIOUS
  <2>1. NextAfter(u) = Successor(ops[u].id)
    BY <1>0 DEF InOrder
  <2>2. u # Len(ops) => u + 1 \in DOMAIN ops
    BY <1>0
  <2> QED
    BY <1>3, <2>1, <2>2 DEF NextAfter, Alike
<1>8. \A u \in DOMAIN ops : u > Taken' => Here(u) /\ ops[u].answer = 0
  BY <1>0, <1>1 DEF InOrder
<1>9. \A u, w \in DOMAIN ops : u <= w /\ Here(u) => Here(w)
  BY <1>0 DEF InOrder
<1>10. Taken' \in DOMAIN ops /\ Here(Taken') /\ mClientRequestID' = ops[Taken'].id
  <2>1. p.op > Taken
    BY <1>1
  <2> QED
    BY <1>0, <1>1, <1>2, <2>1 DEF InOrder
<1>11. InOrder'
  <2>1. \A u, w \in DOMAIN ops' : u <= w /\ Here(u)' => Here(w)'
    BY <1>3, <1>5, <1>9
  <2>2. \A u \in DOMAIN ops' : u > Taken' => Here(u)' /\ ops'[u].answer = 0
    BY <1>3, <1>5, <1>8 DEF Alike
  <2>3. \A u \in DOMAIN ops' : Here(u)' => NextAfter(u)' = Successor(ops'[u].id)
    BY <1>3, <1>5, <1>7 DEF Alike
  <2>4. mClientRequestID' = ops'[Taken'].id
    BY <1>3, <1>10 DEF Alike
  <2>5. Taken' \in DOMAIN ops' /\ ops'[Taken'].connection = connection'
    BY <1>3, <1>10 DEF Here, Alike
  <2> QED
    BY <1>6, <2>1, <2>2, <2>3, <2>4, <2>5 DEF InOrder, Here
<1>12. ~outOfSequence'
  BY <1>0, <1>1 DEF Handled
<1>13. Len(toServer') <= Len(ops')
  BY <1>0, <1>3, <1>4
<1> QED
  BY <1>11, <1>12, <1>13

(* A reply that is sent is the reply to the last request taken.            *)
LEMMA WorkedAnswers ==
    ASSUME IInv, toServer # <<>>, NEW p, p = Head(toServer), Worked(p), ~replayed
    PROVE  Answers'
<1>0. /\ ops \in Seq(Operation) /\ toServer \in Seq(Packet) /\ toClient \in Seq(Reply)
      /\ InOrder /\ Answers
  BY DEF IInv, TypeOK
<1>1. /\ p.op = Taken + 1 /\ Taken \in Nat /\ Taken' = p.op
      /\ mClientRequestID' = p.id /\ Handled(p)
  BY InSequenceIfInOrder
<1>2. p.op \in DOMAIN ops /\ p.id = ops[p.op].id /\ p.id \in ID /\ p \in Packet
  BY TheFirst
<1>3. /\ connection' = connection /\ DOMAIN ops' = DOMAIN ops
      /\ \A u \in DOMAIN ops : Alike(u)
  BY WorkedFacts
<1>4. DOMAIN ops = 1..Len(ops) /\ Len(ops) \in Nat
  BY <1>0
<1>5. \A u \in DOMAIN ops : (Here(u)' <=> Here(u)) /\ (Waits(u)' <=> Waits(u))
  BY <1>3 DEF Waits, Here, Alike
<1>6. Here(p.op) /\ ops[p.op].answer = 0
  <2>1. p.op > Taken
    BY <1>1
  <2> QED
    BY <1>0, <1>2, <2>1 DEF InOrder
<1>7. Waits(p.op) <=> KindOf(p) # "tickle"
  BY <1>6 DEF Waits, KindOf
<1>8. \A u \in DOMAIN ops' : Here(u)' => ops'[u].answer \in {0, u}
  BY <1>0, <1>3, <1>5 DEF Answers, Alike
<1>9. mContinueRecv' => mContinueRecv
  BY DEF Worked
<1>10. \A u \in DOMAIN ops : u <= Taken' <=> u <= Taken \/ u = p.op
  BY <1>1, <1>4
<1>11. CASE mContinueRecv /\ KindOf(p) # "tickle"
  <2>1. toClient' = Sent(p.op)
    BY <1>1, <1>11 DEF Handled
  <2>2. PICK r \in Reply : r = [id |-> mClientRequestID', op |-> p.op]
    BY <1>1, <1>2 DEF Reply, Packet
  <2>3. r.op = p.op /\ r.id = ops[p.op].id
    BY <1>1, <1>2, <2>2
  <2> PICK new : new = toClient'
    OBVIOUS
  <2> DEFINE n == Len(toClient)
  <2>4. /\ new \in Seq(Reply) /\ Len(new) = n + 1
        /\ \A i \in 1..n : new[i] = toClient[i]
        /\ new[n + 1] = r
    BY <1>0, <2>1, <2>2, AppendProperties DEF Sent
  <2>5. /\ DOMAIN new = 1..n + 1 /\ DOMAIN toClient = 1..n /\ n \in Nat
    BY <1>0, <2>4
  <2> HIDE DEF n
  <2>6. \A i \in DOMAIN new : i = n + 1 \/ (i \in DOMAIN toClient /\ new[i] = toClient[i])
    BY <2>4, <2>5
  <2>7. \A i \in DOMAIN toClient : i \in DOMAIN new /\ new[i] = toClient[i]
    BY <2>4, <2>5
  <2>8. \A i \in DOMAIN toClient : toClient[i].op < p.op
    BY <1>0, <1>1, <1>4 DEF Answers
  <2>9. \A i, j \in DOMAIN new : i < j => new[i].op < new[j].op
    <3> SUFFICES ASSUME NEW i \in DOMAIN new, NEW j \in DOMAIN new, i < j
                 PROVE  new[i].op < new[j].op
      OBVIOUS
    <3>1. i \in DOMAIN toClient /\ new[i] = toClient[i]
      BY <2>5, <2>6
    <3> QED
      BY <1>0, <2>3, <2>4, <2>6, <2>8, <3>1 DEF Answers
  <2>10. \A i \in DOMAIN new :
           /\ new[i].op \in DOMAIN ops /\ new[i].op <= Taken' /\ Waits(new[i].op)
           /\ new[i].id = ops[new[i].op].id
    <3> SUFFICES ASSUME NEW i \in DOMAIN new
                 PROVE  /\ new[i].op \in DOMAIN ops /\ new[i].op <= Taken' /\ Waits(new[i].op)
                        /\ new[i].id = ops[new[i].op].id
      OBVIOUS
    <3>1. CASE i = n + 1
      BY <1>1, <1>2, <1>7, <1>11, <2>3, <2>4, <3>1
    <3>2. CASE i # n + 1
      BY <1>0, <1>10, <2>6, <3>2 DEF Answers
    <3> QED
      BY <3>1, <3>2
  <2>11. \A u \in DOMAIN ops : Waits(u) =>
            \/ \E i \in DOMAIN new : new[i].op = u
            \/ \A i \in DOMAIN new : new[i].op < u
    <3> SUFFICES ASSUME NEW u \in DOMAIN ops, Waits(u), ~ \E i \in DOMAIN new : new[i].op = u
                 PROVE  \A i \in DOMAIN new : new[i].op < u
      OBVIOUS
    <3>1. u # p.op
      BY <2>3, <2>4, <2>5
    <3>2. ~ \E i \in DOMAIN toClient : toClient[i].op = u
      BY <2>7
    <3>3. ~(u <= Taken)
      BY <1>0, <1>11, <3>2 DEF Answers
    <3>4. u > p.op
      BY <1>1, <1>4, <3>1, <3>3
    <3> QED
      BY <1>1, <1>4, <2>3, <2>4, <2>6, <2>8, <2>10, <3>4
  <2>12. \A u \in DOMAIN ops : Waits(u) /\ u <= Taken' => \E i \in DOMAIN new : new[i].op = u
    <3> SUFFICES ASSUME NEW u \in DOMAIN ops, Waits(u), u <= Taken'
                 PROVE  \E i \in DOMAIN new : new[i].op = u
      OBVIOUS
    <3>1. CASE u = p.op
      BY <2>3, <2>4, <2>5, <3>1
    <3>2. CASE u # p.op
      BY <1>0, <1>10, <1>11, <2>7, <3>2 DEF Answers
    <3> QED
      BY <3>1, <3>2
  <2>13. \A i \in DOMAIN new : Waits(new[i].op)' /\ new[i].id = ops'[new[i].op].id
    BY <1>3, <1>5, <2>10 DEF Alike
  <2> QED
    BY <1>3, <1>5, <1>8, <2>9, <2>10, <2>11, <2>12, <2>13 DEF Answers
<1>12. CASE ~(mContinueRecv /\ KindOf(p) # "tickle")
  <2>1. toClient' = toClient
    BY <1>1, <1>12 DEF Handled
  <2>2. mContinueRecv' =>
           \A u \in DOMAIN ops : Waits(u) /\ u <= Taken' =>
               \E i \in DOMAIN toClient : toClient[i].op = u
    BY <1>0, <1>7, <1>9, <1>10, <1>12 DEF Answers
  <2>3. \A i \in DOMAIN toClient :
           LET r == toClient[i]
           IN  r.op \in DOMAIN ops /\ r.op <= Taken' /\ Waits(r.op) /\ r.id = ops[r.op].id
    BY <1>0, <1>10 DEF Answers
  <2> PICK q : q = toClient
    OBVIOUS
  <2>4. \A i \in DOMAIN q : Waits(q[i].op)' /\ q[i].id = ops'[q[i].op].id
    BY <1>3, <1>5, <2>3 DEF Alike
  <2>5. /\ \A i, j \in DOMAIN toClient : i < j => toClient[i].op < toClient[j].op
        /\ \A u \in DOMAIN ops : Waits(u) =>
              \/ \E i \in DOMAIN toClient : toClient[i].op = u
              \/ \A i \in DOMAIN toClient : toClient[i].op < u
    BY <1>0 DEF Answers
  <2> QED
    BY <1>3, <1>5, <1>8, <2>1, <2>2, <2>3, <2>4, <2>5 DEF Answers
<1> QED
  BY <1>11, <1>12

LEMMA ServerStep ==
    ASSUME IInv, ProcessReceivedBytes PROVE IInv'
<1>1. toServer # <<>>
  BY DEF ProcessReceivedBytes
<1>2. PICK p : p = Head(toServer)
  OBVIOUS
<1>3. Worked(p)
  BY <1>2, ServerWorks
<1>4. replayed' = replayed
  BY <1>1, <1>2, <1>3, WorkedFacts
<1>5. TypeOK' /\ PacketsFit' /\ Begun' /\ Logged' /\ Ascends'
  BY <1>1, <1>2, <1>3, WorkedType, WorkedBegun, WorkedAscends
<1>6. ~replayed' => Len(toServer') <= Len(ops') /\ InOrder' /\ Answers' /\ ~outOfSequence'
  BY <1>1, <1>2, <1>3, <1>4, WorkedInOrder, WorkedAnswers
<1> QED
  BY <1>5, <1>6 DEF IInv

-----------------------------------------------------------------------------
(* Steps of the client and the network *)

(* What the server and its cache hold does not depend on answers and       *)
(* connections, nor on requests that have not been executed.               *)
LEMMA RunsKept ==
    ASSUME IInv, DOMAIN ops \subseteq DOMAIN ops', UNCHANGED <<serverVars, unchecked>>,
           \A u \in DOMAIN ops : /\ ops'[u].id = ops[u].id /\ ops'[u].kind = ops[u].kind
                                 /\ ops'[u].runsHere = ops[u].runsHere,
           \A u \in DOMAIN ops' \ DOMAIN ops : ops'[u].runsHere = 0
    PROVE  Begun' /\ Logged' /\ Ascends'
<1>1. Begun /\ Logged /\ Ascends
  BY DEF IInv
<1>2. /\ mClientRequestID' = mClientRequestID /\ mReplayCache' = mReplayCache
      /\ mContinueRecv' = mContinueRecv /\ mIsAuthenticated' = mIsAuthenticated
      /\ v33' = v33 /\ unchecked' = unchecked
  BY DEF serverVars
<1>3. Begun'
  BY <1>1, <1>2 DEF Begun
<1>4. Logged'
  BY <1>1, <1>2 DEF Logged
<1>5. ASSUME unchecked <= 1, RunsUpTo(mClientRequestID) PROVE RunsUpTo(mClientRequestID)'
  <2> SUFFICES ASSUME NEW u \in DOMAIN ops'
               PROVE  ops'[u].runsHere <= 1
                      /\ (ops'[u].runsHere > 0 => ops'[u].id <= mClientRequestID)
    BY <1>2 DEF RunsUpTo
  <2>1. CASE u \in DOMAIN ops
    BY <1>5, <2>1 DEF RunsUpTo
  <2>2. CASE u \notin DOMAIN ops
    BY <2>2
  <2> QED
    BY <2>1, <2>2
<1>6. ASSUME CachedUpTo(mClientRequestID) PROVE CachedUpTo(mClientRequestID)'
  BY <1>2, <1>6 DEF CachedUpTo
<1>7. ASSUME CacheCoversTheLatest PROVE CacheCoversTheLatest'
  <2> SUFFICES ASSUME unchecked <= 1, mContinueRecv, NEW i \in DOMAIN mReplayCache,
                      NEW u \in DOMAIN ops', ops'[u].runsHere > 0, IsAFP(ops'[u].kind),
                      ops'[u].id > mReplayCache[i].requestID
               PROVE  \E j \in DOMAIN mReplayCache : mReplayCache[j].op = u
    BY <1>2 DEF CacheCoversTheLatest
  <2>1. u \in DOMAIN ops
    OBVIOUS
  <2> QED
    BY <1>7, <2>1 DEF CacheCoversTheLatest
<1>8. Ascends'
  BY <1>1, <1>2, <1>5, <1>6, <1>7 DEF Ascends
<1> QED
  BY <1>3, <1>4, <1>8

LEMMA SendFacts ==
    ASSUME IInv, NEW kind \in Kind, Client_Send(kind)
    PROVE  LET n == Len(ops) + 1 IN
           /\ n \in Op /\ n \notin DOMAIN ops
           /\ ops' \in Seq(Operation) /\ Len(ops') = n /\ DOMAIN ops' = DOMAIN ops \cup {n}
           /\ \A u \in DOMAIN ops : ops'[u] = ops[u]
           /\ ops'[n].id = nextID /\ ops'[n].connection = connection
           /\ ops'[n].runsHere = 0 /\ ops'[n].answer = 0
           /\ toServer' \in Seq(Packet) /\ Len(toServer') = Len(toServer) + 1
           /\ \A i \in DOMAIN toServer' :
                 \/ i \in DOMAIN toServer /\ toServer'[i] = toServer[i]
                 \/ /\ i = Len(toServer) + 1
                    /\ toServer'[i].op = n /\ toServer'[i].id = nextID
<1> DEFINE n == Len(ops) + 1
           o == [id |-> nextID, kind |-> kind, connection |-> connection,
                 runsHere |-> 0, answer |-> 0]
           p == [id |-> nextID, op |-> n]
<1>0. /\ ops \in Seq(Operation) /\ toServer \in Seq(Packet) /\ nextID \in ID
      /\ connection \in 1..MaxConnections /\ Len(ops) < MaxOps /\ MaxOps \in Nat
  BY BoundAssumption DEF IInv, TypeOK, Client_Send
<1>1. n \in Op /\ n \notin DOMAIN ops
  BY <1>0 DEF Op
<1>2. o \in Operation
  BY <1>0 DEF Operation
<1>3. p \in Packet
  BY <1>0, <1>1 DEF Packet
<1>4. ops' = Append(ops, o) /\ toServer' = Append(toServer, p)
  BY DEF Client_Send
<1>5. /\ o.id = nextID /\ o.connection = connection /\ o.runsHere = 0 /\ o.answer = 0
      /\ p.op = n /\ p.id = nextID
  OBVIOUS
<1> HIDE DEF o, p
<1>6. /\ ops' \in Seq(Operation) /\ Len(ops') = n /\ DOMAIN ops' = DOMAIN ops \cup {n}
      /\ \A u \in DOMAIN ops : ops'[u] = ops[u]
      /\ ops'[n] = o
  BY <1>0, <1>2, <1>4, AppendRange
<1>7. /\ toServer' \in Seq(Packet) /\ Len(toServer') = Len(toServer) + 1
      /\ DOMAIN toServer' = DOMAIN toServer \cup {Len(toServer) + 1}
      /\ \A i \in DOMAIN toServer : toServer'[i] = toServer[i]
      /\ toServer'[Len(toServer) + 1] = p
  BY <1>0, <1>3, <1>4, AppendRange
<1> QED
  BY <1>1, <1>5, <1>6, <1>7

LEMMA SendStep ==
    ASSUME IInv, NEW kind \in Kind, Client_Send(kind) PROVE IInv'
<1> PICK n : n = Len(ops) + 1
  OBVIOUS
<1>0. /\ ops \in Seq(Operation) /\ toServer \in Seq(Packet) /\ nextID \in ID
      /\ DOMAIN ops = 1..Len(ops) /\ Len(ops) \in Nat
      /\ Len(toServer) \in Nat /\ DOMAIN toServer = 1..Len(toServer)
  BY DEF IInv, TypeOK
<1>1. /\ n \in Op /\ n \notin DOMAIN ops
      /\ ops' \in Seq(Operation) /\ Len(ops') = n /\ DOMAIN ops' = DOMAIN ops \cup {n}
      /\ \A u \in DOMAIN ops : ops'[u] = ops[u]
      /\ ops'[n].id = nextID /\ ops'[n].connection = connection
      /\ ops'[n].runsHere = 0 /\ ops'[n].answer = 0
      /\ toServer' \in Seq(Packet) /\ Len(toServer') = Len(toServer) + 1
      /\ \A i \in DOMAIN toServer' :
            \/ i \in DOMAIN toServer /\ toServer'[i] = toServer[i]
            \/ /\ i = Len(toServer) + 1
               /\ toServer'[i].op = n /\ toServer'[i].id = nextID
  BY SendFacts
<1>2. /\ nextID' = Successor(nextID) /\ connection' = connection /\ toClient' = toClient
      /\ resends' = resends /\ unchecked' = unchecked /\ replayed' = replayed
      /\ outOfSequence' = outOfSequence /\ UNCHANGED serverVars /\ Len(ops) < MaxOps
  BY DEF Client_Send, historyVars
<1>3. TypeOK'
  <2>1. Len(ops') <= MaxOps
    BY <1>0, <1>1, <1>2, BoundAssumption
  <2>2. nextID' \in ID
    BY <1>0, <1>2, SuccessorType
  <2> QED
    BY <1>1, <1>2, <2>1, <2>2 DEF IInv, TypeOK, serverVars
<1>4. PacketsFit'
  <2>1. PacketsFit
    BY DEF IInv
  <2>2. \A i \in DOMAIN toServer' :
           toServer'[i].op \in DOMAIN ops' /\ toServer'[i].id = ops'[toServer'[i].op].id
    BY <1>1, <2>1 DEF PacketsFit
  <2>3. \A u \in DOMAIN ops' : ops'[u].connection <= connection'
    <3>1. connection \in Nat
      BY DEF IInv, TypeOK
    <3> QED
      BY <1>1, <1>2, <2>1, <3>1 DEF PacketsFit
  <2> QED
    BY <2>2, <2>3 DEF PacketsFit
<1>5. Begun' /\ Logged' /\ Ascends'
  <2>1. \A u \in DOMAIN ops' \ DOMAIN ops : ops'[u].runsHere = 0
    BY <1>1
  <2>2. UNCHANGED <<serverVars, unchecked>>
    BY <1>2
  <2> QED
    BY <1>1, <2>1, <2>2, RunsKept
<1>6. ASSUME ~replayed
      PROVE  Len(toServer') <= Len(ops') /\ InOrder' /\ Answers' /\ ~outOfSequence'
  <2>0. Len(toServer) <= Len(ops) /\ InOrder /\ Answers /\ ~outOfSequence
    BY <1>6 DEF IInv
  <2>1. Taken' = Taken /\ Taken \in Nat /\ Taken <= Len(ops) /\ n = Len(ops) + 1
    BY <1>0, <1>1, <2>0 DEF Taken
  <2>2. (\A u \in DOMAIN ops : (Here(u)' <=> Here(u)) /\ (Waits(u)' <=> Waits(u))) /\ Here(n)'
    BY <1>1, <1>2 DEF Waits, Here
  <2>3. \A i \in DOMAIN toServer' : toServer'[i].op = Taken' + i
    BY <1>0, <1>1, <2>0, <2>1 DEF InOrder, Taken
  <2>4. \A u, w \in DOMAIN ops' : u <= w /\ Here(u)' => Here(w)'
    <3> SUFFICES ASSUME NEW u \in DOMAIN ops', NEW w \in DOMAIN ops', u <= w, Here(u)'
                 PROVE  Here(w)'
      OBVIOUS
    <3>1. CASE w = n
      BY <2>2, <3>1
    <3>2. CASE w # n
      <4>1. u \in DOMAIN ops /\ w \in DOMAIN ops
        BY <1>0, <1>1, <2>1, <3>2
      <4> QED
        BY <2>0, <2>2, <4>1 DEF InOrder
    <3> QED
      BY <3>1, <3>2
  <2>5. \A u \in DOMAIN ops' : u > Taken' => Here(u)' /\ ops'[u].answer = 0
    BY <1>1, <2>0, <2>1, <2>2 DEF InOrder
  <2>6. \A u \in DOMAIN ops' : Here(u)' => NextAfter(u)' = Successor(ops'[u].id)
    <3> SUFFICES ASSUME NEW u \in DOMAIN ops', Here(u)'
                 PROVE  NextAfter(u)' = Successor(ops'[u].id)
      OBVIOUS
    <3>1. CASE u = n
      BY <1>1, <1>2, <3>1 DEF NextAfter
    <3>2. CASE u # n
      <4>1. u \in DOMAIN ops /\ NextAfter(u) = Successor(ops[u].id) /\ ops'[u].id = ops[u].id
        BY <1>1, <2>0, <2>2, <3>2 DEF InOrder
      <4>2. CASE u = Len(ops)
        BY <1>0, <1>1, <2>1, <4>1, <4>2 DEF NextAfter
      <4>3. CASE u # Len(ops)
        <5>1. u + 1 \in DOMAIN ops /\ u # Len(ops')
          BY <1>0, <1>1, <2>1, <4>1, <4>3
        <5> QED
          BY <1>1, <4>1, <4>3, <5>1 DEF NextAfter
      <4> QED
        BY <4>2, <4>3
    <3> QED
      BY <3>1, <3>2
  <2>7. Taken' \in DOMAIN ops' <=> Taken \in DOMAIN ops
    BY <1>1, <2>1
  <2>8. Taken \in DOMAIN ops =>
           /\ ops'[Taken'].connection = ops[Taken].connection
           /\ ops'[Taken'].id = ops[Taken].id
    BY <1>1, <2>1
  <2>9. mClientRequestID' = mClientRequestID /\ mContinueRecv' = mContinueRecv
    BY <1>2 DEF serverVars
  <2>10. InOrder'
    <3>1. (Taken' \in DOMAIN ops' /\ ops'[Taken'].connection = connection')
             <=> (Taken \in DOMAIN ops /\ Here(Taken))
      BY <1>2, <2>7, <2>8 DEF Here
    <3>2. IF Taken' \in DOMAIN ops' /\ ops'[Taken'].connection = connection'
          THEN mClientRequestID' = ops'[Taken'].id ELSE mClientRequestID' = 0
      BY <2>0, <2>8, <2>9, <3>1 DEF InOrder
    <3> QED
      BY <2>3, <2>4, <2>5, <2>6, <3>2 DEF InOrder, Here
  <2> PICK q : q = toClient
    OBVIOUS
  <2>11. \A i \in DOMAIN q : /\ q[i].op \in DOMAIN ops /\ q[i].op <= Taken' /\ q[i].op < n
                             /\ Waits(q[i].op)' /\ q[i].id = ops'[q[i].op].id
    <3>1. \A i \in DOMAIN q : /\ q[i].op \in DOMAIN ops /\ q[i].op <= Taken
                              /\ Waits(q[i].op) /\ q[i].id = ops[q[i].op].id
      BY <2>0 DEF Answers
    <3> QED
      BY <1>0, <1>1, <2>1, <2>2, <3>1
  <2>12. \A u \in DOMAIN ops' : Waits(u)' => \/ \E i \in DOMAIN q : q[i].op = u
                                             \/ \A i \in DOMAIN q : q[i].op < u
    BY <1>1, <2>0, <2>2, <2>11 DEF Answers
  <2>13. mContinueRecv => \A u \in DOMAIN ops' : Waits(u)' /\ u <= Taken' =>
                              \E i \in DOMAIN q : q[i].op = u
    <3>1. ~(n <= Taken')
      BY <2>1
    <3> QED
      BY <1>1, <2>0, <2>1, <2>2, <3>1 DEF Answers
  <2>14. \A u \in DOMAIN ops' : Here(u)' => ops'[u].answer \in {0, u}
    BY <1>1, <2>0, <2>2 DEF Answers
  <2>15. \A i, j \in DOMAIN q : i < j => q[i].op < q[j].op
    BY <2>0 DEF Answers
  <2>16. Answers'
    BY <1>1, <1>2, <2>9, <2>11, <2>12, <2>13, <2>14, <2>15 DEF Answers
  <2> QED
    BY <1>0, <1>1, <1>2, <2>0, <2>1, <2>10, <2>16
<1> QED
  BY <1>2, <1>3, <1>4, <1>5, <1>6 DEF IInv

LEMMA ResendStep ==
    ASSUME IInv, NEW w, Client_Resend(w) PROVE IInv'
<1>0. /\ ops \in Seq(Operation) /\ toServer \in Seq(Packet)
      /\ connection \in 1..MaxConnections /\ w \in DOMAIN ops /\ Len(ops) <= MaxOps
  BY DEF IInv, TypeOK, Client_Resend
<1>1. PICK o \in Operation : o = ops[w]
  BY <1>0
<1>2. PICK new : new = [o EXCEPT !.connection = connection]
  OBVIOUS
<1>3. /\ new \in Operation
      /\ new = [id |-> o.id, kind |-> o.kind, connection |-> connection,
                runsHere |-> o.runsHere, answer |-> o.answer]
  BY <1>0, <1>2, OperationFields, OperationChanges
<1>4. ops' = [ops EXCEPT ![w] = new]
  BY <1>1, <1>2 DEF Client_Resend
<1>5. /\ ops' \in Seq(Operation) /\ Len(ops') = Len(ops) /\ DOMAIN ops' = DOMAIN ops
      /\ ops'[w] = new /\ \A u \in DOMAIN ops : u # w => ops'[u] = ops[u]
  BY <1>0, <1>3, <1>4
<1>6. /\ new.id = o.id /\ new.kind = o.kind /\ new.connection = connection
      /\ new.runsHere = o.runsHere
  BY <1>3
<1>7. \A u \in DOMAIN ops : /\ ops'[u].id = ops[u].id /\ ops'[u].kind = ops[u].kind
                            /\ ops'[u].runsHere = ops[u].runsHere
  BY <1>1, <1>5, <1>6
<1>8. /\ nextID' = nextID /\ connection' = connection /\ toClient' = toClient
      /\ resends' = resends + 1 /\ resends < MaxResends /\ unchecked' = unchecked
      /\ replayed' = TRUE /\ outOfSequence' = outOfSequence /\ UNCHANGED serverVars
  BY DEF Client_Resend
<1>9. PICK p : p = [id |-> o.id, op |-> w]
  OBVIOUS
<1>10. w \in Op
  BY <1>0, BoundAssumption DEF Op
<1>11. p \in Packet /\ p.op = w /\ p.id = ops[w].id
  BY <1>1, <1>9, <1>10, OperationFields DEF Packet
<1>12. toServer' = Append(toServer, p)
  BY <1>1, <1>9 DEF Client_Resend
<1>13. /\ toServer' \in Seq(Packet)
       /\ DOMAIN toServer' = DOMAIN toServer \cup {Len(toServer) + 1}
       /\ \A i \in DOMAIN toServer : toServer'[i] = toServer[i]
       /\ toServer'[Len(toServer) + 1] = p
  BY <1>0, <1>11, <1>12, AppendRange
<1>14. TypeOK'
  <2>1. resends' \in 0..MaxResends
    BY <1>8, BoundAssumption DEF IInv, TypeOK
  <2> QED
    BY <1>5, <1>8, <1>13, <2>1 DEF IInv, TypeOK, serverVars
<1>15. PacketsFit'
  <2>1. PacketsFit
    BY DEF IInv
  <2>2. \A i \in DOMAIN toServer' :
           toServer'[i].op \in DOMAIN ops' /\ toServer'[i].id = ops'[toServer'[i].op].id
    BY <1>0, <1>5, <1>7, <1>11, <1>13, <2>1 DEF PacketsFit
  <2>3. \A u \in DOMAIN ops' : ops'[u].connection <= connection'
    <3>1. connection \in Nat
      BY <1>0
    <3> QED
      BY <1>0, <1>5, <1>6, <1>8, <2>1, <3>1 DEF PacketsFit
  <2> QED
    BY <2>2, <2>3 DEF PacketsFit
<1>16. Begun' /\ Logged' /\ Ascends'
  <2>1. UNCHANGED <<serverVars, unchecked>>
    BY <1>8
  <2> QED
    BY <1>5, <1>7, <2>1, RunsKept
<1> QED
  BY <1>8, <1>14, <1>15, <1>16 DEF IInv

(* The client takes a reply; at most one of its requests is answered.      *)
Chosen(r) ==
    LET waiting == {u \in DOMAIN ops : /\ ops[u].id = r.id /\ ops[u].answer = 0
                                       /\ ops[u].connection = connection
                                       /\ ops[u].kind # "tickle"}
    IN  {u \in waiting : \A w \in waiting : u <= w}

LEMMA ReceiveFacts ==
    ASSUME IInv, Client_Receive
    PROVE  LET r == Head(toClient) IN
           /\ r \in Reply /\ r = toClient[1] /\ 1 \in DOMAIN toClient
           /\ toClient' \in Seq(Reply)
           /\ \A i \in DOMAIN toClient' : toClient'[i] = toClient[i + 1]
                                          /\ i \in Nat /\ i + 1 \in DOMAIN toClient
           /\ \A i \in DOMAIN toClient : i = 1 \/ i - 1 \in DOMAIN toClient'
           /\ ops' \in Seq(Operation) /\ Len(ops') = Len(ops) /\ DOMAIN ops' = DOMAIN ops
           /\ \A u \in DOMAIN ops :
                 /\ ops'[u].id = ops[u].id /\ ops'[u].kind = ops[u].kind
                 /\ ops'[u].connection = ops[u].connection
                 /\ ops'[u].runsHere = ops[u].runsHere
                 /\ ops'[u].answer = IF u \in Chosen(r) THEN r.op ELSE ops[u].answer
<1> PICK r : r = Head(toClient)
  OBVIOUS
<1>0. /\ ops \in Seq(Operation) /\ toClient \in Seq(Reply) /\ toClient # <<>>
      /\ Len(ops) \in Nat /\ DOMAIN ops = 1..Len(ops)
      /\ Len(toClient) \in Nat /\ DOMAIN toClient = 1..Len(toClient)
  BY DEF IInv, TypeOK, Client_Receive
<1>1. r \in Reply /\ r = toClient[1] /\ 1 \in DOMAIN toClient
  BY <1>0
<1> DEFINE rest == Tail(toClient)
<1>2. /\ rest \in Seq(Reply) /\ Len(rest) = Len(toClient) - 1
      /\ \A i \in 1..Len(rest) : rest[i] = toClient[i + 1]
  BY <1>0, HeadTailProperties
<1> HIDE DEF rest
<1>3. toClient' = rest
  BY DEF Client_Receive, rest
<1>4. /\ DOMAIN rest = 1..Len(rest)
      /\ \A i \in DOMAIN rest : i \in Nat /\ i + 1 \in DOMAIN toClient
      /\ \A i \in DOMAIN toClient : i = 1 \/ i - 1 \in DOMAIN rest
  BY <1>0, <1>2
<1> DEFINE new(u) == IF u \in Chosen(r) THEN [ops[u] EXCEPT !.answer = r.op] ELSE ops[u]
<1>5. ops' = [u \in DOMAIN ops |-> new(u)]
  <2> DEFINE waiting == {u \in DOMAIN ops : /\ ops[u].id = r.id /\ ops[u].answer = 0
                                            /\ ops[u].connection = connection
                                            /\ ops[u].kind # "tickle"}
  <2>1. \A u : u \in Chosen(r) <=> u \in waiting /\ \A w \in waiting : u <= w
    BY DEF Chosen
  <2>2. ops' = [u \in DOMAIN ops |->
                  IF u \in waiting /\ \A w \in waiting : u <= w
                  THEN [ops[u] EXCEPT !.answer = r.op] ELSE ops[u]]
    BY DEF Client_Receive
  <2> HIDE DEF waiting
  <2> QED
    BY <2>1, <2>2
<1>6. r.op \in Op
  BY <1>1 DEF Reply
<1>7. ASSUME NEW u \in DOMAIN ops
      PROVE  /\ new(u) \in Operation /\ new(u).id = ops[u].id /\ new(u).kind = ops[u].kind
             /\ new(u).connection = ops[u].connection
             /\ new(u).runsHere = ops[u].runsHere
             /\ new(u).answer = IF u \in Chosen(r) THEN r.op ELSE ops[u].answer
  <2>1. PICK o \in Operation : o = ops[u]
    BY <1>0
  <2>2. PICK x : x = [o EXCEPT !.answer = r.op]
    OBVIOUS
  <2>3. r.op \in Op \cup {0}
    BY <1>6
  <2>4. /\ x \in Operation
        /\ x = [id |-> o.id, kind |-> o.kind, connection |-> o.connection,
                runsHere |-> o.runsHere, answer |-> r.op]
    BY <2>2, <2>3, OperationFields, OperationChanges
  <2>5. /\ x.id = o.id /\ x.kind = o.kind /\ x.connection = o.connection
        /\ x.runsHere = o.runsHere /\ x.answer = r.op
    BY <2>4
  <2>6. new(u) = IF u \in Chosen(r) THEN x ELSE o
    BY <2>1, <2>2
  <2> QED
    BY <2>1, <2>4, <2>5, <2>6
<1> HIDE DEF new
<1>8. ops' \in [1..Len(ops) -> Operation] /\ \A u \in DOMAIN ops : ops'[u] = new(u)
  BY <1>0, <1>5, <1>7
<1>9. ops' \in Seq(Operation) /\ Len(ops') = Len(ops) /\ DOMAIN ops' = DOMAIN ops
  BY <1>0, <1>8
<1> QED
  BY <1>1, <1>2, <1>3, <1>4, <1>7, <1>8, <1>9

(* Of a client that sends none again, it is the request replied to.        *)
LEMMA ChosenIsAnswered ==
    ASSUME IInv, ~replayed, NEW r, 1 \in DOMAIN toClient, r = toClient[1]
    PROVE  Chosen(r) = {r.op} /\ r.op \in DOMAIN ops /\ r.op <= Taken
<1>0. /\ ops \in Seq(Operation) /\ toClient \in Seq(Reply) /\ Answers
      /\ Len(ops) \in Nat /\ DOMAIN ops = 1..Len(ops)
      /\ Len(toClient) \in Nat /\ DOMAIN toClient = 1..Len(toClient)
  BY DEF IInv, TypeOK
<1> DEFINE waiting == {u \in DOMAIN ops : /\ ops[u].id = r.id /\ ops[u].answer = 0
                                          /\ ops[u].connection = connection
                                          /\ ops[u].kind # "tickle"}
<1>1. /\ r.op \in DOMAIN ops /\ r.op <= Taken /\ Waits(r.op) /\ r.id = ops[r.op].id
  BY <1>0 DEF Answers
<1>2. r.op \in waiting
  BY <1>1 DEF Waits, Here
<1>3. \A u \in waiting : u \in DOMAIN ops /\ Waits(u)
  BY DEF Waits, Here
<1> HIDE DEF waiting
<1>4. \A u \in waiting : r.op <= u
  <2> SUFFICES ASSUME NEW u \in waiting PROVE r.op <= u
    OBVIOUS
  <2>1. CASE \E i \in DOMAIN toClient : toClient[i].op = u
    <3>1. PICK i \in DOMAIN toClient : toClient[i].op = u
      BY <2>1
    <3>2. i = 1 \/ 1 < i
      BY <1>0
    <3>3. 1 < i => toClient[1].op < toClient[i].op
      BY <1>0 DEF Answers
    <3> QED
      BY <1>0, <1>1, <1>3, <3>1, <3>2, <3>3
  <2>2. CASE \A i \in DOMAIN toClient : toClient[i].op < u
    BY <1>0, <1>1, <1>3, <2>2
  <2> QED
    BY <1>0, <1>3, <2>1, <2>2 DEF Answers
<1>5. \A u \in waiting : u <= r.op => u = r.op
  BY <1>0, <1>1, <1>3, <1>4
<1>6. Chosen(r) = {u \in waiting : \A w \in waiting : u <= w}
  BY DEF Chosen, waiting
<1>7. \A u : u \in Chosen(r) <=> u = r.op
  BY <1>2, <1>4, <1>5, <1>6
<1> QED
  BY <1>1, <1>7

LEMMA ReceiveStep ==
    ASSUME IInv, Client_Receive PROVE IInv'
<1> PICK r : r = Head(toClient)
  OBVIOUS
<1>0. /\ ops \in Seq(Operation) /\ toClient \in Seq(Reply) /\ toServer \in Seq(Packet)
      /\ Len(ops) \in Nat /\ DOMAIN ops = 1..Len(ops)
  BY DEF IInv, TypeOK
<1>1. /\ r \in Reply /\ r = toClient[1] /\ 1 \in DOMAIN toClient
      /\ toClient' \in Seq(Reply)
      /\ \A i \in DOMAIN toClient' : toClient'[i] = toClient[i + 1]
                                     /\ i \in Nat /\ i + 1 \in DOMAIN toClient
      /\ \A i \in DOMAIN toClient : i = 1 \/ i - 1 \in DOMAIN toClient'
      /\ ops' \in Seq(Operation) /\ Len(ops') = Len(ops) /\ DOMAIN ops' = DOMAIN ops
      /\ \A u \in DOMAIN ops :
            /\ ops'[u].id = ops[u].id /\ ops'[u].kind = ops[u].kind
            /\ ops'[u].connection = ops[u].connection
            /\ ops'[u].runsHere = ops[u].runsHere
            /\ ops'[u].answer = IF u \in Chosen(r) THEN r.op ELSE ops[u].answer
  BY ReceiveFacts
<1>2. /\ toServer' = toServer /\ nextID' = nextID /\ connection' = connection
      /\ resends' = resends /\ unchecked' = unchecked /\ replayed' = replayed
      /\ outOfSequence' = outOfSequence /\ UNCHANGED serverVars
  BY DEF Client_Receive, historyVars
<1>3. TypeOK'
  BY <1>1, <1>2 DEF IInv, TypeOK, serverVars
<1>4. PacketsFit'
  BY <1>1, <1>2 DEF IInv, PacketsFit
<1>5. Begun' /\ Logged' /\ Ascends'
  <2>1. UNCHANGED <<serverVars, unchecked>>
    BY <1>2
  <2>2. \A u \in DOMAIN ops' \ DOMAIN ops : ops'[u].runsHere = 0
    BY <1>1
  <2> QED
    BY <1>1, <2>1, <2>2, RunsKept
<1>6. ASSUME ~replayed
      PROVE  Len(toServer') <= Len(ops') /\ InOrder' /\ Answers' /\ ~outOfSequence'
  <2>0. Len(toServer) <= Len(ops) /\ InOrder /\ Answers /\ ~outOfSequence
    BY <1>6 DEF IInv
  <2>1. Chosen(r) = {r.op} /\ r.op \in DOMAIN ops /\ r.op <= Taken
    BY <1>1, <1>6, ChosenIsAnswered
  <2>2. Taken' = Taken /\ Taken \in Int
    BY <1>0, <1>1, <1>2 DEF Taken
  <2>3. \A u \in DOMAIN ops : ops'[u].answer = IF u = r.op THEN r.op ELSE ops[u].answer
    BY <1>1, <2>1
  <2>4. \A u \in DOMAIN ops : Here(u)' <=> Here(u)
    BY <1>1, <1>2 DEF Here
  <2>5. \A u \in DOMAIN ops : Waits(u)' <=> Waits(u) /\ u # r.op
    <3>1. r.op # 0
      BY <1>0, <2>1
    <3> QED
      BY <1>1, <2>3, <2>4, <3>1 DEF Waits
  <2>6. \A u \in DOMAIN ops : NextAfter(u)' = NextAfter(u)
    <3> SUFFICES ASSUME NEW u \in DOMAIN ops PROVE NextAfter(u)' = NextAfter(u)
      OBVIOUS
    <3>1. u # Len(ops) => u + 1 \in DOMAIN ops
      BY <1>0
    <3> QED
      BY <1>1, <1>2, <3>1 DEF NextAfter
  <2>7. InOrder'
    <3>1. \A i \in DOMAIN toServer' : toServer'[i].op = Taken' + i
      BY <1>2, <2>0, <2>2 DEF InOrder
    <3>2. \A u, w \in DOMAIN ops' : u <= w /\ Here(u)' => Here(w)'
      BY <1>1, <2>0, <2>4 DEF InOrder
    <3>3. \A u \in DOMAIN ops' : u > Taken' => Here(u)' /\ ops'[u].answer = 0
      <4> SUFFICES ASSUME NEW u \in DOMAIN ops, u > Taken PROVE Here(u)' /\ ops'[u].answer = 0
        BY <1>1, <2>2
      <4>1. u # r.op
        BY <1>0, <2>1, <2>2
      <4> QED
        BY <2>0, <2>3, <2>4, <4>1 DEF InOrder
    <3>4. \A u \in DOMAIN ops' : Here(u)' => NextAfter(u)' = Successor(ops'[u].id)
      BY <1>1, <2>0, <2>4, <2>6 DEF InOrder
    <3>5. mClientRequestID' = mClientRequestID
      BY <1>2 DEF serverVars
    <3>6. IF Taken' \in DOMAIN ops' /\ ops'[Taken'].connection = connection'
          THEN mClientRequestID' = ops'[Taken'].id ELSE mClientRequestID' = 0
      BY <1>1, <1>2, <2>0, <2>2, <3>5 DEF InOrder, Here
    <3> QED
      BY <3>1, <3>2, <3>3, <3>4, <3>6 DEF InOrder, Here
  <2> PICK q, new : q = toClient /\ new = toClient'
    OBVIOUS
  <2>8. /\ q \in Seq(Reply) /\ Len(q) \in Nat /\ DOMAIN q = 1..Len(q) /\ 1 \in DOMAIN q
        /\ q[1] = r
        /\ \A i \in DOMAIN new : new[i] = q[i + 1] /\ i + 1 \in DOMAIN q /\ i \in Nat /\ 1 < i + 1
        /\ \A i \in DOMAIN q : i = 1 \/ (i - 1 \in DOMAIN new /\ new[i - 1] = q[i])
    <3>1. q \in Seq(Reply) /\ Len(q) \in Nat /\ DOMAIN q = 1..Len(q)
      BY <1>0
    <3>2. \A i \in DOMAIN new : new[i] = q[i + 1] /\ i + 1 \in DOMAIN q /\ i \in Nat
      BY <1>1
    <3>3. \A i \in DOMAIN new : i # 0
      <4>1. new \in Seq(Reply)
        BY <1>1
      <4> QED
        BY <4>1
    <3>4. \A i \in DOMAIN new : 1 < i + 1
      BY <3>2, <3>3
    <3>5. \A i \in DOMAIN q : i = 1 \/ i - 1 \in DOMAIN new
      BY <1>1
    <3>6. \A i \in DOMAIN q : (i - 1) + 1 = i
      BY <3>1
    <3> QED
      BY <1>1, <3>1, <3>2, <3>4, <3>5, <3>6
  <2>9. \A i, j \in DOMAIN q : i < j => q[i].op < q[j].op
    BY <2>0 DEF Answers
  <2>10. \A i, j \in DOMAIN new : i < j => new[i].op < new[j].op
    <3> SUFFICES ASSUME NEW i \in DOMAIN new, NEW j \in DOMAIN new, i < j
                 PROVE  new[i].op < new[j].op
      OBVIOUS
    <3>1. i + 1 < j + 1
      BY <2>8
    <3> QED
      BY <2>8, <2>9, <3>1
  <2>11. \A i \in DOMAIN q : /\ q[i].op \in DOMAIN ops /\ q[i].op <= Taken
                             /\ Waits(q[i].op) /\ q[i].id = ops[q[i].op].id
    BY <2>0 DEF Answers
  <2>12. \A i \in DOMAIN new :
            /\ new[i].op \in DOMAIN ops /\ new[i].op <= Taken'
            /\ new[i].op # r.op /\ Waits(new[i].op)' /\ new[i].id = ops'[new[i].op].id
    <3> SUFFICES ASSUME NEW i \in DOMAIN new
                 PROVE  /\ new[i].op \in DOMAIN ops /\ new[i].op <= Taken'
                        /\ new[i].op # r.op /\ Waits(new[i].op)'
                        /\ new[i].id = ops'[new[i].op].id
      OBVIOUS
    <3>1. new[i].op # r.op
      <4>1. q[1].op < q[i + 1].op
        BY <2>8, <2>9
      <4>2. r.op \in Nat
        BY <1>0, <2>1
      <4> QED
        BY <2>8, <4>1, <4>2
    <3>2. PICK u : u = new[i].op
      OBVIOUS
    <3>3. u \in DOMAIN ops /\ u <= Taken /\ Waits(u) /\ new[i].id = ops[u].id
      BY <2>8, <2>11, <3>2
    <3>4. Waits(u)' /\ ops'[u].id = ops[u].id
      BY <1>1, <2>5, <3>1, <3>2, <3>3
    <3> QED
      BY <2>2, <3>1, <3>2, <3>3, <3>4
  <2>13. \A u \in DOMAIN ops : (\E i \in DOMAIN q : q[i].op = u) /\ u # r.op
                                  => \E i \in DOMAIN new : new[i].op = u
    <3> SUFFICES ASSUME NEW i \in DOMAIN q, q[i].op # r.op
                 PROVE  \E j \in DOMAIN new : new[j].op = q[i].op
      OBVIOUS
    <3> QED
      BY <2>8
  <2>14. \A u \in DOMAIN ops' : Waits(u)' => \/ \E i \in DOMAIN new : new[i].op = u
                                             \/ \A i \in DOMAIN new : new[i].op < u
    <3> SUFFICES ASSUME NEW u \in DOMAIN ops, Waits(u), u # r.op,
                        ~ \E i \in DOMAIN new : new[i].op = u
                 PROVE  \A i \in DOMAIN new : new[i].op < u
      BY <1>1, <2>5
    <3>1. \A i \in DOMAIN q : q[i].op < u
      BY <2>0, <2>13 DEF Answers
    <3> QED
      BY <2>8, <3>1
  <2>15. mContinueRecv' => \A u \in DOMAIN ops' : Waits(u)' /\ u <= Taken' =>
                              \E i \in DOMAIN new : new[i].op = u
    <3>1. mContinueRecv' = mContinueRecv
      BY <1>2 DEF serverVars
    <3> QED
      BY <1>1, <2>0, <2>2, <2>5, <2>13, <3>1 DEF Answers
  <2>16. \A u \in DOMAIN ops' : Here(u)' => ops'[u].answer \in {0, u}
    BY <1>1, <2>0, <2>3, <2>4 DEF Answers
  <2>17. Answers'
    BY <1>1, <2>10, <2>12, <2>14, <2>15, <2>16 DEF Answers
  <2> QED
    BY <1>1, <1>2, <2>0, <2>7, <2>17
<1> QED
  BY <1>2, <1>3, <1>4, <1>5, <1>6 DEF IInv

(* On a new connection nothing has been sent, taken or executed.           *)
LEMMA ReconnectStep ==
    ASSUME IInv, Reconnect PROVE IInv'
<1>0. /\ ops \in Seq(Operation) /\ Len(ops) \in Nat /\ DOMAIN ops = 1..Len(ops)
      /\ connection \in 1..MaxConnections /\ Len(ops) <= MaxOps
  BY DEF IInv, TypeOK
<1>1. \A u \in DOMAIN ops : ops[u] \in Operation
  BY <1>0
<1> DEFINE new(u) == [ops[u] EXCEPT !.runsHere = 0]
<1>2. ASSUME NEW u \in DOMAIN ops
      PROVE  /\ new(u) \in Operation /\ new(u).connection = ops[u].connection
             /\ new(u).runsHere = 0
  <2>1. PICK o \in Operation : o = ops[u]
    BY <1>1
  <2>2. PICK x : x = [o EXCEPT !.runsHere = 0]
    OBVIOUS
  <2>3. /\ x \in Operation
        /\ x = [id |-> o.id, kind |-> o.kind, connection |-> o.connection,
                runsHere |-> 0, answer |-> o.answer]
    BY <2>2, OperationFields, OperationChanges
  <2> QED
    BY <2>1, <2>2, <2>3
<1>3. ops' = [u \in DOMAIN ops |-> new(u)]
  BY DEF Reconnect
<1> HIDE DEF new
<1>4. ops' \in [1..Len(ops) -> Operation] /\ \A u \in DOMAIN ops : ops'[u] = new(u)
  BY <1>0, <1>2, <1>3
<1>5. /\ ops' \in Seq(Operation) /\ Len(ops') = Len(ops) /\ DOMAIN ops' = DOMAIN ops
      /\ \A u \in DOMAIN ops : ops'[u].connection = ops[u].connection /\ ops'[u].runsHere = 0
  BY <1>0, <1>2, <1>4
<1>6. /\ toServer' = <<>> /\ toClient' = <<>> /\ mReplayCache' = <<>>
      /\ mClientRequestID' = 0 /\ unchecked' = 0 /\ replayed' = FALSE
      /\ outOfSequence' = FALSE /\ v33' = FALSE /\ mIsAuthenticated' = FALSE
      /\ connection' = connection + 1 /\ connection < MaxConnections
  BY DEF Reconnect
<1>7. TypeOK'
  <2>1. connection' \in 1..MaxConnections
    BY <1>0, <1>6, BoundAssumption
  <2>2. mClientRequestID' \in ID
    BY <1>6, IDAssumption DEF ID
  <2>3. nextID' \in ID
    BY FirstAssumption DEF Reconnect
  <2>4. mReplayCache' \in Seq(CacheItem) /\ Len(mReplayCache') <= CacheSize
    BY <1>6, CacheAssumption
  <2>5. /\ mContinueRecv' = TRUE /\ mSessionOpen' = FALSE /\ resends' = resends
    BY DEF Reconnect
  <2>6. resends' \in 0..MaxResends
    BY <2>5 DEF IInv, TypeOK
  <2>7. toServer' \in Seq(Packet) /\ toClient' \in Seq(Reply)
    BY <1>6
  <2>8. ops' \in Seq(Operation) /\ Len(ops') <= MaxOps
    BY <1>0, <1>5
  <2>9. /\ mContinueRecv' \in BOOLEAN /\ mSessionOpen' \in BOOLEAN
        /\ mIsAuthenticated' \in BOOLEAN /\ v33' \in BOOLEAN
        /\ replayed' \in BOOLEAN /\ outOfSequence' \in BOOLEAN /\ unchecked' \in Nat
    BY <1>6, <2>5
  <2> QED
    BY <2>1, <2>2, <2>3, <2>4, <2>6, <2>7, <2>8, <2>9 DEF TypeOK
<1>8. \A u \in DOMAIN ops' : ops'[u].connection <= connection /\ ops'[u].connection \in Nat
  <2>1. \A u \in DOMAIN ops : ops[u].connection <= connection /\ ops[u].connection \in Nat
    BY <1>1, OperationFields DEF IInv, PacketsFit
  <2> QED
    BY <1>5, <2>1
<1>9. DOMAIN toServer' = {} /\ DOMAIN toClient' = {} /\ DOMAIN mReplayCache' = {}
  BY <1>6
<1>10. PacketsFit'
  <2>1. \A u \in DOMAIN ops' : ops'[u].connection <= connection'
    BY <1>0, <1>6, <1>8
  <2> QED
    BY <1>9, <2>1 DEF PacketsFit
<1>11. Begun' /\ Logged'
  BY <1>5, <1>6 DEF Begun, Logged
<1>12. Ascends'
  <2>1. RunsUpTo(mClientRequestID)'
    BY <1>5 DEF RunsUpTo
  <2>2. CachedUpTo(mClientRequestID)' /\ CacheCoversTheLatest'
    BY <1>9 DEF CachedUpTo, CacheCoversTheLatest
  <2> QED
    BY <2>1, <2>2 DEF Ascends
<1>13. \A u \in DOMAIN ops' : ops'[u].connection # connection'
  BY <1>0, <1>6, <1>8
<1>14. Len(toServer') <= Len(ops') /\ Taken' = Len(ops') /\ Len(ops') \in Nat
  <2>1. Len(toServer') = 0
    BY <1>6
  <2> QED
    BY <1>0, <1>5, <2>1 DEF Taken
<1>15. InOrder'
  <2>1. \A u \in DOMAIN ops' : ~(u > Taken')
    BY <1>0, <1>5, <1>14
  <2> QED
    BY <1>6, <1>9, <1>13, <2>1 DEF InOrder, Here
<1>16. Answers'
  BY <1>9, <1>13 DEF Answers, Waits, Here
<1> QED
  BY <1>6, <1>7, <1>10, <1>11, <1>12, <1>14, <1>15, <1>16 DEF IInv

-----------------------------------------------------------------------------
LEMMA InitHolds == Init => IInv
<1> SUFFICES ASSUME Init PROVE IInv
  OBVIOUS
<1>0. /\ toServer = <<>> /\ toClient = <<>> /\ mReplayCache = <<>> /\ ops = <<>>
      /\ mClientRequestID = 0 /\ unchecked = 0 /\ ~replayed /\ ~outOfSequence
      /\ ~v33 /\ connection = 1
  BY DEF Init
<1>1. TypeOK
  <2>1. mClientRequestID \in ID /\ nextID \in ID
    BY IDAssumption, FirstAssumption DEF Init, ID
  <2>2. /\ mReplayCache \in Seq(CacheItem) /\ Len(mReplayCache) <= CacheSize
        /\ ops \in Seq(Operation) /\ Len(ops) <= MaxOps
    BY <1>0, CacheAssumption, BoundAssumption
  <2>3. connection \in 1..MaxConnections /\ resends \in 0..MaxResends
    BY BoundAssumption DEF Init
  <2>4. toServer \in Seq(Packet) /\ toClient \in Seq(Reply)
    BY <1>0
  <2>5. /\ mContinueRecv \in BOOLEAN /\ mSessionOpen \in BOOLEAN
        /\ mIsAuthenticated \in BOOLEAN /\ v33 \in BOOLEAN
        /\ replayed \in BOOLEAN /\ outOfSequence \in BOOLEAN /\ unchecked \in Nat
    BY DEF Init
  <2> QED
    BY <2>1, <2>2, <2>3, <2>4, <2>5 DEF TypeOK
<1>2. DOMAIN toServer = {} /\ DOMAIN toClient = {} /\ DOMAIN mReplayCache = {} /\ DOMAIN ops = {}
  BY <1>0
<1>3. Len(toServer) <= Len(ops)
  BY <1>0
<1>4. PacketsFit /\ Begun /\ Logged
  BY <1>0, <1>2 DEF PacketsFit, Begun, Logged
<1>5. Ascends
  BY <1>2 DEF Ascends, RunsUpTo, CachedUpTo, CacheCoversTheLatest
<1>6. InOrder /\ Answers
  BY <1>0, <1>2 DEF InOrder, Answers
<1> QED
  BY <1>0, <1>1, <1>3, <1>4, <1>5, <1>6 DEF IInv

LEMMA NextKeeps ==
    ASSUME IInv, [Next]_vars PROVE IInv'
<1>1. CASE Next
  <2>1. CASE \E kind \in Kind : Client_Send(kind)
    BY <2>1, SendStep
  <2>2. CASE \E u \in Op : Client_Resend(u)
    BY <2>2, ResendStep
  <2> QED
    BY <1>1, <2>1, <2>2, ReceiveStep, ReconnectStep, ServerStep DEF Next
<1>2. CASE UNCHANGED vars
  BY <1>2 DEF IInv, TypeOK, PacketsFit, Begun, Logged, Ascends, RunsUpTo, CachedUpTo,
              CacheCoversTheLatest, InOrder, Answers, Taken, Here, Waits, NextAfter, KindOf,
              vars, serverVars
<1> QED
  BY <1>1, <1>2

(* The inductive invariant holds of every state of the connection.         *)
THEOREM Invariance == Spec => []IInv
<1>1. IInv /\ [Next]_vars => IInv'
  BY NextKeeps
<1> QED
  BY <1>1, InitHolds, PTL DEF Spec

(* Every variable has its type: whatever the client sends, the request id  *)
(* stays one and the replay cache within its size.                         *)
THEOREM TypeCorrect == Spec => []TypeOK
<1>1. IInv => TypeOK
  BY DEF IInv
<1> QED
  BY <1>1, Invariance, PTL

(* A request is executed twice only after a second id has been taken       *)
(* unchecked: until then the ids of the requests executed ascend with the  *)
(* counter, and a request that is sent again has an old one.               *)
THEOREM RepeatsAreUnchecked == Spec => []RepeatsNeedAnUncheckedID
<1>1. IInv => RepeatsNeedAnUncheckedID
  <2> SUFFICES ASSUME IInv, NEW u \in DOMAIN ops, ops[u].runsHere > 1 PROVE unchecked > 1
    BY DEF RepeatsNeedAnUncheckedID
  <2>1. unchecked \in Nat
    BY DEF IInv, TypeOK
  <2>2. unchecked <= 1 => ops[u].runsHere <= 1
    BY DEF IInv, Ascends, RunsUpTo
  <2>3. ops[u].runsHere \in Nat
    BY Numbers
  <2> QED
    BY <2>1, <2>2, <2>3
<1> QED
  BY <1>1, Invariance, PTL

(* The replay cache never answers for the wrong request, and it answers    *)
(* for every request not older than one it answers for.                    *)
THEOREM CacheRight == Spec => []ReplayCacheIsRight
<1>1. IInv => ReplayCacheIsRight
  <2> SUFFICES ASSUME IInv PROVE ReplayCacheIsRight
    OBVIOUS
  <2>1. CacheCoversTheLatest
    <3>1. CASE unchecked <= 1
      BY <3>1 DEF IInv, Ascends
    <3>2. CASE ~(unchecked <= 1)
      BY <3>2 DEF CacheCoversTheLatest
    <3> QED
      BY <3>1, <3>2
  <2>2. CacheIsUnambiguous
    <3> SUFFICES ASSUME unchecked <= 1
                 PROVE  /\ \A i \in DOMAIN mReplayCache :
                              ops[mReplayCache[i].op].id = mReplayCache[i].requestID
                        /\ \A i, j \in DOMAIN mReplayCache :
                              mReplayCache[i].requestID = mReplayCache[j].requestID => i = j
      BY DEF CacheIsUnambiguous
    <3>1. CachedUpTo(mClientRequestID)
      BY DEF IInv, Ascends
    <3>2. mReplayCache \in Seq(CacheItem)
      BY DEF IInv, TypeOK
    <3>3. \A i, j \in DOMAIN mReplayCache : i < j \/ j < i \/ i = j
      BY <3>2
    <3>4. \A i \in DOMAIN mReplayCache : mReplayCache[i].requestID \in Nat
      BY Numbers
    <3>5. \A i, j \in DOMAIN mReplayCache :
             i < j => mReplayCache[i].requestID # mReplayCache[j].requestID
      BY <3>1, <3>4 DEF CachedUpTo
    <3> QED
      BY <3>1, <3>3, <3>5 DEF CachedUpTo
  <2> QED
    BY <2>1, <2>2 DEF ReplayCacheIsRight
<1> QED
  BY <1>1, Invariance, PTL

(* A client that never sends a request again takes for the reply to a      *)
(* request the reply to that request, whatever id it starts from and       *)
(* however often the ids come round.                                       *)
THEOREM RepliesNotCrossed == Spec => []RepliesAreNotCrossed
<1>1. IInv => RepliesAreNotCrossed
  BY DEF IInv, Answers, Here, RepliesAreNotCrossed
<1> QED
  BY <1>1, Invariance, PTL

(* Nor is it ever killed for its request ids.                              *)
THEOREM InOrderSurvives == Spec => []InOrderClientSurvives
<1>1. IInv => InOrderClientSurvives
  BY DEF IInv, InOrderClientSurvives
<1> QED
  BY <1>1, Invariance, PTL

=============================================================================
