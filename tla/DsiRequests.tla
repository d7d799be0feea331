----------------------------- MODULE DsiRequests -----------------------------
(***************************************************************************)
(* Requests and replies of one DSI client: class dsi_connection with the   *)
(* request ids of afp_session and the replay cache of afpreplay.cpp.       *)
(*                                                                         *)
(* The client numbers its requests one after the other, may send several   *)
(* before it has a reply, may send one again, and may lose the connection  *)
(* and make a new one, which has a new dsi_connection and afp_session.     *)
(* The two directions of a connection are queues; what is in them when the *)
(* connection goes is lost.                                                *)
(*                                                                         *)
(* A request is abstracted to its kind: the DSI command and, for a DSI     *)
(* Command, whether it is a login, FPByteRangeLock (the one AFP command    *)
(* whose code is 1) or the FPRead that bypasses the dispatcher.            *)
(***************************************************************************)
EXTENDS Integers, SequencesExt

CONSTANTS
    MaxID,          \* DSI_MAX_REQUEST_ID, the largest 16-bit id
    CacheSize,      \* AFP_REPLAY_CACHE_SIZE
    Kind,           \* kinds of requests the client sends
    FirstID,        \* ids a client may start a connection with
    MaxOps,         \* bound: requests in all
    MaxQueue,       \* bound: requests on their way to the server
    MaxResends,     \* bound: requests sent again
    MaxConnections  \* bound: connections made

ID == 0..MaxID
Op == 1..MaxOps             \* a request of the client, whatever its id

ASSUME IDAssumption == MaxID \in Nat \ {0}
ASSUME FirstAssumption == FirstID \subseteq ID
ASSUME CacheAssumption == CacheSize \in Nat \ {0} /\ CacheSize <= MaxID
ASSUME BoundAssumption ==
    MaxOps \in Nat /\ MaxQueue \in Nat /\ MaxResends \in Nat /\ MaxConnections \in Nat \ {0}
ASSUME KindAssumption ==
    Kind \subseteq {"open", "close", "status", "tickle", "login", "lock", "read", "write"}

VARIABLES
    \* the server, for the current connection
    mClientRequestID,   \* id of the last request, 0 before the first
    mContinueRecv,      \* FALSE once the session has been killed
    mSessionOpen,
    mIsAuthenticated,
    v33,                \* mAFPVersion >= afpVersion33
    mReplayCache,
    \* the network
    toServer, toClient,
    \* the client
    nextID,
    ops,                \* the requests made so far
    connection,         \* number of the current connection
    resends,
    \* history, for the current connection
    unchecked,          \* ids the server took without comparing
    replayed,           \* a request was sent again
    outOfSequence       \* the session was killed for a request id

serverVars == <<mClientRequestID, mContinueRecv, mSessionOpen, mIsAuthenticated,
                v33, mReplayCache>>
vars == <<serverVars, toServer, toClient, nextID, ops, connection, resends,
          unchecked, replayed, outOfSequence>>

-----------------------------------------------------------------------------
(* Data *)

Packet == [id : ID, op : Op]
Reply == [id : ID, op : Op]
CacheItem == [requestID : ID, op : Op]

(* `connection': the one it was last sent on; `runsHere': how often the    *)
(* current session executed it; `answer': the request whose reply the      *)
(* client took for this one's, 0 before.                                   *)
Operation == [id : ID, kind : Kind, connection : 1..MaxConnections,
              runsHere : Nat, answer : Op \cup {0}]

Successor(id) == IF id = MaxID THEN 0 ELSE id + 1

KindOf(p) == ops[p.op].kind

(* DSI_CMD_Command or DSI_CMD_Write.                                       *)
IsAFP(kind) == kind \in {"login", "lock", "read", "write"}

-----------------------------------------------------------------------------
(* Request ids *)

(* The cases in which GetNextClientRequestID adopts the id it is given.    *)
TakenUnchecked == mClientRequestID \in {0, MaxID}

(* Mutant of GetNextClientRequestID: the ids start over at 1.              *)
GetNextClientRequestIDMutant(id) ==
    IF mClientRequestID = 0 THEN id
    ELSE IF mClientRequestID = MaxID THEN 1 ELSE mClientRequestID + 1

(* afp_session::GetNextClientRequestID, a 16-bit counter.                  *)
GetNextClientRequestID(id) ==
    IF TakenUnchecked THEN id ELSE (mClientRequestID + 1) % (MaxID + 1)

-----------------------------------------------------------------------------
(* The replay cache *)

(* Mutant of AFPReplayAddReply: room is made one reply too late.           *)
AFPReplayAddReplyLateMutant(cache, item) ==
    Append(IF Len(cache) > CacheSize THEN Tail(cache) ELSE cache, item)

(* Mutant of AFPReplayAddReply: the newest reply makes room.               *)
AFPReplayAddReplyMutant(cache, item) ==
    Append(IF Len(cache) >= CacheSize THEN Front(cache) ELSE cache, item)

(* AFPReplayAddReply: the oldest reply makes room.                         *)
AFPReplayAddReply(cache, item) ==
    Append(IF Len(cache) >= CacheSize THEN Tail(cache) ELSE cache, item)

(* AFPReplaySearchForReply compares the AFP command with the first byte of *)
(* the cached reply, which is the DSI reply flag 1: the code of            *)
(* FPByteRangeLock and of no other command the server has.                 *)
Matches(item, p) == item.requestID = p.id /\ KindOf(p) = "lock"

InCache(p) == \E i \in DOMAIN mReplayCache : Matches(mReplayCache[i], p)
Found(p) ==
    LET i == CHOOSE j \in DOMAIN mReplayCache :
                 /\ Matches(mReplayCache[j], p)
                 /\ \A k \in 1..(j - 1) : ~Matches(mReplayCache[k], p)
    IN  mReplayCache[i]

-----------------------------------------------------------------------------
Init ==
    /\ mClientRequestID = 0
    /\ mContinueRecv = TRUE
    /\ mSessionOpen = FALSE
    /\ mIsAuthenticated = FALSE
    /\ v33 = FALSE
    /\ mReplayCache = <<>>
    /\ toServer = <<>>
    /\ toClient = <<>>
    /\ nextID \in FirstID
    /\ ops = <<>>
    /\ connection = 1
    /\ resends = 0
    /\ unchecked = 0
    /\ replayed = FALSE
    /\ outOfSequence = FALSE

-----------------------------------------------------------------------------
(* The client and the network (external) *)

historyVars == <<unchecked, replayed, outOfSequence>>

Client_Send(kind) ==
    /\ mContinueRecv
    /\ Len(ops) < MaxOps /\ Len(toServer) < MaxQueue
    /\ ops' = Append(ops, [id |-> nextID, kind |-> kind, connection |-> connection,
                           runsHere |-> 0, answer |-> 0])
    /\ toServer' = Append(toServer, [id |-> nextID, op |-> Len(ops) + 1])
    /\ nextID' = Successor(nextID)
    /\ UNCHANGED <<serverVars, toClient, connection, resends, historyVars>>

(* A request without a reply is sent again, with the id it had.            *)
Client_Resend(u) ==
    /\ mContinueRecv
    /\ u \in DOMAIN ops
    /\ IsAFP(ops[u].kind)
    /\ ops[u].answer = 0
    /\ resends < MaxResends /\ Len(toServer) < MaxQueue
    /\ resends' = resends + 1
    /\ replayed' = TRUE
    /\ toServer' = Append(toServer, [id |-> ops[u].id, op |-> u])
    /\ ops' = [ops EXCEPT ![u].connection = connection]
    /\ UNCHANGED <<serverVars, toClient, nextID, connection, unchecked, outOfSequence>>

(* The client takes a reply for the oldest unanswered request with its id  *)
(* among those it sent on this connection; to a tickle it expects none.    *)
Client_Receive ==
    /\ toClient # <<>>
    /\ toClient' = Tail(toClient)
    /\ LET r == Head(toClient)
           waiting == {u \in DOMAIN ops : /\ ops[u].id = r.id /\ ops[u].answer = 0
                                          /\ ops[u].connection = connection
                                          /\ ops[u].kind # "tickle"}
       IN  ops' = [u \in DOMAIN ops |->
                     IF u \in waiting /\ \A w \in waiting : u <= w
                     THEN [ops[u] EXCEPT !.answer = r.op] ELSE ops[u]]
    /\ UNCHANGED <<serverVars, toServer, nextID, connection, resends, historyVars>>

(* The connection ends, by either side, and the client makes another.      *)
Reconnect ==
    /\ connection < MaxConnections
    /\ connection' = connection + 1
    /\ mClientRequestID' = 0
    /\ mContinueRecv' = TRUE
    /\ mSessionOpen' = FALSE
    /\ mIsAuthenticated' = FALSE
    /\ v33' = FALSE
    /\ mReplayCache' = <<>>
    /\ toServer' = <<>>
    /\ toClient' = <<>>
    /\ nextID' \in FirstID
    /\ ops' = [u \in DOMAIN ops |-> [ops[u] EXCEPT !.runsHere = 0]]
    /\ unchecked' = 0
    /\ replayed' = FALSE
    /\ outOfSequence' = FALSE
    /\ UNCHANGED resends

-----------------------------------------------------------------------------
(* ProcessReceivedBytes *)

(* The next request; a killed session still works off what it received.    *)
Take(p) ==
    /\ toServer' = Tail(toServer)
    /\ mClientRequestID' = GetNextClientRequestID(p.id)
    /\ unchecked' = IF TakenUnchecked THEN unchecked + 1 ELSE unchecked
    /\ UNCHANGED <<nextID, connection, resends, replayed>>

(* Mutant of InSequence: earlier ids are taken, too.                       *)
InSequenceMutant(p) == p.id <= GetNextClientRequestID(p.id)

InSequence(p) == GetNextClientRequestID(p.id) = p.id

(* Mutant of Send: the id is read before it is counted.                    *)
SendMutant(op) ==
    toClient' = IF mContinueRecv
                THEN Append(toClient, [id |-> mClientRequestID, op |-> op])
                ELSE toClient

(* A reply carries the id counted so far; after shutdown() it goes nowhere.*)
Send(op) ==
    toClient' = IF mContinueRecv
                THEN Append(toClient, [id |-> mClientRequestID', op |-> op])
                ELSE toClient

(* FormatAndSendReply, for a reply that does not come from the cache.      *)
FormatAndSendReply(p) ==
    /\ Send(p.op)
    /\ mReplayCache' = IF v33' /\ IsAFP(KindOf(p))
                       THEN AFPReplayAddReply(mReplayCache,
                                [requestID |-> mClientRequestID', op |-> p.op])
                       ELSE mReplayCache

Executed(p) ==
    ops' = [ops EXCEPT ![p.op].runsHere = @ + 1]

(* Out of sequence, but its reply is in the cache: resend it.              *)
Server_Replay(p) ==
    /\ Take(p)
    /\ ~InSequence(p)
    /\ v33 /\ InCache(p)
    /\ Send(Found(p).op)
    /\ UNCHANGED <<ops, mContinueRecv, mSessionOpen, mIsAuthenticated, v33,
                   mReplayCache, outOfSequence>>

(* Out of sequence: KillSession.                                           *)
Server_BadRequestID(p) ==
    /\ Take(p)
    /\ ~InSequence(p)
    /\ ~(v33 /\ InCache(p))
    /\ mContinueRecv' = FALSE
    /\ outOfSequence' = TRUE
    /\ UNCHANGED <<ops, toClient, mSessionOpen, mIsAuthenticated, v33, mReplayCache>>

(* No DSIOpenSession yet: afpParmErr, and no reply at all to a tickle.     *)
Server_NotOpen(p) ==
    /\ Take(p)
    /\ InSequence(p)
    /\ ~mSessionOpen /\ KindOf(p) \notin {"open", "status"}
    /\ UNCHANGED v33
    /\ IF KindOf(p) = "tickle" THEN UNCHANGED <<toClient, mReplayCache>>
       ELSE FormatAndSendReply(p)
    /\ UNCHANGED <<ops, mContinueRecv, mSessionOpen, mIsAuthenticated, outOfSequence>>

Server_OpenSession(p) ==
    /\ Take(p)
    /\ InSequence(p) /\ KindOf(p) = "open"
    /\ UNCHANGED v33
    /\ Executed(p)
    /\ mSessionOpen' = TRUE
    /\ FormatAndSendReply(p)
    /\ UNCHANGED <<mContinueRecv, mIsAuthenticated, outOfSequence>>

(* DSICloseSession and DSIGetStatus reply and kill the session.            *)
Server_Goodbye(p) ==
    /\ Take(p)
    /\ InSequence(p)
    /\ \/ KindOf(p) = "close" /\ mSessionOpen /\ mSessionOpen' = FALSE
       \/ KindOf(p) = "status" /\ UNCHANGED mSessionOpen
    /\ UNCHANGED v33
    /\ Executed(p)
    /\ FormatAndSendReply(p)
    /\ mContinueRecv' = FALSE
    /\ UNCHANGED <<mIsAuthenticated, outOfSequence>>

Server_Tickle(p) ==
    /\ Take(p)
    /\ InSequence(p) /\ KindOf(p) = "tickle" /\ mSessionOpen
    /\ UNCHANGED v33
    /\ Executed(p)
    /\ UNCHANGED <<toClient, mContinueRecv, mSessionOpen, mIsAuthenticated,
                   mReplayCache, outOfSequence>>

(* FPRead and FPWrite are called directly.                                 *)
Server_ReadWrite(p) ==
    /\ Take(p)
    /\ InSequence(p) /\ KindOf(p) \in {"read", "write"} /\ mSessionOpen
    /\ UNCHANGED v33
    /\ Executed(p)
    /\ FormatAndSendReply(p)
    /\ UNCHANGED <<mContinueRecv, mSessionOpen, mIsAuthenticated, outOfSequence>>

(* FPDispatchCommand.  A login sets the version and may fail; a client     *)
(* that is not logged in after its command is killed.                      *)
Server_Command(p) ==
    /\ Take(p)
    /\ InSequence(p) /\ KindOf(p) \in {"login", "lock"} /\ mSessionOpen
    /\ IF KindOf(p) = "login" /\ ~mIsAuthenticated
       THEN v33' \in BOOLEAN /\ mIsAuthenticated' \in BOOLEAN
       ELSE UNCHANGED <<v33, mIsAuthenticated>>
    /\ Executed(p)
    /\ FormatAndSendReply(p)
    /\ mContinueRecv' = (mContinueRecv /\ mIsAuthenticated')
    /\ UNCHANGED <<mSessionOpen, outOfSequence>>

ProcessReceivedBytes ==
    /\ toServer # <<>>
    /\ LET p == Head(toServer)
       IN  \/ Server_Replay(p)
           \/ Server_BadRequestID(p)
           \/ Server_NotOpen(p)
           \/ Server_OpenSession(p)
           \/ Server_Goodbye(p)
           \/ Server_Tickle(p)
           \/ Server_ReadWrite(p)
           \/ Server_Command(p)

Next ==
    \/ \E kind \in Kind : Client_Send(kind)
    \/ \E u \in Op : Client_Resend(u)
    \/ Client_Receive
    \/ Reconnect
    \/ ProcessReceivedBytes

Spec == Init /\ [][Next]_vars

-----------------------------------------------------------------------------
(* Properties *)

(* Every variable has its type.                                            *)
TypeOK ==
    /\ mClientRequestID \in ID
    /\ mContinueRecv \in BOOLEAN /\ mSessionOpen \in BOOLEAN
    /\ mIsAuthenticated \in BOOLEAN /\ v33 \in BOOLEAN
    /\ mReplayCache \in Seq(CacheItem) /\ Len(mReplayCache) <= CacheSize
    /\ toServer \in Seq(Packet) /\ toClient \in Seq(Reply)
    /\ nextID \in ID
    /\ ops \in Seq(Operation) /\ Len(ops) <= MaxOps
    /\ connection \in 1..MaxConnections
    /\ resends \in 0..MaxResends
    /\ unchecked \in Nat
    /\ replayed \in BOOLEAN /\ outOfSequence \in BOOLEAN

(* On one connection a request that is sent again is executed again only   *)
(* if the counter stood at 0 or 65535 after the session's first request:   *)
(* there GetNextClientRequestID takes any id.                              *)
RepeatsNeedAnUncheckedID ==
    \A u \in DOMAIN ops : ops[u].runsHere > 1 => unchecked > 1

(* The cache has one reply for an id at most, and it is the reply to a     *)
(* request of this connection that had this id, under the same exception.  *)
CacheIsUnambiguous ==
    unchecked <= 1 =>
        /\ \A i \in DOMAIN mReplayCache :
               ops[mReplayCache[i].op].id = mReplayCache[i].requestID
        /\ \A i, j \in DOMAIN mReplayCache :
               mReplayCache[i].requestID = mReplayCache[j].requestID => i = j

(* A reply is only evicted to make room for a later one: a request with a  *)
(* higher id than one whose reply is cached has its own reply cached too.  *)
CacheCoversTheLatest ==
    unchecked <= 1 /\ mContinueRecv =>
        \A i \in DOMAIN mReplayCache :
            \A u \in DOMAIN ops :
                /\ ops[u].runsHere > 0 /\ IsAFP(ops[u].kind)
                /\ ops[u].id > mReplayCache[i].requestID
                => \E j \in DOMAIN mReplayCache : mReplayCache[j].op = u

(* A client that never sends a request again takes for the reply to a      *)
(* request the reply to that request, whatever id it starts from and       *)
(* however the ids wrap.                                                   *)
RepliesAreNotCrossed ==
    \A u \in DOMAIN ops :
        ops[u].connection = connection /\ ~replayed => ops[u].answer \in {0, u}

(* The replay cache never answers for the wrong request, and it answers    *)
(* for every request not older than one it answers for.                    *)
ReplayCacheIsRight == CacheIsUnambiguous /\ CacheCoversTheLatest

(* Nor is it ever killed for its request ids.                              *)
InOrderClientSurvives == outOfSequence => replayed
=============================================================================
