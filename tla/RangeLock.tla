------------------------------ MODULE RangeLock ------------------------------
(***************************************************************************)
(* Byte-range locks of the AFP server: class fp_rangelock and the fork     *)
(* requests that consult or change it (FPByteRangeLock, FPRead, FPWrite,   *)
(* FPFlushFork, FPSetForkParms, FPOpenFork, FPCloseFork) together with the *)
(* destructor of a session.                                                *)
(*                                                                         *)
(* Every session is served by a thread of its own, which handles one       *)
(* request at a time; the lock objects of all sessions are in one global   *)
(* list.  gLockListLocker is held during one walk or one update of that    *)
(* list only, so every request is a few atomic steps that interleave with  *)
(* the steps of other sessions:                                            *)
(*    lock      construct, scan the list, commit (or delete on failure)    *)
(*    unlock    find and shrink, delete                                    *)
(*    access    position, scan the list, transfer                          *)
(*    close     leave mOpenFiles, delete the locks one by one, free        *)
(*                                                                         *)
(* The fields of a lock object are written in the order start, end, valid  *)
(* and a scan ignores objects that are not valid, so a commit is one step. *)
(***************************************************************************)
EXTENDS Integers, SequencesExt

CONSTANTS
    Session,    \* afp_session objects (addresses: a new session may reuse one)
    Node,       \* files, identified by node_ref
    NoNode,     \* a fork slot that is not in use
    Ref,        \* fork slots of one session (MAX_AFP_FILES_OPEN of them)
    MaxLocks,   \* bound: lock objects alive at the same time
    MaxSize,    \* bound: largest data fork
    Offset,     \* offsets a client may send
    Length      \* lengths a client may send

LockId == 1..MaxLocks
Kind == {"data", "rsrc"}        \* kDataFork, kRsrcFork
WholeFile == -1                 \* length 0xFFFFFFFFFFFFFFFF read by GetInt64()

ASSUME NodeAssumption  == NoNode \notin Node
ASSUME BoundAssumption == MaxLocks \in Nat /\ MaxSize \in Nat
ASSUME InputAssumption == Offset \subseteq Int /\ Length \subseteq Int

VARIABLES
    size,       \* data fork length of every file
    fork,       \* mOpenFiles: fork[s][r] is an OPEN_FORK_ITEM or NoFork
    gLockList,  \* the global list: a function from lock ids to lock objects
    conn,       \* life of the session object
    req         \* the request each session thread is executing

vars == <<size, fork, gLockList, conn, req>>

-----------------------------------------------------------------------------
(* Objects *)

(* `raced' is a history field: the foreign locks committed between this    *)
(* lock's scan and its own commit.                                         *)
LockObject ==
    [session : Session, ref : Ref, node : Node, start : Int, end : Int,
     valid : BOOLEAN, raced : SUBSET LockId]

ForkItem == [node : Node, kind : Kind, brlList : Seq(LockId)]
NoFork == [node |-> NoNode, kind |-> "data", brlList |-> <<>>]

Op == {"idle", "lock", "unlock", "read", "write", "flush", "close"}
Phase == {"scan", "do", "fail"}

(* `since' is a history field: the foreign locks committed since the scan. *)
Request ==
    [op : Op, phase : Phase, ref : Ref \cup {0}, lock : LockId \cup {0},
     start : Int, end : Int, since : SUBSET LockId]

Idle == [op |-> "idle", phase |-> "do", ref |-> 0, lock |-> 0,
         start |-> 0, end |-> 0, since |-> {}]

IsOpen(s, r) == fork[s][r] # NoFork
Ready(s) == conn[s] = "up" /\ req[s] = Idle

(* Length of the fork as FPByteRangeLock and FPFlushFork read it.  The     *)
(* resource fork's length is that of an attribute this module leaves open. *)
ForkSizes(s, r) ==
    IF fork[s][r].kind = "data" THEN {size[fork[s][r].node]} ELSE 0..MaxSize

-----------------------------------------------------------------------------
(* The lock list *)

(* Mutant of RangeHit: a lock inside the tested range goes unnoticed.      *)
RangeHitMutant(rs, re, l) ==
    \/ rs >= gLockList[l].start /\ rs <= gLockList[l].end
    \/ re >= gLockList[l].start /\ re <= gLockList[l].end

(* The overlap test of RangeLocked.                                        *)
RangeHit(rs, re, l) ==
    \/ rs >= gLockList[l].start /\ rs <= gLockList[l].end
    \/ re >= gLockList[l].start /\ re <= gLockList[l].end
    \/ rs <= gLockList[l].start /\ re >= gLockList[l].end

(* Mutant of RangeLocked: the caller's own locks are not skipped.          *)
RangeLockedMutant(s, n, rs, re) ==
    \E l \in DOMAIN gLockList :
        /\ gLockList[l].valid
        /\ gLockList[l].node = n
        /\ RangeHit(rs, re, l)

(* fp_rangelock::RangeLocked: one walk of the list under gLockListLocker.  *)
RangeLocked(s, n, rs, re) ==
    \E l \in DOMAIN gLockList :
        /\ gLockList[l].session # s
        /\ gLockList[l].valid
        /\ gLockList[l].node = n
        /\ RangeHit(rs, re, l)

(* ~fp_rangelock: leave the global list, then the fork's own list.  The    *)
(* history fields forget the id, which a later lock may reuse.             *)
DeleteLock(l) ==
    LET o == gLockList[l]
        list == fork[o.session][o.ref].brlList
    IN  /\ gLockList' = [m \in DOMAIN gLockList \ {l} |->
                           [gLockList[m] EXCEPT !.raced = @ \ {l}]]
        /\ \E i \in DOMAIN list :
               /\ list[i] = l
               /\ fork' = [fork EXCEPT ![o.session][o.ref].brlList =
                                           RemoveAt(list, i)]

(* req' when session s goes on to `next' having deleted lock l.            *)
AfterDelete(s, l, next) ==
    req' = [t \in Session |-> IF t = s THEN next
                              ELSE [req[t] EXCEPT !.since = @ \ {l}]]

(* The request of session t has walked the list and not yet acted on it.   *)
Scanned(t) == req[t].phase = "do" /\ req[t].op \in {"lock", "read", "write", "flush"}

Become(s, next) == req' = [req EXCEPT ![s] = next]

-----------------------------------------------------------------------------
Init ==
    /\ size \in [Node -> 0..MaxSize]
    /\ fork = [s \in Session |-> [r \in Ref |-> NoFork]]
    /\ gLockList = [l \in {} |-> {}]
    /\ conn = [s \in Session |-> "up"]
    /\ req = [s \in Session |-> Idle]

-----------------------------------------------------------------------------
(* FPOpenFork and FPSetForkParms *)

(* FPOpenFork: the session records the fork with an empty lock list.  One  *)
(* file may be opened many times, by one session or by several.            *)
FPOpenFork(s, r, n, k) ==
    /\ Ready(s)
    /\ ~IsOpen(s, r)
    /\ fork' = [fork EXCEPT ![s][r] = [node |-> n, kind |-> k, brlList |-> <<>>]]
    /\ UNCHANGED <<size, gLockList, conn, req>>

(* FPSetForkParms on a data fork sets the length and consults no lock.     *)
FPSetForkParms(s, r, len) ==
    /\ Ready(s)
    /\ IsOpen(s, r)
    /\ fork[s][r].kind = "data"
    /\ size' = [size EXCEPT ![fork[s][r].node] = len]
    /\ UNCHANGED <<fork, gLockList, conn, req>>

-----------------------------------------------------------------------------
(* FPByteRangeLock, locking *)

(* The range a lock request asks for: start and length.  `ext' tells       *)
(* afpByteRangeLockExt, which reads 64-bit numbers: the 32-bit command     *)
(* compares a sign-extended -1 with 0xFFFFFFFF and never takes the         *)
(* whole-file case.                                                        *)
LockRange(off, len, fromEnd, ext, fileSize) ==
    [start  |-> IF ~fromEnd THEN off
                ELSE IF off < 0 THEN fileSize + off ELSE fileSize - off,
     length |-> IF ~fromEnd /\ ext /\ len = WholeFile THEN fileSize - off ELSE len]

(* Read the request, work out the range and construct the lock object,     *)
(* which enters both lists not yet valid.  A negative offset from the      *)
(* start of the file is refused with afpParmErr before that.               *)
FPByteRangeLock_Lock(s, r, off, len, fromEnd, ext) ==
    /\ Ready(s)
    /\ IsOpen(s, r)
    /\ fromEnd \/ off >= 0
    /\ \E fileSize \in ForkSizes(s, r), l \in LockId :
           LET range == LockRange(off, len, fromEnd, ext, fileSize)
               o == [session |-> s, ref |-> r, node |-> fork[s][r].node,
                     start |-> 0, end |-> 0, valid |-> FALSE, raced |-> {}]
           IN  /\ l \notin DOMAIN gLockList
               /\ 1..(l - 1) \subseteq DOMAIN gLockList
               /\ gLockList' = [m \in DOMAIN gLockList \cup {l} |->
                                  IF m = l THEN o ELSE gLockList[m]]
               /\ fork' = [fork EXCEPT ![s][r].brlList = Append(@, l)]
               /\ Become(s, [op |-> "lock", phase |-> "scan", ref |-> r, lock |-> l,
                             start |-> range.start,
                             end |-> range.start + range.length - 1, since |-> {}])
    /\ UNCHANGED <<size, conn>>

(* First half of fp_rangelock::Lock: reject an empty range, then walk the  *)
(* list, which gives the lock that protects it back on return.             *)
Lock_Scan(s) ==
    /\ req[s].op = "lock" /\ req[s].phase = "scan"
    /\ LET n == gLockList[req[s].lock].node
           refused == \/ req[s].end < req[s].start
                      \/ RangeLocked(s, n, req[s].start, req[s].end)
       IN  Become(s, [req[s] EXCEPT !.phase = IF refused THEN "fail" ELSE "do"])
    /\ UNCHANGED <<size, fork, gLockList, conn>>

(* Second half of fp_rangelock::Lock: the object becomes valid.            *)
Lock_Commit(s) ==
    LET l == req[s].lock
    IN  /\ req[s].op = "lock" /\ req[s].phase = "do"
        /\ gLockList' = [gLockList EXCEPT ![l] =
                            [@ EXCEPT !.start = req[s].start, !.end = req[s].end,
                                      !.valid = TRUE, !.raced = req[s].since]]
        /\ req' = [t \in Session |->
                     IF t = s THEN Idle
                     ELSE IF Scanned(t)
                          THEN [req[t] EXCEPT !.since = @ \cup {l}]
                          ELSE req[t]]
        /\ UNCHANGED <<size, fork, conn>>

(* FPByteRangeLock frees the object when Lock failed.                      *)
Lock_Fail(s) ==
    /\ req[s].op = "lock" /\ req[s].phase = "fail"
    /\ DeleteLock(req[s].lock)
    /\ AfterDelete(s, req[s].lock, Idle)
    /\ UNCHANGED <<size, conn>>

-----------------------------------------------------------------------------
(* FPByteRangeLock, unlocking *)

UnlockEnd(off, len) == IF len > 0 THEN off + len - 1 ELSE off

(* fp_rangelock::SessionRangeLocked on lock l: what is left of its range   *)
(* when [off, last] is unlocked.  A hole in the middle keeps the right     *)
(* part, a full cover changes nothing.                                     *)
Shrunk(o, off, last) ==
    [o EXCEPT !.start = IF last < o.end THEN last + 1 ELSE @,
              !.end   = IF last >= o.end /\ off > o.start THEN off - 1 ELSE @]

(* Find the first lock of the fork that the range touches and shrink it,   *)
(* without holding gLockListLocker.  If there is none the reply is         *)
(* afpRangeNotLocked and nothing changes.                                  *)
FPByteRangeLock_Unlock(s, r, off, len) ==
    LET list == fork[s][r].brlList
        last == UnlockEnd(off, len)
        Touches(i) == off <= gLockList[list[i]].end /\ last >= gLockList[list[i]].start
    IN  /\ Ready(s)
        /\ IsOpen(s, r)
        /\ \E i \in DOMAIN list :
               /\ Touches(i)
               /\ \A j \in 1..(i - 1) : ~Touches(j)
               /\ gLockList' = [gLockList EXCEPT ![list[i]] = Shrunk(@, off, last)]
               /\ Become(s, [op |-> "unlock", phase |-> "do", ref |-> r, lock |-> list[i],
                             start |-> off, end |-> last, since |-> {}])
        /\ UNCHANGED <<size, fork, conn>>

(* FPByteRangeLock then deletes the lock it was given, shrunk or not.      *)
Unlock_Delete(s) ==
    /\ req[s].op = "unlock"
    /\ DeleteLock(req[s].lock)
    /\ AfterDelete(s, req[s].lock, Idle)
    /\ UNCHANGED <<size, conn>>

-----------------------------------------------------------------------------
(* FPRead, FPWrite, FPFlushFork *)

BeginAccess(s, r, op, first, count) ==
    Become(s, [op |-> op, phase |-> "scan", ref |-> r, lock |-> 0,
               start |-> first, end |-> first + count, since |-> {}])

(* The range tested is off .. off + count, one more than the bytes read.   *)
FPRead(s, r, off, count) ==
    /\ Ready(s) /\ IsOpen(s, r)
    /\ off >= 0 /\ count >= 0
    /\ BeginAccess(s, r, "read", off, count)
    /\ UNCHANGED <<size, fork, gLockList, conn>>

(* A data fork is positioned (from its end with kWriteStartEndFlag) before *)
(* the test; for a resource fork the offset sent is tested as it stands.   *)
FPWrite(s, r, off, count, fromEnd) ==
    /\ Ready(s) /\ IsOpen(s, r)
    /\ count >= 0
    /\ LET f == fork[s][r]
           first == IF f.kind = "data" /\ fromEnd THEN size[f.node] + off ELSE off
       IN  /\ first >= 0
           /\ first + count <= MaxSize         \* bound
           /\ BeginAccess(s, r, "write", first, count)
    /\ UNCHANGED <<size, fork, gLockList, conn>>

(* FPFlushFork tests the whole data fork; a resource fork is written out   *)
(* without a test and changes nothing here.                                *)
FPFlushFork(s, r) ==
    /\ Ready(s) /\ IsOpen(s, r)
    /\ fork[s][r].kind = "data"
    /\ BeginAccess(s, r, "flush", 0, size[fork[s][r].node])
    /\ UNCHANGED <<size, fork, gLockList, conn>>

(* Mutant of Access_Scan: a write is not tested.                           *)
Access_ScanMutant(s) ==
    /\ req[s].op \in {"read", "write", "flush"} /\ req[s].phase = "scan"
    /\ IF /\ req[s].op # "write"
          /\ RangeLocked(s, fork[s][req[s].ref].node, req[s].start, req[s].end)
       THEN Become(s, Idle)
       ELSE Become(s, [req[s] EXCEPT !.phase = "do"])
    /\ UNCHANGED <<size, fork, gLockList, conn>>

(* The walk of the list for a transfer: a locked range ends the request    *)
(* with afpLockErr.                                                        *)
Access_Scan(s) ==
    /\ req[s].op \in {"read", "write", "flush"} /\ req[s].phase = "scan"
    /\ IF RangeLocked(s, fork[s][req[s].ref].node, req[s].start, req[s].end)
       THEN Become(s, Idle)
       ELSE Become(s, [req[s] EXCEPT !.phase = "do"])
    /\ UNCHANGED <<size, fork, gLockList, conn>>

(* Mutant of Access_Do: a write always appends to the fork.                *)
Access_DoMutant(s) ==
    LET q == req[s]
        f == fork[s][q.ref]
    IN  /\ q.op \in {"read", "write", "flush"} /\ q.phase = "do"
        /\ size' = IF q.op = "write" /\ f.kind = "data"
                   THEN [size EXCEPT ![f.node] = @ + q.end - q.start]
                   ELSE size
        /\ Become(s, Idle)
        /\ UNCHANGED <<fork, gLockList, conn>>

(* The transfer.  A write to the data fork may extend it; one to a         *)
(* resource fork goes to the session's own buffer.                         *)
Access_Do(s) ==
    LET q == req[s]
        f == fork[s][q.ref]
    IN  /\ q.op \in {"read", "write", "flush"} /\ q.phase = "do"
        /\ size' = IF /\ q.op = "write" /\ f.kind = "data"
                      /\ q.end > q.start /\ q.end > size[f.node]
                   THEN [size EXCEPT ![f.node] = q.end]
                   ELSE size
        /\ Become(s, Idle)
        /\ UNCHANGED <<fork, gLockList, conn>>

-----------------------------------------------------------------------------
(* FPCloseFork, the session's end and a new session *)

BeginClose(s, r) ==
    Become(s, [op |-> "close", phase |-> "do", ref |-> r, lock |-> 0,
               start |-> 0, end |-> 0, since |-> {}])

(* afp_session::CloseFile: the entry is deleted and the item leaves        *)
(* mOpenFiles; its locks are still in the global list.                     *)
FPCloseFork(s, r) ==
    /\ Ready(s) /\ IsOpen(s, r)
    /\ BeginClose(s, r)
    /\ UNCHANGED <<size, fork, gLockList, conn>>

(* CloseFile's loop: delete the first lock of the fork.                    *)
CloseFile_Drop(s) ==
    LET list == fork[s][req[s].ref].brlList
    IN  /\ req[s].op = "close"
        /\ list # <<>>
        /\ DeleteLock(Head(list))
        /\ AfterDelete(s, Head(list), req[s])
        /\ UNCHANGED <<size, conn>>

(* Mutant of CloseFile_Free: the fork item is freed with locks left.       *)
CloseFile_FreeMutant(s) ==
    /\ req[s].op = "close"
    /\ fork' = [fork EXCEPT ![s][req[s].ref] = NoFork]
    /\ Become(s, Idle)
    /\ UNCHANGED <<size, gLockList, conn>>

(* CloseFile frees the fork item when its lock list is empty.              *)
CloseFile_Free(s) ==
    /\ req[s].op = "close"
    /\ fork[s][req[s].ref].brlList = <<>>
    /\ fork' = [fork EXCEPT ![s][req[s].ref] = NoFork]
    /\ Become(s, Idle)
    /\ UNCHANGED <<size, gLockList, conn>>

(* The connection is gone: the thread leaves its loop between two requests *)
(* and deletes the session.                                                *)
EndSession(s) ==
    /\ Ready(s)
    /\ conn' = [conn EXCEPT ![s] = "ending"]
    /\ UNCHANGED <<size, fork, gLockList, req>>

(* ~afp_session closes every file that is still open.                      *)
Destructor_Close(s, r) ==
    /\ conn[s] = "ending" /\ req[s] = Idle
    /\ IsOpen(s, r)
    /\ BeginClose(s, r)
    /\ UNCHANGED <<size, fork, gLockList, conn>>

(* Mutant of Destructor_Done: the files are left to be closed later.       *)
Destructor_DoneMutant(s) ==
    /\ conn[s] = "ending" /\ req[s] = Idle
    /\ conn' = [conn EXCEPT ![s] = "down"]
    /\ UNCHANGED <<size, fork, gLockList, req>>

(* ~afp_session returns when no file is left in mOpenFiles.                *)
Destructor_Done(s) ==
    /\ conn[s] = "ending" /\ req[s] = Idle
    /\ \A r \in Ref : ~IsOpen(s, r)
    /\ conn' = [conn EXCEPT ![s] = "down"]
    /\ UNCHANGED <<size, fork, gLockList, req>>

(* A client connects; its session object may get the address of a dead one.*)
NewSession(s) ==
    /\ conn[s] = "down"
    /\ conn' = [conn EXCEPT ![s] = "up"]
    /\ UNCHANGED <<size, fork, gLockList, req>>

-----------------------------------------------------------------------------
(* What a client may ask, and what the thread does by itself *)

ClientRequest(s) ==
    \/ \E r \in Ref, n \in Node, k \in Kind : FPOpenFork(s, r, n, k)
    \/ \E r \in Ref, len \in 0..MaxSize : FPSetForkParms(s, r, len)
    \/ \E r \in Ref, off \in Offset, len \in Length, fromEnd, ext \in BOOLEAN :
           FPByteRangeLock_Lock(s, r, off, len, fromEnd, ext)
    \/ \E r \in Ref, off \in Offset, len \in Length : FPByteRangeLock_Unlock(s, r, off, len)
    \/ \E r \in Ref, off \in Offset, count \in Length : FPRead(s, r, off, count)
    \/ \E r \in Ref, off \in Offset, count \in Length, fromEnd \in BOOLEAN :
           FPWrite(s, r, off, count, fromEnd)
    \/ \E r \in Ref : FPFlushFork(s, r)
    \/ \E r \in Ref : FPCloseFork(s, r)
    \/ EndSession(s)
    \/ NewSession(s)

ThreadStep(s) ==
    \/ Lock_Scan(s)
    \/ Lock_Commit(s)
    \/ Lock_Fail(s)
    \/ Unlock_Delete(s)
    \/ Access_Scan(s)
    \/ Access_Do(s)
    \/ CloseFile_Drop(s)
    \/ CloseFile_Free(s)
    \/ \E r \in Ref : Destructor_Close(s, r)
    \/ Destructor_Done(s)

Next == \E s \in Session : ClientRequest(s) \/ ThreadStep(s)

Spec == Init /\ [][Next]_vars
-----------------------------------------------------------------------------
(* Properties *)

(* Every variable has its type.                                            *)
TypeOK ==
    /\ size \in [Node -> 0..MaxSize]
    /\ fork \in [Session -> [Ref -> ForkItem \cup {NoFork}]]
    /\ DOMAIN gLockList \subseteq LockId
    /\ gLockList \in [DOMAIN gLockList -> LockObject]
    /\ conn \in [Session -> {"up", "ending", "down"}]
    /\ req \in [Session -> Request]

Overlap(a, b, c, d) == a <= d /\ c <= b

(* Two sessions hold overlapping locks on a file only if one of the locks  *)
(* was committed in the window between the other's scan and commit: that   *)
(* window is the only way fp_rangelock admits an overlap, no sequence of   *)
(* unlocks, shrinks, closes and reconnections does.                        *)
OnlyRacingLocksOverlap ==
    \A l, m \in DOMAIN gLockList :
        /\ gLockList[l].valid /\ gLockList[m].valid
        /\ gLockList[l].session # gLockList[m].session
        /\ gLockList[l].node = gLockList[m].node
        /\ Overlap(gLockList[l].start, gLockList[l].end,
                   gLockList[m].start, gLockList[m].end)
        => l \in gLockList[m].raced \/ m \in gLockList[l].raced

(* A request that has passed its test (a read, write, flush or lock about  *)
(* to act) meets no foreign lock except those committed after the test.    *)
TestedRangeIsFree ==
    \A s \in Session, l \in DOMAIN gLockList :
        /\ Scanned(s)
        /\ gLockList[l].valid
        /\ gLockList[l].session # s
        /\ gLockList[l].node = fork[s][req[s].ref].node
        /\ Overlap(req[s].start, req[s].end, gLockList[l].start, gLockList[l].end)
        => l \in req[s].since

(* The global list and the lists of the forks hold the same locks: no lock *)
(* outlives its fork (mForkRef would dangle) and none is left out of the   *)
(* list its fork's close walks.                                            *)
ListsAgree ==
    /\ \A l \in DOMAIN gLockList :
           LET o == gLockList[l] IN
           /\ o.node = fork[o.session][o.ref].node
           /\ l \in Range(fork[o.session][o.ref].brlList)
    /\ \A s \in Session, r \in Ref :
           LET list == fork[s][r].brlList IN
           /\ \A i \in DOMAIN list :
                  /\ list[i] \in DOMAIN gLockList
                  /\ gLockList[list[i]].session = s
                  /\ gLockList[list[i]].ref = r
           /\ \A i, j \in DOMAIN list : list[i] = list[j] => i = j

(* A session that is gone has no open fork and no lock, so a new session   *)
(* at the same address does not inherit any (RangeLocked compares          *)
(* addresses).                                                             *)
DeadSessionHoldsNothing ==
    \A s \in Session :
        conn[s] = "down" =>
            /\ \A r \in Ref : ~IsOpen(s, r)
            /\ \A l \in DOMAIN gLockList : gLockList[l].session # s

(* afpLockErr is returned only when another session has a valid lock on    *)
(* the same file that meets the range tested; a session's own locks, also  *)
(* through another fork, and locks still being requested never refuse it.  *)
RefusedOnlyByForeignLock ==
    [][\A s \in Session :
          /\ req[s].phase = "scan" /\ req[s].start <= req[s].end
          /\ req'[s].phase = "fail" \/ req'[s] = Idle
          => \E l \in DOMAIN gLockList :
                 /\ gLockList[l].valid
                 /\ gLockList[l].session # s
                 /\ gLockList[l].node = fork[s][req[s].ref].node
                 /\ Overlap(req[s].start, req[s].end,
                            gLockList[l].start, gLockList[l].end)]_vars
=============================================================================
