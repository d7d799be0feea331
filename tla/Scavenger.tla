------------------------------ MODULE Scavenger ------------------------------
(***************************************************************************)
(* The life of the connections: the thread of each client                  *)
(* (ServerConnection, class dsi_connection) and the one scavenger thread   *)
(* (class dsi_scavenger), which sends tickles, kills the sessions of dead  *)
(* clients and tells the clients of a dirty volume about it.               *)
(*                                                                         *)
(* dsi_scavenger::mMutex is held for a whole pass over the connections: it *)
(* is free iff the scavenger snoozes.  What other threads do under it is   *)
(* one step.                                                               *)
(*                                                                         *)
(* Time is counted in units.  A time stamp is kept as its age, and an age  *)
(* stops at the first value from which on nothing changes any more.        *)
(***************************************************************************)
EXTENDS Integers, SequencesExt

CONSTANTS
    Connection, Volume, NoConnection,
    TickleInterval,     \* SEND_TICKLE_INTERVAL
    DeadInterval,       \* SESSION_DEAD_INTERVAL
    SelectTimeout,      \* timeout of select() in Receive
    SleepingInterval,   \* SESSION_SLEEPING_INTERVAL
    MaxPass,            \* bound: duration of a pass that is not blocked
    UnknownForks        \* do clients close forks they do not have open?

ASSUME ConnectionAssumption == NoConnection \notin Connection
ASSUME IntervalAssumption ==
    /\ TickleInterval \in Nat \ {0} /\ DeadInterval \in Nat
    /\ SelectTimeout \in Nat /\ SleepingInterval \in Nat /\ MaxPass \in Nat
    /\ TickleInterval < DeadInterval /\ DeadInterval < SelectTimeout
    /\ SelectTimeout < SleepingInterval
ASSUME UnknownForksAssumption == UnknownForks \in BOOLEAN

VARIABLES
    \* the scavenger
    phase,              \* "snooze", "next", "check" or "volumes"
    age,                \* time since the pass or the snooze began
    i,                  \* entries of mOpenConnections this pass has taken
    current,            \* the entry it is at
    todo,               \* volumes it has not looked at for this entry
    \* shared
    mOpenConnections,
    mIsDirty,           \* the dirty volumes
    \* the connections
    thread,             \* "none", "starting", "receiving" or "stopping"
    mContinueRecv,
    mClientIsSleeping,
    recvAge, sentAge,   \* ages of mLastTickleRecvd and mLastTickleSent
    mOpenVolumes,
    lockLost,           \* CloseFile returned without mLock.Unlock()
    closed,             \* the client has closed its side
    \* history
    owed                \* <<c, v>>: c is to be told in this pass that v is dirty

scavengerVars == <<phase, age, i, current, todo>>
sessionVars == <<mClientIsSleeping, recvAge, mOpenVolumes, lockLost>>
vars == <<scavengerVars, mOpenConnections, mIsDirty, thread, mContinueRecv,
          sessionVars, sentAge, closed, owed>>

-----------------------------------------------------------------------------
(* Intervals *)

MaxRecvAge == SleepingInterval + MaxPass + 1
MaxSentAge == TickleInterval + MaxPass + 1
MaxAge == IF MaxPass > TickleInterval THEN MaxPass ELSE TickleInterval

Older(a, max) == IF a < max THEN a + 1 ELSE a

(* `now' minus a time stamp, unsigned.  `now' is read as the pass begins:  *)
(* a later time stamp makes the difference wrap to a huge one.             *)
Wrapped == MaxRecvAge + 1
Interval(stampAge) == IF stampAge < age THEN Wrapped ELSE stampAge - age

(* Mutant of Overdue: the other time stamp is used.                        *)
OverdueSentMutant(c) == Interval(sentAge[c]) > DeadInterval

Overdue(c) == Interval(recvAge[c]) > DeadInterval

-----------------------------------------------------------------------------
Init ==
    /\ phase = "snooze" /\ age = 0 /\ i = 0 /\ current = NoConnection /\ todo = {}
    /\ mOpenConnections = <<>>
    /\ mIsDirty = {}
    /\ thread = [c \in Connection |-> "none"]
    /\ mContinueRecv = [c \in Connection |-> TRUE]
    /\ mClientIsSleeping = [c \in Connection |-> FALSE]
    /\ recvAge = [c \in Connection |-> 0]
    /\ sentAge = [c \in Connection |-> 0]
    /\ mOpenVolumes = [c \in Connection |-> {}]
    /\ lockLost = [c \in Connection |-> FALSE]
    /\ closed = [c \in Connection |-> FALSE]
    /\ owed = {}

-----------------------------------------------------------------------------
(* Time and the clients (external) *)

(* The scavenger is blocked in HasVolumeOpen by a lock nobody will release.*)
Blocked == phase = "volumes" /\ lockLost[current] /\ todo \cap mIsDirty # {}

(* A snooze ends on time, and meanwhile the threads that wait for mMutex   *)
(* get it; a pass takes MaxPass at most, unless it is blocked.             *)
Waiting(c) == thread[c] \in {"starting", "stopping"}
Tick ==
    /\ IF phase = "snooze"
       THEN age < TickleInterval /\ \A c \in Connection : ~Waiting(c)
       ELSE age < MaxPass \/ Blocked
    /\ age' = Older(age, MaxAge)
    /\ recvAge' = [c \in Connection |->
                    IF thread[c] = "none" THEN 0 ELSE Older(recvAge[c], MaxRecvAge)]
    /\ sentAge' = [c \in Connection |->
                    IF thread[c] = "none" THEN 0 ELSE Older(sentAge[c], MaxSentAge)]
    /\ UNCHANGED <<phase, i, current, todo, mOpenConnections, mIsDirty, thread,
                   mContinueRecv, mClientIsSleeping, mOpenVolumes, lockLost, closed, owed>>

Client_Close(c) ==
    /\ thread[c] = "receiving" /\ ~closed[c]
    /\ closed' = [closed EXCEPT ![c] = TRUE]
    /\ UNCHANGED <<scavengerVars, mOpenConnections, mIsDirty, thread, mContinueRecv,
                   sessionVars, sentAge, owed>>

-----------------------------------------------------------------------------
(* The connection's thread *)

(* accept() and spawn_thread(): the session is constructed, with two new   *)
(* time stamps, before TrackConnection is called.                          *)
ServerConnection(c) ==
    /\ thread[c] = "none"
    /\ thread' = [thread EXCEPT ![c] = "starting"]
    /\ UNCHANGED <<scavengerVars, mOpenConnections, mIsDirty, mContinueRecv,
                   sessionVars, sentAge, closed, owed>>

TrackConnection(c) ==
    /\ thread[c] = "starting"
    /\ phase = "snooze"
    /\ mOpenConnections' = Append(mOpenConnections, c)
    /\ thread' = [thread EXCEPT ![c] = "receiving"]
    /\ UNCHANGED <<scavengerVars, mIsDirty, mContinueRecv, sessionVars, sentAge,
                   closed, owed>>

(* ProcessReceivedBytes: SetLastTickleRecvd, the command, and the reply.   *)
Request(c) ==
    /\ thread[c] = "receiving" /\ mContinueRecv[c] /\ ~closed[c]
    /\ recvAge' = [recvAge EXCEPT ![c] = 0]
    /\ UNCHANGED <<scavengerVars, mOpenConnections, thread, closed>>

Awake(c) == mClientIsSleeping' = [mClientIsSleeping EXCEPT ![c] = FALSE]
Replied(c) == sentAge' = [sentAge EXCEPT ![c] = 0]

Tickle(c) ==
    /\ Request(c) /\ Awake(c)
    /\ UNCHANGED <<mIsDirty, mContinueRecv, mOpenVolumes, lockLost, sentAge, owed>>

(* afp_session::VolumeOpened and VolumeClosed, from FPOpenVol, FPCloseVol. *)
VolumeOpened(c, v) ==
    /\ Request(c) /\ Awake(c) /\ Replied(c)
    /\ v \notin mOpenVolumes[c]
    /\ mOpenVolumes' = [mOpenVolumes EXCEPT ![c] = @ \cup {v}]
    /\ UNCHANGED <<mIsDirty, mContinueRecv, lockLost, owed>>

VolumeClosed(c, v) ==
    /\ Request(c) /\ Awake(c) /\ Replied(c)
    /\ v \in mOpenVolumes[c]
    /\ mOpenVolumes' = [mOpenVolumes EXCEPT ![c] = @ \ {v}]
    /\ owed' = owed \ {<<c, v>>}
    /\ UNCHANGED <<mIsDirty, mContinueRecv, lockLost>>

(* A command that changes something in the volume ends with MakeDirty.     *)
MakeDirty(c, v) ==
    /\ Request(c) /\ Awake(c) /\ Replied(c)
    /\ v \in mOpenVolumes[c]
    /\ mIsDirty' = mIsDirty \cup {v}
    /\ UNCHANGED <<mContinueRecv, mOpenVolumes, lockLost, owed>>

(* CloseFile with a reference number that is not open returns with mLock   *)
(* held; the lock is recursive, so that its own thread does not notice.    *)
CloseFile_Unknown(c) ==
    /\ UnknownForks
    /\ Request(c) /\ Awake(c) /\ Replied(c)
    /\ lockLost' = [lockLost EXCEPT ![c] = TRUE]
    /\ UNCHANGED <<mIsDirty, mContinueRecv, mOpenVolumes, owed>>

(* FPZzzz with flag 1.                                                     *)
Zzzz(c) ==
    /\ Request(c) /\ Replied(c)
    /\ mClientIsSleeping' = [mClientIsSleeping EXCEPT ![c] = TRUE]
    /\ UNCHANGED <<mIsDirty, mContinueRecv, mOpenVolumes, lockLost, owed>>

(* DSICloseSession.                                                        *)
CloseSession(c) ==
    /\ Request(c) /\ Awake(c) /\ Replied(c)
    /\ mContinueRecv' = [mContinueRecv EXCEPT ![c] = FALSE]
    /\ UNCHANGED <<mIsDirty, mOpenVolumes, lockLost, owed>>

(* Receive returns: the session was killed, or recv() returned 0 and the   *)
(* client was awake, or select() timed out.  With a closed connection of a *)
(* sleeping client the loop goes on.                                       *)
Receive_Return(c) ==
    /\ thread[c] = "receiving"
    /\ \/ ~mContinueRecv[c] /\ UNCHANGED mContinueRecv
       \/ closed[c] /\ ~mClientIsSleeping[c] /\ UNCHANGED mContinueRecv
       \/ /\ recvAge[c] >= SelectTimeout /\ ~closed[c]
          /\ mContinueRecv' = [mContinueRecv EXCEPT ![c] = FALSE]
    /\ thread' = [thread EXCEPT ![c] = "stopping"]
    /\ UNCHANGED <<scavengerVars, mOpenConnections, mIsDirty, sessionVars, sentAge,
                   closed, owed>>

(* What ~dsi_connection does after StopTracking, and ~afp_session: the     *)
(* thread ends.                                                            *)
Delete(c) ==
    /\ thread' = [thread EXCEPT ![c] = "none"]
    /\ mContinueRecv' = [mContinueRecv EXCEPT ![c] = TRUE]
    /\ mClientIsSleeping' = [mClientIsSleeping EXCEPT ![c] = FALSE]
    /\ recvAge' = [recvAge EXCEPT ![c] = 0]
    /\ sentAge' = [sentAge EXCEPT ![c] = 0]
    /\ mOpenVolumes' = [mOpenVolumes EXCEPT ![c] = {}]
    /\ lockLost' = [lockLost EXCEPT ![c] = FALSE]
    /\ closed' = [closed EXCEPT ![c] = FALSE]
    /\ UNCHANGED <<scavengerVars, mIsDirty, owed>>

(* Mutant of StopTracking: the mutex is not taken.                         *)
StopTrackingMutant(c) ==
    /\ thread[c] = "stopping"
    /\ mOpenConnections' = RemoveFirst(mOpenConnections, c)
    /\ Delete(c)

(* Mutant of StopTracking: the entry is left in the list.                  *)
StopTrackingForgetMutant(c) ==
    /\ thread[c] = "stopping"
    /\ phase = "snooze"
    /\ UNCHANGED mOpenConnections
    /\ Delete(c)

StopTracking(c) ==
    /\ thread[c] = "stopping"
    /\ phase = "snooze"
    /\ mOpenConnections' = RemoveFirst(mOpenConnections, c)
    /\ Delete(c)

-----------------------------------------------------------------------------
(* The scavenger's thread *)

Scavenger_Wake ==
    /\ phase = "snooze" /\ age >= TickleInterval
    /\ phase' = "next"
    /\ age' = 0
    /\ i' = 0
    /\ owed' = {p \in Range(mOpenConnections) \X mIsDirty : p[2] \in mOpenVolumes[p[1]]}
    /\ UNCHANGED <<current, todo, mOpenConnections, mIsDirty, thread, mContinueRecv,
                   sessionVars, sentAge, closed>>

(* dsi_connection::Send from this thread.  Once the client has closed the  *)
(* connection it may fail, which kills the session.                        *)
Send(c) ==
    /\ sentAge' = [sentAge EXCEPT ![c] = 0]
    /\ \/ UNCHANGED mContinueRecv
       \/ closed[c] /\ mContinueRecv' = [mContinueRecv EXCEPT ![c] = FALSE]

(* Mutant of Scavenger_Tickle: it is sleeping clients that get a tickle.   *)
Scavenger_TickleMutant ==
    /\ phase = "next" /\ i < Len(mOpenConnections)
    /\ phase' = "check"
    /\ i' = i + 1
    /\ current' = mOpenConnections[i + 1]
    /\ IF Interval(sentAge[current']) > TickleInterval /\ mClientIsSleeping[current']
       THEN Send(current')
       ELSE UNCHANGED <<sentAge, mContinueRecv>>
    /\ UNCHANGED <<age, todo, mOpenConnections, mIsDirty, thread, sessionVars, closed, owed>>

(* Take the next connection, and tickle its client if that is due.         *)
Scavenger_Tickle ==
    /\ phase = "next" /\ i < Len(mOpenConnections)
    /\ phase' = "check"
    /\ i' = i + 1
    /\ current' = mOpenConnections[i + 1]
    /\ IF Interval(sentAge[current']) > TickleInterval /\ ~mClientIsSleeping[current']
       THEN Send(current')
       ELSE UNCHANGED <<sentAge, mContinueRecv>>
    /\ UNCHANGED <<age, todo, mOpenConnections, mIsDirty, thread, sessionVars, closed, owed>>

(* Mutant of Scavenger_Kill: sleeping clients are left alone.              *)
Scavenger_KillMutant ==
    /\ phase = "check" /\ Overdue(current)
    /\ phase' = "next"
    /\ mContinueRecv' = [mContinueRecv EXCEPT ![current] = @ /\ mClientIsSleeping[current]]
    /\ owed' = {p \in owed : p[1] # current}
    /\ UNCHANGED <<age, i, current, todo, mOpenConnections, mIsDirty, thread,
                   sessionVars, sentAge, closed>>

(* An overdue session is killed unless its client sleeps and may go on     *)
(* sleeping; either way it is told nothing.                                *)
Scavenger_Kill ==
    /\ phase = "check" /\ Overdue(current)
    /\ phase' = "next"
    /\ mContinueRecv' =
         [mContinueRecv EXCEPT ![current] =
            @ /\ mClientIsSleeping[current] /\ Interval(recvAge[current]) <= SleepingInterval]
    /\ owed' = {p \in owed : p[1] # current}
    /\ UNCHANGED <<age, i, current, todo, mOpenConnections, mIsDirty, thread,
                   sessionVars, sentAge, closed>>

(* Otherwise the volumes are next.                                         *)
Scavenger_Check ==
    /\ phase = "check" /\ ~Overdue(current)
    /\ phase' = IF Volume = {} THEN "next" ELSE "volumes"
    /\ todo' = Volume
    /\ UNCHANGED <<age, i, current, mOpenConnections, mIsDirty, thread, mContinueRecv,
                   sessionVars, sentAge, closed, owed>>

(* One volume: HasVolumeOpen takes the session's mLock.                    *)
Scavenger_Volume(v) ==
    /\ phase = "volumes" /\ v \in todo
    /\ todo' = todo \ {v}
    /\ phase' = IF todo' = {} THEN "next" ELSE "volumes"
    /\ v \in mIsDirty => ~lockLost[current]
    /\ IF v \in mIsDirty /\ v \in mOpenVolumes[current]
       THEN Send(current) /\ owed' = owed \ {<<current, v>>}
       ELSE UNCHANGED <<sentAge, mContinueRecv, owed>>
    /\ UNCHANGED <<age, i, current, mOpenConnections, mIsDirty, thread, sessionVars, closed>>

(* Mutant of Scavenger_Clean: it does not wait for the end of the list.    *)
Scavenger_CleanMutant ==
    /\ phase = "next" /\ i + 1 >= Len(mOpenConnections)
    /\ mIsDirty' = {}
    /\ phase' = "snooze"
    /\ age' = 0
    /\ current' = NoConnection
    /\ i' = 0
    /\ UNCHANGED <<todo, mOpenConnections, thread, mContinueRecv, sessionVars,
                   sentAge, closed, owed>>

(* Mutant of Scavenger_Clean: the mutex is taken outside the loop.         *)
Scavenger_CleanHoldsMutant ==
    /\ phase = "next" /\ i >= Len(mOpenConnections)
    /\ mIsDirty' = {}
    /\ phase' = "next"
    /\ age' = 0
    /\ current' = NoConnection
    /\ i' = 0
    /\ UNCHANGED <<todo, mOpenConnections, thread, mContinueRecv, sessionVars,
                   sentAge, closed, owed>>

(* MarkAllVolumesClean, and the mutex is released.                         *)
Scavenger_Clean ==
    /\ phase = "next" /\ i >= Len(mOpenConnections)
    /\ mIsDirty' = {}
    /\ phase' = "snooze"
    /\ age' = 0
    /\ current' = NoConnection
    /\ i' = 0
    /\ UNCHANGED <<todo, mOpenConnections, thread, mContinueRecv, sessionVars,
                   sentAge, closed, owed>>

-----------------------------------------------------------------------------
Requests(c) ==
    \/ Tickle(c)
    \/ \E v \in Volume : VolumeOpened(c, v) \/ VolumeClosed(c, v) \/ MakeDirty(c, v)
    \/ CloseFile_Unknown(c)
    \/ Zzzz(c)
    \/ CloseSession(c)

ScavengerThread ==
    \/ Scavenger_Wake
    \/ Scavenger_Tickle
    \/ Scavenger_Kill
    \/ Scavenger_Check
    \/ \E v \in Volume : Scavenger_Volume(v)
    \/ Scavenger_Clean

Next ==
    \/ Tick
    \/ \E c \in Connection :
         \/ Client_Close(c)
         \/ ServerConnection(c) \/ TrackConnection(c)
         \/ Requests(c)
         \/ Receive_Return(c)
         \/ StopTracking(c)
    \/ ScavengerThread

Spec == Init /\ [][Next]_vars

(* Time passes and the threads run.  No client has to send anything.       *)
FairSpec ==
    /\ Spec
    /\ WF_vars(Tick) /\ WF_vars(ScavengerThread)
    /\ \A c \in Connection :
         /\ WF_vars(TrackConnection(c)) /\ WF_vars(StopTracking(c))
         /\ WF_vars(Receive_Return(c))

-----------------------------------------------------------------------------
(* Properties *)

(* Every variable has its type, and nobody is tracked twice.               *)
TypeOK ==
    /\ phase \in {"snooze", "next", "check", "volumes"}
    /\ age \in 0..MaxAge
    /\ mOpenConnections \in Seq(Connection) /\ IsInjective(mOpenConnections)
    /\ i \in 0..Len(mOpenConnections)
    /\ current \in Connection \cup {NoConnection}
    /\ todo \subseteq Volume /\ mIsDirty \subseteq Volume
    /\ thread \in [Connection -> {"none", "starting", "receiving", "stopping"}]
    /\ mContinueRecv \in [Connection -> BOOLEAN]
    /\ mClientIsSleeping \in [Connection -> BOOLEAN]
    /\ recvAge \in [Connection -> 0..MaxRecvAge]
    /\ sentAge \in [Connection -> 0..MaxSentAge]
    /\ mOpenVolumes \in [Connection -> SUBSET Volume]
    /\ lockLost \in [Connection -> BOOLEAN]
    /\ closed \in [Connection -> BOOLEAN]
    /\ owed \subseteq Connection \X Volume

(* The raw pointer the scavenger works with is to a dsi_connection that    *)
(* has not been deleted, although each is owned by its own thread.         *)
PointerIsLive ==
    phase \in {"check", "volumes"} => thread[current] \in {"receiving", "stopping"}

(* When the volumes are marked clean, every session that had a dirty       *)
(* volume open when the pass began, and was not overdue, has been told.    *)
AnnouncedBeforeClean ==
    [][phase = "next" /\ phase' = "snooze" => owed = {}]_vars

(* The scavenger only kills a session that is overdue, one whose client    *)
(* has closed the connection, or one that it heard from since it read the  *)
(* clock.                                                                  *)
KilledForAReason ==
    [][\A c \in Connection :
          phase \in {"next", "check", "volumes"} /\ phase' # phase
          /\ mContinueRecv[c] /\ ~mContinueRecv'[c]
          => recvAge[c] > DeadInterval \/ closed[c] \/ recvAge[c] < age]_vars

(* A silent client that is not asleep is detected, and its session, its    *)
(* thread and its entry in mOpenConnections go away, unless the scavenger  *)
(* waits for a session's lock that was lost.                               *)
DeadSessionEndsUnlessBlocked ==
    \A c \in Connection :
        (/\ thread[c] = "receiving" /\ recvAge[c] > DeadInterval
         /\ ~mClientIsSleeping[c])
        ~> (thread[c] = "none" \/ recvAge[c] = 0 \/ Blocked)

(* The session of a client that closed the connection goes away, even that *)
(* of a sleeping client, for which Receive goes round in circles; under    *)
(* the same exception.                                                     *)
ClosedConnectionEndsUnlessBlocked ==
    \A c \in Connection : closed[c] ~> (~closed[c] \/ Blocked)

(* A client that is awake and to which nothing has been sent is sent a     *)
(* tickle; under the same exception.                                       *)
QuietClientIsTickledUnlessBlocked ==
    \A c \in Connection :
        (/\ thread[c] = "receiving" /\ sentAge[c] > TickleInterval
         /\ ~mClientIsSleeping[c])
        ~> (sentAge[c] = 0 \/ mClientIsSleeping[c] \/ Blocked)

(* README.md:119 promises dead session detection with a 120-second         *)
(* timeout, without an exception.                                          *)
DeadSessionEnds ==
    \A c \in Connection :
        (/\ thread[c] = "receiving" /\ recvAge[c] > DeadInterval
         /\ ~mClientIsSleeping[c])
        ~> (thread[c] = "none" \/ recvAge[c] = 0)
=============================================================================
