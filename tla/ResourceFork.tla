---------------------------- MODULE ResourceFork ----------------------------
(***************************************************************************)
(* Open resource forks.  The host has no resource forks: the fork of a     *)
(* file is its attribute AFP_RSRC_ATTRIBUTE.  Opening the fork reads all of *)
(* it into a buffer of that open fork alone, requests work on the buffer,  *)
(* and a flush, a close or a change of the length removes the attribute    *)
(* and writes it anew.  Nothing tells the buffers of two open forks of one *)
(* file about each other, and each call on the attribute is atomic by      *)
(* itself only.                                                            *)
(*                                                                         *)
(* What a buffer holds is abstracted to a Content; a request that changes  *)
(* it gives any Content of the right size.  Range locks on forks are in    *)
(* module RangeLock.  Files whose name ends in .res have their fork        *)
(* elsewhere and are left out, and so are data forks, open modes (which no *)
(* request on a resource fork looks at) and the removal of an open file.   *)
(***************************************************************************)
EXTENDS Integers, SequencesExt

CONSTANTS
    Session, File,
    Content,            \* what a fork may hold
    Size,               \* the length of each content
    Empty,              \* the content of length 0
    Garbage,            \* what is in a buffer that was not read into
    Absent,             \* the value of an attribute that is not there
    RefRange,           \* values of the 16-bit reference number
    MaxFiles,           \* MAX_AFP_FILES_OPEN
    MaxOpens            \* bound: forks opened in the life of the server

ASSUME ContentAssumption ==
    /\ Size \in [Content -> Nat]
    /\ Empty \in Content /\ \A c \in Content : Size[c] = 0 <=> c = Empty
    /\ Garbage \in Content \ {Empty} /\ Absent \notin Content
ASSUME LimitAssumption ==
    RefRange \in Nat \ {0} /\ MaxFiles \in Nat /\ MaxOpens \in Nat

VARIABLES
    attr,               \* AFP_RSRC_ATTRIBUTE of each file
    mOpenFiles,         \* the open forks of each session
    mNextFileRef,
    task,               \* the request each session is in the middle of
    \* history
    saved,              \* what the client that saved a file last saved
    intact,             \* files whose last save was completed
    opens

vars == <<attr, mOpenFiles, mNextFileRef, task, saved, intact, opens>>

-----------------------------------------------------------------------------
RefNum == 0 .. RefRange - 1

(* The values FPOpenFork stores, and fp_GetFileParms looks for.            *)
kRsrcFork == 1
kResourceForkBit == 128

(* Besides what the code keeps, an open fork has a history: what its       *)
(* client wrote ("no": all is flushed; "yes": since the last save; "set":  *)
(* before an FPSetForkParms that saved it, but left rsrcDirty), and how    *)
(* many forks its session has opened since (up to RefRange).               *)
Fork == [refnum : RefNum, forkopen : {kRsrcFork}, file : File, rsrcIO : Content,
         rsrcDirty : BOOLEAN, wrote : {"no", "yes", "set"}, age : 0..RefRange]

Idle == [at |-> "idle"]
Saving(f) == \E s \in Session :
    task[s].at \in {"remove", "write"} /\ mOpenFiles[s][task[s].index].file = f

InAttr(f) == IF attr[f] = Absent THEN Empty ELSE attr[f]
NotEmpty == Content \ {Empty, Garbage}

(* Mutant of NextRef: the lowest number that a count of the open forks     *)
(* suggests.                                                               *)
NextRefMutant(s) == (Len(mOpenFiles[s]) + 1) % RefRange

NextRef(s) == mNextFileRef[s]

(* GetForkItem: the place of the first fork with the number, or 0.         *)
GetForkItem(s, refnum) == SelectInSeq(mOpenFiles[s], LAMBDA k : k.refnum = refnum)

-----------------------------------------------------------------------------
Init ==
    /\ attr \in [File -> NotEmpty \cup {Absent}]
    /\ mOpenFiles = [s \in Session |-> <<>>]
    /\ mNextFileRef = [s \in Session |-> 1 % RefRange]
    /\ task = [s \in Session |-> Idle]
    /\ saved = [f \in File |-> InAttr(f)]
    /\ intact = File
    /\ opens = 0

(* Mutant of SizeToRead: that there is no attribute goes unnoticed.        *)
SizeToReadMutant(f) == IF attr[f] = Absent THEN 1 ELSE Size[attr[f]]

(* GetAttrInfo.                                                            *)
SizeToRead(f) == Size[InAttr(f)]

(* Mutant of NewFork: the fork begins as dirty.                            *)
NewForkMutant(s, f) ==
    [refnum |-> NextRef(s), forkopen |-> kRsrcFork, file |-> f, rsrcIO |-> Empty,
     rsrcDirty |-> TRUE, wrote |-> "no", age |-> 0]

NewFork(s, f) ==
    [refnum |-> NextRef(s), forkopen |-> kRsrcFork, file |-> f, rsrcIO |-> Empty,
     rsrcDirty |-> FALSE, wrote |-> "no", age |-> 0]

FPOpenFork(s) ==
    /\ task[s] = Idle
    /\ Len(mOpenFiles[s]) < MaxFiles /\ opens < MaxOpens
    /\ \E f \in File :
          task' = [task EXCEPT ![s] =
             [at |-> "read", fork |-> NewFork(s, f), size |-> SizeToRead(f),
              raced |-> Saving(f)]]
    /\ mNextFileRef' = [mNextFileRef EXCEPT ![s] = (@ + 1) % RefRange]
    /\ opens' = opens + 1
    /\ UNCHANGED <<attr, mOpenFiles, saved, intact>>

(* The buffer has the size the attribute had: of an attribute that is no   *)
(* longer there, or has another size now, it does not become the content.  *)
ReadAttr(f, size) ==
    CASE size = 0                  -> Empty
      [] size = Size[InAttr(f)]    -> InAttr(f)
      [] OTHER                     -> Garbage

OpenAndReadInResourceFork(s) ==
    /\ task[s].at = "read"
    /\ LET k == task[s].fork
           older == [i \in DOMAIN mOpenFiles[s] |->
                        [mOpenFiles[s][i] EXCEPT
                            !.age = IF @ < RefRange THEN @ + 1 ELSE @]]
       IN  mOpenFiles' = [mOpenFiles EXCEPT ![s] = Append(older,
              [k EXCEPT !.rsrcIO = ReadAttr(k.file, task[s].size)])]
    /\ task' = [task EXCEPT ![s] = Idle]
    /\ UNCHANGED <<attr, mNextFileRef, saved, intact, opens>>

-----------------------------------------------------------------------------
(* A request names a fork by its reference number.                         *)
Request(s, i) ==
    /\ task[s] = Idle
    /\ \E refnum \in RefNum : i = GetForkItem(s, refnum) /\ i # 0

FPWrite(s, i) ==
    /\ Request(s, i)
    /\ \E c \in NotEmpty :
          mOpenFiles' = [mOpenFiles EXCEPT ![s][i].rsrcIO = c,
                            ![s][i].rsrcDirty = TRUE, ![s][i].wrote = "yes"]
    /\ UNCHANGED <<attr, mNextFileRef, task, saved, intact, opens>>

(* The length is set in the buffer, and all of it is saved.                *)
FPSetForkParms(s, i) ==
    /\ Request(s, i)
    /\ \E c \in NotEmpty \cup {Empty} :
          mOpenFiles' = [mOpenFiles EXCEPT ![s][i].rsrcIO = c, ![s][i].wrote = "yes"]
    /\ task' = [task EXCEPT ![s] = [at |-> "remove", op |-> "set", index |-> i]]
    /\ UNCHANGED <<attr, mNextFileRef, saved, intact, opens>>

(* A fork that was not written to is not saved.                            *)
FPFlushFork(s, i) ==
    /\ Request(s, i)
    /\ mOpenFiles[s][i].rsrcDirty
    /\ task' = [task EXCEPT ![s] = [at |-> "remove", op |-> "flush", index |-> i]]
    /\ UNCHANGED <<attr, mOpenFiles, mNextFileRef, saved, intact, opens>>

(* Mutant of CloseFile: the fork is saved, dirty or not.                   *)
CloseFileMutant(s, i, op) ==
    /\ task' = [task EXCEPT ![s] = [at |-> "remove", op |-> op, index |-> i]]
    /\ UNCHANGED <<attr, mOpenFiles, mNextFileRef, saved, intact, opens>>

(* CloseFile, for a request or one after the other as the session ends.    *)
CloseFile(s, i, op) ==
    /\ IF mOpenFiles[s][i].rsrcDirty
       THEN /\ task' = [task EXCEPT ![s] = [at |-> "remove", op |-> op, index |-> i]]
            /\ UNCHANGED mOpenFiles
       ELSE /\ mOpenFiles' = [mOpenFiles EXCEPT ![s] = RemoveAt(@, i)]
            /\ task' = [task EXCEPT ![s] = IF op = "end" THEN [at |-> "end"] ELSE Idle]
    /\ UNCHANGED <<attr, mNextFileRef, saved, intact, opens>>

FPCloseFork(s, i) == Request(s, i) /\ CloseFile(s, i, "close")

(* The session's destructor; the next session starts from nothing.         *)
EndSession(s) ==
    /\ task[s] = Idle
    /\ task' = [task EXCEPT ![s] = [at |-> "end"]]
    /\ UNCHANGED <<attr, mOpenFiles, mNextFileRef, saved, intact, opens>>

EndCloses(s) ==
    /\ task[s].at = "end"
    /\ IF mOpenFiles[s] # <<>>
       THEN CloseFile(s, GetForkItem(s, Head(mOpenFiles[s]).refnum), "end")
       ELSE /\ task' = [task EXCEPT ![s] = Idle]
            /\ mNextFileRef' = [mNextFileRef EXCEPT ![s] = 1 % RefRange]
            /\ UNCHANGED <<attr, mOpenFiles, saved, intact, opens>>

-----------------------------------------------------------------------------
(* The request of s goes on as t; it has changed the attribute of f, which *)
(* others may be reading.                                                  *)
GoesOn(s, f, t) ==
    task' = [r \in Session |->
        IF r = s THEN t
        ELSE IF task[r].at = "read" /\ task[r].fork.file = f
             THEN [task[r] EXCEPT !.raced = TRUE] ELSE task[r]]

(* What is left of the request when the attribute has been written, or     *)
(* could not be: but FPSetForkParms none looks.                            *)
Finish(s) ==
    LET op == task[s].op
        i == task[s].index
    IN  /\ GoesOn(s, mOpenFiles[s][i].file, IF op = "end" THEN [at |-> "end"] ELSE Idle)
        /\ mOpenFiles' = [mOpenFiles EXCEPT ![s] =
              IF op \in {"close", "end"} THEN RemoveAt(@, i)
              ELSE IF op = "flush"
                   THEN [@ EXCEPT ![i].rsrcDirty = FALSE, ![i].wrote = "no"]
                   ELSE [@ EXCEPT ![i].wrote = IF mOpenFiles[s][i].rsrcDirty
                                               THEN "set" ELSE "no"]]

(* Its client has been told that the fork is saved.                        *)
Saved(s) ==
    LET k == mOpenFiles[s][task[s].index]
    IN  /\ saved' = [saved EXCEPT ![k.file] = k.rsrcIO]
        /\ intact' = intact \cup {k.file}

(* Mutant of WritesNothing: no fork of any length is written back.         *)
WritesNothingMutant(s) == task[s].op = "set"

(* A fork set to length 0 has no attribute.                                *)
WritesNothing(s) ==
    task[s].op = "set" /\ mOpenFiles[s][task[s].index].rsrcIO = Empty

RemoveAttr(s) ==
    /\ task[s].at = "remove"
    /\ LET f == mOpenFiles[s][task[s].index].file IN
          /\ attr' = [attr EXCEPT ![f] = Absent]
          /\ IF WritesNothing(s)
             THEN Finish(s) /\ Saved(s)
             ELSE /\ GoesOn(s, f, [task[s] EXCEPT !.at = "write"])
                  /\ UNCHANGED <<mOpenFiles, saved, intact>>
    /\ UNCHANGED <<mNextFileRef, opens>>

WriteAttr(s) ==
    /\ task[s].at = "write"
    /\ LET k == mOpenFiles[s][task[s].index] IN
          attr' = [attr EXCEPT ![k.file] = k.rsrcIO]
    /\ Finish(s) /\ Saved(s)
    /\ UNCHANGED <<mNextFileRef, opens>>

(* The disk is full, say.                                                  *)
WriteAttrFails(s) ==
    /\ task[s].at = "write"
    /\ intact' = intact \ {mOpenFiles[s][task[s].index].file}
    /\ Finish(s)
    /\ UNCHANGED <<attr, mNextFileRef, saved, opens>>

(* The process ends.  Attributes are all that survives it.                 *)
ServerStops ==
    /\ mOpenFiles' = [s \in Session |-> <<>>]
    /\ mNextFileRef' = [s \in Session |-> 1 % RefRange]
    /\ task' = [s \in Session |-> Idle]
    /\ intact' = intact \ {f \in File : \E s \in Session :
          task[s].at = "write" /\ mOpenFiles[s][task[s].index].file = f}
    /\ opens' = 0
    /\ UNCHANGED <<attr, saved>>

-----------------------------------------------------------------------------
(* The length fp_GetFileParms replies to a session: that of the buffer of  *)
(* an open fork, or else that of the attribute.                            *)
IsFileOpen(f, fork) ==
    {k.refnum : k \in {k \in UNION {ToSet(mOpenFiles[s]) : s \in Session} :
                          k.file = f /\ k.forkopen = fork}}

RsrcForkLength(s, f) ==
    LET refs == IsFileOpen(f, kResourceForkBit) IN
    IF refs # {}
    THEN Size[mOpenFiles[s][GetForkItem(s, CHOOSE r \in refs : TRUE)].rsrcIO]
    ELSE Size[InAttr(f)]

-----------------------------------------------------------------------------
Next ==
    \/ \E s \in Session :
          \/ FPOpenFork(s) \/ OpenAndReadInResourceFork(s)
          \/ EndSession(s) \/ EndCloses(s)
          \/ RemoveAttr(s) \/ WriteAttr(s) \/ WriteAttrFails(s)
          \/ \E i \in DOMAIN mOpenFiles[s] :
                \/ FPWrite(s, i) \/ FPSetForkParms(s, i)
                \/ FPFlushFork(s, i) \/ FPCloseFork(s, i)
    \/ ServerStops

Spec == Init /\ [][Next]_vars

-----------------------------------------------------------------------------
(* Every variable has its type, and a task is about an open fork.          *)
TypeOK ==
    /\ attr \in [File -> Content \cup {Absent}]
    /\ saved \in [File -> Content] /\ intact \subseteq File
    /\ mNextFileRef \in [Session -> RefNum]
    /\ \A s \in Session :
          /\ mOpenFiles[s] \in Seq(Fork) /\ Len(mOpenFiles[s]) <= MaxFiles
          /\ task[s].at \in {"idle", "read", "remove", "write", "end"}
          /\ task[s].at \in {"remove", "write"} =>
                /\ task[s].index \in DOMAIN mOpenFiles[s]
                /\ task[s].op = "set" \/ mOpenFiles[s][task[s].index].rsrcDirty
    /\ opens \in 0..MaxOpens

(* What a client has been told is saved, by a flush, a close or a change   *)
(* of the length, is what the file has, whichever requests on other forks  *)
(* of that file came in between and although the server may stop at any    *)
(* time, until a save fails or is cut off between its two calls.           *)
SavedIsOnDisk ==
    \A f \in intact : ~Saving(f) => InAttr(f) = saved[f]

(* Two open forks of a session have one reference number only if the       *)
(* session has gone through all of them while the older was open.          *)
RefNumsAreUnique ==
    \A s \in Session : \A i, j \in DOMAIN mOpenFiles[s] :
       (i < j /\ mOpenFiles[s][i].refnum = mOpenFiles[s][j].refnum)
          => mOpenFiles[s][i].age = RefRange

(* A fork is read whole: a buffer that begins with anything else than the  *)
(* fork was filled while another session saved the file.                   *)
ForksAreReadWhole ==
    [][\A s \in Session :
          (OpenAndReadInResourceFork(s)
             /\ mOpenFiles'[s][Len(mOpenFiles'[s])].rsrcIO = Garbage)
          => task[s].raced]_vars

(* A session changes the fork of a file only through a fork to which its   *)
(* client has written since it was opened or flushed: one that only read   *)
(* does not undo what others have saved.  A fork whose length was set      *)
(* after a write may do so, as it stays dirty.                             *)
OnlyWritersSave ==
    [][\A s \in Session :
          (attr' # attr /\ task'[s].at # task[s].at)
             => mOpenFiles[s][task[s].index].wrote # "no"]_vars

(* The length a client is told of a fork it has open is that of the fork   *)
(* as it reads it.                                                         *)
OpenForkLengthIsTheBuffers ==
    \A s \in Session : \A i \in DOMAIN mOpenFiles[s] :
       task[s] = Idle =>
          RsrcForkLength(s, mOpenFiles[s][i].file) = Size[mOpenFiles[s][i].rsrcIO]
=============================================================================
