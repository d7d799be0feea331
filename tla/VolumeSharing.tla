---------------------------- MODULE VolumeSharing ----------------------------
(***************************************************************************)
(* The shared volumes: the objects of class fp_volume, the global list     *)
(* volume_blist they are on, the preferences that say what to share when   *)
(* the server starts, and the sessions that open them and open files on    *)
(* them.  The list is changed by one thread, the looper of                 *)
(* afpServerApplication; the threads of the sessions search it.            *)
(*                                                                         *)
(* volume_blist_mutex protects a search of the list, not the object it     *)
(* found: StopSharingVolume may delete that object while a session's       *)
(* request, its mOpenVolumes or one of its open forks still points to it,  *)
(* and its address may be given to the next fp_volume.  What happens at a  *)
(* use of a deleted object is not defined: either the server dies, or the  *)
(* use has no effect on any other object.                                  *)
(***************************************************************************)
EXTENDS Integers, SequencesExt

CONSTANTS
    Session, Path,
    Leaf,               \* the last component of each path: the volume's name
    Address,            \* addresses fp_volume objects may have
    IDRange,            \* values of the 16-bit volume ID
    MaxOpenVolumes,     \* MAX_AFP_OPEN_VOLUMES
    MaxFiles,           \* MAX_AFP_FILES_OPEN
    MaxShares           \* bound: fp_volume objects made in the life of a server

ASSUME LeafAssumption == DOMAIN Leaf = Path
ASSUME IDAssumption == IDRange \in Nat \ {0} /\ IDRange % 2 = 0
ASSUME LimitAssumption ==
    MaxOpenVolumes \in Nat /\ MaxFiles \in Nat /\ MaxShares \in Nat

VARIABLES
    running,            \* is there a server process?
    preferences,        \* saved path -> its read-only flag; survives the process
    \* the server application
    looper,             \* what its thread is doing
    volume_blist,
    object,             \* the object at each address, or Freed
    gNextVolumeID,
    \* the sessions
    request,            \* the request each is handling
    mOpenVolumes,
    mOpenFiles,
    \* history
    shares,             \* objects made since the server started
    told                \* IDs the client of each session was given and has not closed

looperVars == <<running, preferences, looper, volume_blist, gNextVolumeID, shares>>
sessionVars == <<request, mOpenVolumes, mOpenFiles, told>>
vars == <<looperVars, object, sessionVars>>

-----------------------------------------------------------------------------
VolumeID == 0 .. IDRange - 1
Fork == [session : Session, refnum : 1 .. MaxFiles, volume : Address, volID : VolumeID]
VolumeObject == [path : Path, id : VolumeID, readOnly : BOOLEAN, mOpenFiles : SUBSET Fork]
Freed == [at |-> "freed"]

Waiting == [at |-> "waiting"]       \* the looper waits for a message
Idle == [op |-> "idle"]             \* a session waits for a request

Listed == Range(volume_blist)
Live(a) == object[a] # Freed
Name(a) == Leaf[object[a].path]

(* FindVolume returns the first volume of the list that matches.  An ID is *)
(* a signed number in the volume and an unsigned one in the search: from   *)
(* half the range on the two are never equal.                              *)
First(S) == {a \in S : \E n \in DOMAIN volume_blist :
    volume_blist[n] = a /\ \A m \in 1 .. n - 1 : volume_blist[m] \notin S}
WithID(id) == {a \in Listed : object[a].id = id /\ id < IDRange \div 2}
WithName(name) == {a \in Listed : Name(a) = name}
WithPath(path) == {a \in Listed : object[a].path = path}
FindVolumeByID(id) == First(WithID(id))
FindVolumeByName(name) == First(WithName(name))

HasVolumeOpen(s, a) == a \in Range(mOpenVolumes[s])

-----------------------------------------------------------------------------
(* The process *)

(* Nothing but the preferences outlives the process.                       *)
Stopped ==
    /\ running' = FALSE
    /\ looper' = Waiting
    /\ volume_blist' = <<>>
    /\ object' = [a \in Address |-> Freed]
    /\ gNextVolumeID' = 1
    /\ request' = [s \in Session |-> Idle]
    /\ mOpenVolumes' = [s \in Session |-> <<>>]
    /\ mOpenFiles' = [s \in Session |-> {}]
    /\ shares' = 0
    /\ told' = [s \in Session |-> {}]
    /\ UNCHANGED preferences

Init ==
    /\ running = FALSE
    /\ preferences = [p \in {} |-> FALSE]
    /\ looper = Waiting
    /\ volume_blist = <<>>
    /\ object = [a \in Address |-> Freed]
    /\ gNextVolumeID = 1
    /\ request = [s \in Session |-> Idle]
    /\ mOpenVolumes = [s \in Session |-> <<>>]
    /\ mOpenFiles = [s \in Session |-> {}]
    /\ shares = 0
    /\ told = [s \in Session |-> {}]

Start ==
    /\ ~running
    /\ running' = TRUE
    /\ looper' = [at |-> "shareall", todo |-> DOMAIN preferences]
    /\ UNCHANGED <<preferences, volume_blist, object, gNextVolumeID, shares, sessionVars>>

Stop == running /\ Stopped

-----------------------------------------------------------------------------
(* The server application *)

Without(path) == [p \in DOMAIN preferences \ {path} |-> preferences[p]]
With(path, flag) ==
    [p \in DOMAIN preferences \cup {path} |-> IF p = path THEN flag ELSE preferences[p]]

(* Mutant of NewVolume: the next volume gets the same ID.                  *)
NewVolumeMutant(path, flag) ==
    /\ shares < MaxShares
    /\ \E a \in Address :
        /\ ~Live(a)
        /\ object' = [object EXCEPT ![a] =
             [path |-> path, id |-> gNextVolumeID, readOnly |-> flag, mOpenFiles |-> {}]]
        /\ volume_blist' = Append(volume_blist, a)
    /\ shares' = shares + 1
    /\ UNCHANGED gNextVolumeID

(* new fp_volume, at any free address.                                     *)
NewVolume(path, flag) ==
    /\ shares < MaxShares
    /\ \E a \in Address :
        /\ ~Live(a)
        /\ object' = [object EXCEPT ![a] =
             [path |-> path, id |-> gNextVolumeID, readOnly |-> flag, mOpenFiles |-> {}]]
        /\ volume_blist' = Append(volume_blist, a)
    /\ gNextVolumeID' = (gNextVolumeID + 1) % IDRange
    /\ shares' = shares + 1

(* Mutant of StartSharingVolume: the search is for the path.               *)
StartSharingVolumeMutant(path, flag) ==
    IF WithPath(path) # {}
    THEN UNCHANGED <<object, volume_blist, gNextVolumeID, shares>>
    ELSE NewVolume(path, flag)

(* Nobody else changes the list between FindVolume and AddItem.            *)
StartSharingVolume(path, flag) ==
    IF WithName(Leaf[path]) # {}
    THEN UNCHANGED <<object, volume_blist, gNextVolumeID, shares>>
    ELSE NewVolume(path, flag)

(* The attributes of the preferences file are read in no given order.      *)
ShareAllVolumes ==
    /\ looper.at = "shareall"
    /\ \/ \E p \in looper.todo :
            /\ StartSharingVolume(p, preferences[p])
            /\ looper' = [looper EXCEPT !.todo = @ \ {p}]
       \/ /\ looper.todo = {}
          /\ looper' = Waiting
          /\ UNCHANGED <<object, volume_blist, gNextVolumeID, shares>>
    /\ UNCHANGED <<running, preferences, sessionVars>>

(* SaveVolumeData writes the preferences, then looks for a live volume of  *)
(* that path.  CMD_AFP_ADDSHARE goes on to share it.                       *)
SaveVolumeData(path, flag, share) ==
    /\ preferences' = With(path, flag)
    /\ looper' = [at |-> "update", path |-> path, flag |-> flag, share |-> share]
    /\ UNCHANGED <<running, volume_blist, object, gNextVolumeID, shares, sessionVars>>

AddShare(path, flag) ==
    /\ running /\ looper = Waiting
    /\ SaveVolumeData(path, flag, TRUE)

SetVolFlags(path, flag) ==
    /\ running /\ looper = Waiting
    /\ path \in DOMAIN preferences
    /\ SaveVolumeData(path, flag, FALSE)

(* Mutant of UpdateVolume: no live volume is changed.                      *)
UpdateVolumeMutant ==
    /\ looper.at = "update"
    /\ looper' = IF looper.share THEN [looper EXCEPT !.at = "start"] ELSE Waiting
    /\ UNCHANGED <<running, preferences, volume_blist, object, gNextVolumeID, shares,
                   sessionVars>>

UpdateVolume ==
    /\ looper.at = "update"
    /\ object' = [a \in Address |->
         IF a \in First(WithPath(looper.path))
         THEN [object[a] EXCEPT !.readOnly = looper.flag] ELSE object[a]]
    /\ looper' = IF looper.share THEN [looper EXCEPT !.at = "start"] ELSE Waiting
    /\ UNCHANGED <<running, preferences, volume_blist, gNextVolumeID, shares, sessionVars>>

AddShare_Start ==
    /\ looper.at = "start"
    /\ StartSharingVolume(looper.path, looper.flag)
    /\ looper' = Waiting
    /\ UNCHANGED <<running, preferences, sessionVars>>

(* The object is deleted whoever has it open.                              *)
StopSharingVolume(n) ==
    /\ volume_blist' = RemoveAt(volume_blist, n)
    /\ object' = [object EXCEPT ![volume_blist[n]] = Freed]

RemoveShare(path) ==
    /\ running /\ looper = Waiting
    /\ \E n \in DOMAIN volume_blist :
        volume_blist[n] \in First(WithPath(path)) /\ StopSharingVolume(n)
    /\ looper' = [at |-> "forget", path |-> path, deleted |-> FALSE]
    /\ UNCHANGED <<running, preferences, gNextVolumeID, shares, sessionVars>>

(* The share point was moved, renamed or deleted; or some other change of  *)
(* a share point left `nref' uninitialized.                                *)
NodeMonitor(n) ==
    /\ running /\ looper = Waiting
    /\ StopSharingVolume(n)
    /\ looper' = [at |-> "forget", path |-> object[volume_blist[n]].path, deleted |-> TRUE]
    /\ UNCHANGED <<running, preferences, gNextVolumeID, shares, sessionVars>>

(* The node monitor's path went with the object: what is removed is either *)
(* the right name or one that is not there.                                *)
RemoveVolumeData ==
    /\ looper.at = "forget"
    /\ \/ preferences' = Without(looper.path)
       \/ looper.deleted /\ UNCHANGED preferences
    /\ looper' = Waiting
    /\ UNCHANGED <<running, volume_blist, object, gNextVolumeID, shares, sessionVars>>

Application ==
    \/ ShareAllVolumes \/ UpdateVolume \/ AddShare_Start \/ RemoveVolumeData
    \/ \E p \in Path : RemoveShare(p) \/ \E flag \in BOOLEAN : AddShare(p, flag) \/ SetVolFlags(p, flag)
    \/ \E n \in DOMAIN volume_blist : NodeMonitor(n)

-----------------------------------------------------------------------------
(* The requests of a session.  The thread that handles one searches the    *)
(* list, and works with the volume it found after the mutex is unlocked.   *)

Ask(s, r) ==
    /\ running /\ request[s] = Idle
    /\ request' = [request EXCEPT ![s] = r]
    /\ UNCHANGED <<looperVars, object, mOpenVolumes, mOpenFiles, told>>
Answer(s) == request' = [request EXCEPT ![s] = Idle]

FPOpenVol(s, name) ==
    \E a \in FindVolumeByName(name) : Ask(s, [op |-> "openvol", volume |-> a])
FPCloseVol(s, id) ==
    \E a \in FindVolumeByID(id) : Ask(s, [op |-> "closevol", volume |-> a, id |-> id])
FPOpenFork(s, id) ==
    \E a \in FindVolumeByID(id) : Ask(s, [op |-> "openfork", volume |-> a, id |-> id])
FPCloseFork(s, f) == f \in mOpenFiles[s] /\ Ask(s, [op |-> "closefile", fork |-> f, ends |-> FALSE])

(* A use of the object at address a: of a deleted one, the server may die. *)
Used(a, Effect) ==
    \/ Effect /\ UNCHANGED looperVars
    \/ ~Live(a) /\ Stopped

(* Mutant of VolumeOpened: one volume too many.                            *)
VolumeOpenedMutant(s, a) ==
    /\ Len(mOpenVolumes[s]) <= MaxOpenVolumes
    /\ mOpenVolumes' = [mOpenVolumes EXCEPT ![s] = Append(@, a)]

VolumeOpened(s, a) ==
    /\ Len(mOpenVolumes[s]) < MaxOpenVolumes
    /\ mOpenVolumes' = [mOpenVolumes EXCEPT ![s] = Append(@, a)]

(* GetVolParms tells the client the ID, VolumeOpened adds the volume, and  *)
(* adds it again if it is open already.  GetVolParms fails if there is     *)
(* nothing at the path; the count may be at its limit.                     *)
OpenVol_Open(s) ==
    LET a == request[s].volume IN
    /\ request[s].op = "openvol"
    /\ Used(a, /\ \/ /\ VolumeOpened(s, a)
                     /\ told' = IF Live(a) THEN [told EXCEPT ![s] = @ \cup {object[a].id}] ELSE told
                  \/ UNCHANGED <<mOpenVolumes, told>>
               /\ Answer(s)
               /\ UNCHANGED <<object, mOpenFiles>>)

(* The first of its entries is removed.                                    *)
VolumeClosed(s, a) ==
    \E n \in DOMAIN mOpenVolumes[s] :
        /\ mOpenVolumes[s][n] = a
        /\ \A m \in 1 .. n - 1 : mOpenVolumes[s][m] # a
        /\ mOpenVolumes' = [mOpenVolumes EXCEPT ![s] = RemoveAt(@, n)]

CloseVol_Close(s) ==
    LET a == request[s].volume IN
    /\ request[s].op = "closevol"
    /\ IF HasVolumeOpen(s, a)
       THEN Used(a, /\ VolumeClosed(s, a)
                    /\ told' = [told EXCEPT ![s] = @ \ {request[s].id}]
                    /\ Answer(s)
                    /\ UNCHANGED <<object, mOpenFiles>>)
       ELSE Answer(s) /\ UNCHANGED <<looperVars, object, mOpenVolumes, mOpenFiles, told>>

(* mOpenFiles of a volume is changed only if the object is there.          *)
WithOpenFiles(a, files) ==
    object' = IF Live(a) THEN [object EXCEPT ![a].mOpenFiles = files] ELSE object

OpenFile(s, f) ==
    /\ mOpenFiles' = [mOpenFiles EXCEPT ![s] = @ \cup {f}]
    /\ WithOpenFiles(f.volume, object[f.volume].mOpenFiles \cup {f})

(* The path may lead nowhere, access may be refused, the session may have  *)
(* MaxFiles open: then no file is opened.  A file whose parameters cannot  *)
(* be read is closed again, as by FPCloseFork.                             *)
OpenFork_Open(s) ==
    LET a == request[s].volume
        free == {f \in Fork : /\ f.session = s /\ f.volume = a /\ f.volID = request[s].id
                              /\ \A g \in mOpenFiles[s] : g.refnum # f.refnum}
    IN
    /\ request[s].op = "openfork"
    /\ \/ /\ HasVolumeOpen(s, a)
          /\ Used(a, /\ \E f \in free : OpenFile(s, f)
                     /\ Answer(s)
                     /\ UNCHANGED <<mOpenVolumes, told>>)
       \/ Answer(s) /\ UNCHANGED <<looperVars, object, mOpenVolumes, mOpenFiles, told>>

(* CloseFile: the volume forgets the file, then its item is freed.         *)
CloseFile_Remove(s) ==
    LET f == request[s].fork IN
    /\ request[s].op = "closefile"
    /\ Used(f.volume, /\ WithOpenFiles(f.volume, object[f.volume].mOpenFiles \ {f})
                      /\ request' = [request EXCEPT ![s].op = "freefile"]
                      /\ UNCHANGED <<mOpenVolumes, mOpenFiles, told>>)

CloseFile_Free(s) ==
    /\ request[s].op = "freefile"
    /\ mOpenFiles' = [mOpenFiles EXCEPT ![s] = @ \ {request[s].fork}]
    /\ request' = [request EXCEPT ![s] = IF @.ends THEN [op |-> "end"] ELSE Idle]
    /\ UNCHANGED <<looperVars, object, mOpenVolumes, told>>

(* ~afp_session closes the volumes, then the files one by one; afterwards  *)
(* the session stands for the next client.                                 *)
EndSession(s) ==
    /\ running /\ request[s] = Idle
    /\ request' = [request EXCEPT ![s] = [op |-> "end"]]
    /\ mOpenVolumes' = [mOpenVolumes EXCEPT ![s] = <<>>]
    /\ told' = [told EXCEPT ![s] = {}]
    /\ UNCHANGED <<looperVars, object, mOpenFiles>>

(* Mutant of Destructor_File: the volumes are not asked to forget the files.  *)
Destructor_FileMutant(s) ==
    /\ request[s].op = "end"
    /\ \E f \in mOpenFiles[s] :
          request' = [request EXCEPT ![s] = [op |-> "freefile", fork |-> f, ends |-> TRUE]]
    /\ UNCHANGED <<looperVars, object, mOpenVolumes, mOpenFiles, told>>

Destructor_File(s) ==
    /\ request[s].op = "end"
    /\ \E f \in mOpenFiles[s] :
          request' = [request EXCEPT ![s] = [op |-> "closefile", fork |-> f, ends |-> TRUE]]
    /\ UNCHANGED <<looperVars, object, mOpenVolumes, mOpenFiles, told>>

Destructor_Done(s) ==
    /\ request[s].op = "end" /\ mOpenFiles[s] = {}
    /\ Answer(s)
    /\ UNCHANGED <<looperVars, object, mOpenVolumes, mOpenFiles, told>>

ClientRequest(s) ==
    \/ \E name \in Range(Leaf) : FPOpenVol(s, name)
    \/ \E id \in VolumeID : FPCloseVol(s, id) \/ FPOpenFork(s, id)
    \/ \E f \in mOpenFiles[s] : FPCloseFork(s, f)
    \/ EndSession(s)

SessionStep(s) ==
    \/ OpenVol_Open(s) \/ CloseVol_Close(s) \/ OpenFork_Open(s)
    \/ CloseFile_Remove(s) \/ CloseFile_Free(s)
    \/ Destructor_File(s) \/ Destructor_Done(s)

Next ==
    \/ Start \/ Stop \/ Application
    \/ \E s \in Session : ClientRequest(s) \/ SessionStep(s)

Spec == Init /\ [][Next]_vars

-----------------------------------------------------------------------------
(* Properties *)

(* Every variable has its type.                                            *)
Requests ==
    {Idle} \cup [op : {"openvol"}, volume : Address]
           \cup [op : {"closevol", "openfork"}, volume : Address, id : VolumeID]
           \cup [op : {"closefile", "freefile"}, fork : Fork, ends : BOOLEAN]
           \cup [op : {"end"}]
LooperStates ==
    {Waiting} \cup [at : {"shareall"}, todo : SUBSET Path]
              \cup [at : {"update", "start"}, path : Path, flag : BOOLEAN, share : BOOLEAN]
              \cup [at : {"forget"}, path : Path, deleted : BOOLEAN]
TypeOK ==
    /\ running \in BOOLEAN
    /\ DOMAIN preferences \subseteq Path
    /\ preferences \in [DOMAIN preferences -> BOOLEAN]
    /\ looper \in LooperStates
    /\ volume_blist \in Seq(Address)
    /\ object \in [Address -> VolumeObject \cup {Freed}]
    /\ gNextVolumeID \in VolumeID
    /\ request \in [Session -> Requests]
    /\ mOpenVolumes \in [Session -> Seq(Address)]
    /\ \A s \in Session : Len(mOpenVolumes[s]) <= MaxOpenVolumes
    /\ mOpenFiles \in [Session -> SUBSET Fork]
    /\ shares \in 0 .. MaxShares
    /\ told \in [Session -> SUBSET VolumeID]

(* FindVolume by name can only mean one volume: no two shared volumes have *)
(* the same name, whatever was saved, shared at a start, added or removed. *)
SharedNamesAreUnique ==
    \A m, n \in DOMAIN volume_blist :
        m # n => Name(volume_blist[m]) # Name(volume_blist[n])

(* What is shared is what a restart will find: a shared volume is in the   *)
(* preferences, and its live flag is the saved one, except while           *)
(* SaveVolumeData is between its two halves.                               *)
SharedIsSaved ==
    \A a \in Listed :
        /\ object[a].path \in DOMAIN preferences
        /\ \/ object[a].readOnly = preferences[object[a].path]
           \/ looper.at = "update" /\ looper.path = object[a].path

(* IsFileOpen of a volume reads the items of its mOpenFiles, of whatever   *)
(* session: none of them has been freed, not even by a session that ended. *)
ListedFilesAreOpen ==
    \A a \in {b \in Address : Live(b)} : \A f \in object[a].mOpenFiles :
        f \in mOpenFiles[f.session]

(* IsFileOpen knows every file that a session has open on the volume and   *)
(* is not closing, as long as the volume is shared; a volume shared later  *)
(* at the same address is another one.                                     *)
OpenFilesAreListed ==
    \A s \in Session : \A f \in mOpenFiles[s] :
        \/ ~Live(f.volume)
        \/ object[f.volume].id # f.volID
        \/ f \in object[f.volume].mOpenFiles
        \/ request[s].op = "freefile" /\ request[s].fork = f

(* A client can use the volumes it opened: an ID it was given and has not  *)
(* closed finds, as long as the volume is shared, a volume the session has *)
(* open.  From half the range of IDs on it does not: see FindVolumeByID.   *)
OpenVolumesAreFound ==
    \A s \in Session, a \in Listed :
        object[a].id \in told[s] /\ object[a].id < IDRange \div 2 =>
            /\ FindVolumeByID(object[a].id) = {a}
            /\ HasVolumeOpen(s, a)

(* What a session has open, volume or file, the server finds when it is    *)
(* asked for it, whatever was deleted and shared again at its address.     *)
OpenIsKnown == OpenFilesAreListed /\ OpenVolumesAreFound
=============================================================================
