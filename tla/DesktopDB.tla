----------------------------- MODULE DesktopDB -----------------------------
(***************************************************************************)
(* The desktop database of a volume: the file .afpdesktop.db, which holds  *)
(* a header with a count per type of entry and then the entries, icons and *)
(* applications, in one array.  Sessions open it with FPOpenDT, each with  *)
(* a BFile of its own, add to it, remove from it and search it.            *)
(*                                                                         *)
(* desk_mutex is held from the search of an operation to the last of its   *)
(* writes; FPOpenDT makes the file and writes its first header without it. *)
(* Header, entries and file size are written one after the other, and the  *)
(* server may stop, or a write fail, between any two of them.              *)
(*                                                                         *)
(* The comments of the Finder belong to the desktop, too, but are kept     *)
(* beside it, in an attribute of the object each is about.                 *)
(***************************************************************************)
EXTENDS Integers, FiniteSets, SequencesExt

CONSTANTS
    Session,
    Creator,            \* creators of files and applications
    Kind,               \* a file type and an icon type
    Size,               \* sizes of an icon's data
    Tag,                \* the rest of an entry: tag, data, place of an application
    Object,             \* files and folders that may have a comment
    Comment,            \* comments
    Blank,              \* the comment without a character
    None,               \* no creator, no kind, no value, no attribute
    MaxEntries,         \* bound: entries in the file
    MaxDeskRefs         \* bound: desktops a session opens

ASSUME SizeAssumption == Size \subseteq Nat \ {0}
ASSUME NoneAssumption == None \notin Creator \cup Kind \cup Comment \cup {Blank}
ASSUME BoundAssumption == MaxEntries \in Nat \ {0} /\ MaxDeskRefs \in Nat

VARIABLES
    file,               \* the file .afpdesktop.db
    comment,            \* the AFP_CMNT_ATTRIBUTE of each object
    request,            \* what each session is doing
    mOpenDesks, mNextDeskRef,
    \* history
    counted,            \* nothing has happened since that lets the counts be wrong
    sound               \* no fault has hit a write where it harms the entries

vars == <<file, comment, request, mOpenDesks, mNextDeskRef, counted, sound>>

-----------------------------------------------------------------------------
(* The file *)

Icon == [entryType : {"ICON"}, fileCreator : Creator, kind : Kind, dataSize : Size, tag : Tag]
Appl == [entryType : {"APPL"}, fileCreator : Creator, kind : {None}, dataSize : {0}, tag : Tag]

(* What is read where no entry begins.  Its type is any byte.              *)
Garbled == [entryType : {"EMPTY", "ICON", "APPL"}, fileCreator : {None}, kind : {None},
            dataSize : {0}, tag : {None}]
DesktopEntry == Icon \cup Appl

(* What names an entry: its type, its creator and, of an icon, its kind.   *)
KeyOf(e) == [entryType |-> e.entryType, fileCreator |-> e.fileCreator, kind |-> e.kind]
Keys == {KeyOf(e) : e \in DesktopEntry}

ASSUME ObjectAssumption == Object \cap Keys = {} /\ None \notin DesktopEntry

NoFile == [there |-> FALSE]
NoHeader == [iconCount |-> -1, applCount |-> -1]    \* a legacy file, or an empty one
Zeros == [iconCount |-> 0, applCount |-> 0]

DesktopFile(header, entries) == [there |-> TRUE, header |-> header, entries |-> entries]

Number(entries, type) == Cardinality({i \in DOMAIN entries : entries[i].entryType = type})

(* The counts of a new header, taken from the entries in memory.           *)
Counts(entries) ==
    [iconCount |-> Number(entries, "ICON"), applCount |-> Number(entries, "APPL")]

afp_CountDesktopItems(db) == IF db.header = NoHeader THEN Counts(db.entries) ELSE db.header

EqualIcon(search, e) ==
    /\ e.entryType = "ICON"
    /\ e.fileCreator = search.fileCreator
    /\ e.kind = search.kind
EqualAppl(search, e) == e.entryType = "APPL" /\ e.fileCreator = search.fileCreator

(* What the loop of afp_FindDTEntry stops at.  The index is the place      *)
(* among all entries, and an application counts for FPGetIconInfo.         *)
Matches(search, index, e, place) ==
    IF search.entryType = "ICON"
    THEN \/ search.dataSize # 0 /\ EqualIcon(search, e)
         \/ index = place /\ e.fileCreator = search.fileCreator
    ELSE EqualAppl(search, e)

(* Mutant of afp_FindDTEntry: the last index is out of range.              *)
afp_FindDTEntryMutant(db, search, index) ==
    LET counts == afp_CountDesktopItems(db)
        count == IF search.entryType = "ICON" THEN counts.iconCount ELSE counts.applCount
        found == {i \in DOMAIN db.entries : Matches(search, index, db.entries[i], i)}
    IN  IF (index > 0 /\ index >= count) \/ found = {} THEN 0
        ELSE CHOOSE i \in found : \A j \in found : i <= j

(* The place of the entry found, or 0.                                     *)
afp_FindDTEntry(db, search, index) ==
    LET counts == afp_CountDesktopItems(db)
        count == IF search.entryType = "ICON" THEN counts.iconCount ELSE counts.applCount
        found == {i \in DOMAIN db.entries : Matches(search, index, db.entries[i], i)}
    IN  IF index > count \/ found = {} THEN 0
        ELSE CHOOSE i \in found : \A j \in found : i <= j

FPGetIcon(db, creator, kind) ==
    afp_FindDTEntry(db, [entryType |-> "ICON", fileCreator |-> creator, kind |-> kind,
                         dataSize |-> 1], 0)
FPGetIconInfo(db, creator, index) ==
    afp_FindDTEntry(db, [entryType |-> "ICON", fileCreator |-> creator, kind |-> None,
                         dataSize |-> 0], index)
FPGetAPPL(db, creator, index) ==
    afp_FindDTEntry(db, [entryType |-> "APPL", fileCreator |-> creator, kind |-> None,
                         dataSize |-> 0], index)

(* A blank comment is as good as none.                                     *)
FPGetComment(n) == IF comment[n] = Blank THEN None ELSE comment[n]

-----------------------------------------------------------------------------
(* Who is doing what *)

Idle == [at |-> "idle"]

Writing(s) == request[s].at \in {"header", "entries", "resize"}
deskMutexFree == \A s \in Session : ~Writing(s)

Init ==
    /\ \/ file = NoFile
       \/ \E e \in DesktopEntry : file = DesktopFile(NoHeader, <<e>>)
    /\ comment = [n \in Object |-> None]
    /\ request = [s \in Session |-> Idle]
    /\ mOpenDesks = [s \in Session |-> {}]
    /\ mNextDeskRef = [s \in Session |-> 1]
    /\ counted = TRUE
    /\ sound = TRUE

-----------------------------------------------------------------------------
(* FPOpenDT and FPCloseDT *)

FPOpenDT(s) ==
    /\ request[s] = Idle
    /\ mNextDeskRef[s] <= MaxDeskRefs
    /\ request' = [request EXCEPT ![s] = [at |-> IF file.there THEN "open" ELSE "create"]]
    /\ UNCHANGED <<file, comment, mOpenDesks, mNextDeskRef, counted, sound>>

(* CreateFile leaves a file as it is that another session has made since.  *)
FPOpenDT_CreateFile(s) ==
    /\ request[s].at = "create"
    /\ file' = IF file.there THEN file ELSE DesktopFile(NoHeader, <<>>)
    /\ request' = [request EXCEPT ![s] = [at |-> "zero"]]
    /\ UNCHANGED <<comment, mOpenDesks, mNextDeskRef, counted, sound>>

(* The first header goes into whatever the file holds by then.             *)
FPOpenDT_WriteHeader(s) ==
    /\ request[s].at = "zero"
    /\ \/ UNCHANGED <<file, counted>>      \* the file could not be opened
       \/ /\ file' = [file EXCEPT !.header = Zeros]
          /\ counted' = (counted /\ file.entries = <<>> /\ deskMutexFree)
    /\ request' = [request EXCEPT ![s] = [at |-> "open"]]
    /\ UNCHANGED <<comment, mOpenDesks, mNextDeskRef, sound>>

OpenDesktop(s) ==
    /\ mOpenDesks' = [mOpenDesks EXCEPT ![s] = @ \cup {mNextDeskRef[s]}]
    /\ mNextDeskRef' = [mNextDeskRef EXCEPT ![s] = @ + 1]

(* The Finder info is set and the file opened, either of which may fail.   *)
FPOpenDT_OpenDesktop(s) ==
    /\ request[s].at = "open"
    /\ OpenDesktop(s) \/ UNCHANGED <<mOpenDesks, mNextDeskRef>>
    /\ request' = [request EXCEPT ![s] = Idle]
    /\ UNCHANGED <<file, comment, counted, sound>>

GetDeskItem(s, refnum) == refnum \in mOpenDesks[s]

CloseDesktop(s, refnum) ==
    /\ GetDeskItem(s, refnum)
    /\ mOpenDesks' = [mOpenDesks EXCEPT ![s] = @ \ {refnum}]

FPCloseDT(s, refnum) ==
    /\ request[s] = Idle
    /\ CloseDesktop(s, refnum)
    /\ UNCHANGED <<file, comment, request, mNextDeskRef, counted, sound>>

(* The session ends between two requests, and a new one takes its place.   *)
EndSession(s) ==
    /\ request[s] = Idle
    /\ mOpenDesks' = [mOpenDesks EXCEPT ![s] = {}]
    /\ mNextDeskRef' = [mNextDeskRef EXCEPT ![s] = 1]
    /\ UNCHANGED <<file, comment, request, counted, sound>>

-----------------------------------------------------------------------------
(* FPAddIcon, FPAddAPPL and FPRemoveAPPL *)

(* The search and the new array, in memory, under desk_mutex.              *)
BeginWrite(s, image, entry, removes) ==
    /\ request' = [request EXCEPT ![s] = [at |-> "header", image |-> image, entry |-> entry,
                                          removes |-> removes, old |-> <<>>]]
    /\ UNCHANGED <<file, comment, mOpenDesks, mNextDeskRef, counted, sound>>

(* Mutant of afp_AddEntry: desk_mutex is not taken.                        *)
afp_AddEntryMutant(s, refnum, e) ==
    /\ request[s] = Idle /\ GetDeskItem(s, refnum)
    /\ afp_FindDTEntry(file, e, 0) = 0
    /\ Len(file.entries) < MaxEntries
    /\ BeginWrite(s, Append(file.entries, e), e, FALSE)

(* An entry that is found is replaced, an icon only by one of its size.    *)
afp_AddEntry(s, refnum, e) ==
    /\ request[s] = Idle /\ GetDeskItem(s, refnum) /\ deskMutexFree
    /\ LET place == afp_FindDTEntry(file, e, 0)
       IN  \/ /\ place = 0
              /\ Len(file.entries) < MaxEntries
              /\ BeginWrite(s, Append(file.entries, e), e, FALSE)
           \/ /\ place # 0
              /\ e.entryType = "ICON" => file.entries[place].dataSize = e.dataSize
              /\ BeginWrite(s, [file.entries EXCEPT ![place] = e], e, FALSE)

(* Mutant of afp_RemoveEntry: the entries behind are not moved up.         *)
afp_RemoveEntryMutant(s, refnum, creator) ==
    /\ request[s] = Idle /\ GetDeskItem(s, refnum) /\ deskMutexFree
    /\ LET place == FPGetAPPL(file, creator, 0)
       IN  place # 0 /\ BeginWrite(s, Front(file.entries), file.entries[place], TRUE)

(* Whatever its place in the volume, the creator's application goes.  The  *)
(* overlapping memcpy() is taken to copy upwards.                          *)
afp_RemoveEntry(s, refnum, creator) ==
    /\ request[s] = Idle /\ GetDeskItem(s, refnum) /\ deskMutexFree
    /\ LET place == FPGetAPPL(file, creator, 0)
       IN  /\ place # 0
           /\ BeginWrite(s, RemoveAt(file.entries, place), file.entries[place], TRUE)

FPAddIcon(s, refnum) == \E e \in Icon : afp_AddEntry(s, refnum, e)
FPAddAPPL(s, refnum) == \E e \in Appl : afp_AddEntry(s, refnum, e)

(* A failure to remove the entry is not reported.                          *)
FPRemoveAPPL(s, refnum) == \E creator \in Creator : afp_RemoveEntry(s, refnum, creator)

(* Behind a header that was not there before, no entry begins where the    *)
(* entries of a legacy file do.                                            *)
WriteHeader(s) ==
    /\ request[s].at = "header"
    /\ LET n == Len(file.entries)
       IN  \E entries \in IF file.header = NoHeader /\ n > 0 THEN [1 .. n - 1 -> Garbled]
                                                            ELSE {file.entries} :
               file' = DesktopFile(Counts(request[s].image), entries)
    /\ request' = [request EXCEPT ![s].at = "entries", ![s].old = file.entries]
    /\ counted' = TRUE
    /\ UNCHANGED <<comment, mOpenDesks, mNextDeskRef, sound>>

(* The write covers as many entries as the array has.  When it fails, a    *)
(* removal goes on and cuts the file.                                      *)
WriteEntries(s) ==
    LET image == request[s].image
        harmed == request[s].removes \/ file.entries # request[s].old
    IN  /\ request[s].at = "entries"
        /\ \/ /\ file' = [file EXCEPT !.entries =
                        image \o SubSeq(@, Len(image) + 1, Len(@))]
              /\ UNCHANGED <<counted, sound>>
           \/ /\ counted' = FALSE
              /\ sound' = (sound /\ ~harmed)
              /\ UNCHANGED file
        /\ request' = [request EXCEPT ![s] =
                IF request[s].removes THEN [@ EXCEPT !.at = "resize", !.old = <<>>] ELSE Idle]
        /\ UNCHANGED <<comment, mOpenDesks, mNextDeskRef>>

(* Mutant of SetSize: the file keeps its length.                           *)
SetSizeMutant(s) ==
    /\ request[s].at = "resize"
    /\ request' = [request EXCEPT ![s] = Idle]
    /\ UNCHANGED <<file, comment, mOpenDesks, mNextDeskRef, counted, sound>>

SetSize(s) ==
    /\ request[s].at = "resize"
    /\ file' = [file EXCEPT !.entries = SubSeq(@, 1, Len(request[s].image))]
    /\ request' = [request EXCEPT ![s] = Idle]
    /\ UNCHANGED <<comment, mOpenDesks, mNextDeskRef, counted, sound>>

-----------------------------------------------------------------------------
(* FPAddComment and FPRemoveComment, without desk_mutex.  The object is    *)
(* looked up, and then its attribute written or removed, which may fail.   *)
FPAddComment(s, refnum) ==
    /\ request[s] = Idle /\ GetDeskItem(s, refnum)
    /\ \E n \in Object, text \in Comment \cup {Blank} :
          request' = [request EXCEPT ![s] = [at |-> "comment", object |-> n, text |-> text]]
    /\ UNCHANGED <<file, comment, mOpenDesks, mNextDeskRef, counted, sound>>

FPRemoveComment(s, refnum) ==
    /\ request[s] = Idle /\ GetDeskItem(s, refnum)
    /\ \E n \in Object :
          request' = [request EXCEPT ![s] = [at |-> "comment", object |-> n, text |-> None]]
    /\ UNCHANGED <<file, comment, mOpenDesks, mNextDeskRef, counted, sound>>

WriteComment(s) ==
    /\ request[s].at = "comment"
    /\ \/ comment' = [comment EXCEPT ![request[s].object] = request[s].text]
       \/ UNCHANGED comment
    /\ request' = [request EXCEPT ![s] = Idle]
    /\ UNCHANGED <<file, mOpenDesks, mNextDeskRef, counted, sound>>

-----------------------------------------------------------------------------
(* The file is as the last write left it.                                  *)
ServerStops ==
    LET torn(s) == \/ request[s].at = "entries"
                   \/ request[s].at = "resize" /\ Len(file.entries) > Len(request[s].image)
        harmed(s) == \/ request[s].at = "entries" /\ file.entries # request[s].old
                     \/ request[s].at = "resize" /\ torn(s)
    IN  /\ request' = [s \in Session |-> Idle]
        /\ mOpenDesks' = [s \in Session |-> {}]
        /\ mNextDeskRef' = [s \in Session |-> 1]
        /\ counted' = (counted /\ \A s \in Session : ~torn(s))
        /\ sound' = (sound /\ \A s \in Session : ~harmed(s))
        /\ UNCHANGED <<file, comment>>

Next ==
    \/ \E s \in Session :
        \/ FPOpenDT(s) \/ FPOpenDT_CreateFile(s) \/ FPOpenDT_WriteHeader(s)
        \/ FPOpenDT_OpenDesktop(s) \/ EndSession(s)
        \/ \E refnum \in 1 .. MaxDeskRefs :
            \/ FPCloseDT(s, refnum)
            \/ FPAddIcon(s, refnum) \/ FPAddAPPL(s, refnum) \/ FPRemoveAPPL(s, refnum)
            \/ FPAddComment(s, refnum) \/ FPRemoveComment(s, refnum)
        \/ WriteHeader(s) \/ WriteEntries(s) \/ SetSize(s) \/ WriteComment(s)
    \/ ServerStops

Spec == Init /\ [][Next]_vars

-----------------------------------------------------------------------------
(* Properties *)

(* Every variable has its type.  The array of an operation is what the     *)
(* file will hold, and a file that has a header has its two counts.        *)
TypeOK ==
    LET Header == [iconCount : -1 .. MaxEntries, applCount : -1 .. MaxEntries]
        Entries == UNION {[1 .. n -> DesktopEntry \cup Garbled] : n \in 0 .. MaxEntries}
    IN  /\ comment \in [Object -> Comment \cup {Blank, None}]
        /\ file = NoFile \/ /\ DOMAIN file = {"there", "header", "entries"}
                            /\ file.header \in Header /\ file.entries \in Seq(DesktopEntry \cup Garbled)
                            /\ Len(file.entries) <= MaxEntries
        /\ \A s \in Session :
            /\ request[s].at \in {"idle", "create", "zero", "open", "header", "entries", "resize",
                                "comment"}
            /\ Writing(s) => /\ Len(request[s].image) <= MaxEntries
                             /\ request[s].entry \in DesktopEntry
                             /\ request[s].removes \in BOOLEAN
                             /\ file.there
            /\ mNextDeskRef[s] \in 1 .. MaxDeskRefs + 1
            /\ mOpenDesks[s] \subseteq 1 .. mNextDeskRef[s] - 1
        /\ Cardinality({s \in Session : Writing(s)}) <= 1
        /\ counted \in BOOLEAN /\ sound \in BOOLEAN

(* When no operation is in progress, the header's counts are those of the  *)
(* entries behind it, unless a write failed, the server stopped in the     *)
(* middle of one, or FPOpenDT put its first header into a file that        *)
(* another session had filled since it looked (afpdesk.cpp:75-97).  The    *)
(* next operation puts that right.                                         *)
CountsAreRight ==
    deskMutexFree /\ file.there /\ counted =>
        \/ file.header = NoHeader
        \/ /\ file.header.iconCount = Number(file.entries, "ICON")
           /\ file.header.applCount = Number(file.entries, "APPL")

(* With right counts, what is in the file is found: an icon by what it is  *)
(* for, an application by its creator, and by FPGetIconInfo every icon     *)
(* before which there are only icons of its creator.  Of icons behind      *)
(* other entries that is not true (afpdesk.cpp:1199, 1228-1236).           *)
CountedEntriesAreFound ==
    LET entries == file.entries
        Led(i) == \A j \in 1 .. i : /\ entries[j] \in Icon
                                    /\ entries[j].fileCreator = entries[i].fileCreator
    IN  deskMutexFree /\ file.there /\ counted =>
            \A i \in DOMAIN entries :
                /\ entries[i] \in Icon =>
                    LET place == FPGetIcon(file, entries[i].fileCreator, entries[i].kind)
                    IN  place # 0 /\ EqualIcon(entries[i], entries[place])
                /\ entries[i] \in Appl =>
                    LET place == FPGetAPPL(file, entries[i].fileCreator, 1)
                    IN  place # 0 /\ EqualAppl(entries[i], entries[place])
                /\ Led(i) => FPGetIconInfo(file, entries[i].fileCreator, i) = i

(* To its clients the file is a dictionary.  While the array of a legacy   *)
(* file is being rewritten, what counts is the array as it was.            *)
View == IF \E s \in Session : request[s].at = "entries"
        THEN request[CHOOSE s \in Session : request[s].at = "entries"].old
        ELSE IF file.there THEN file.entries ELSE <<>>

Stored(k) ==
    LET place == SelectInSeq(View, LAMBDA e : KeyOf(e) = k)
    IN  IF place = 0 THEN None ELSE View[place]

(* What the dictionary holds, and what is being done to it.                *)
Contents == [k \in Keys \cup Object |-> IF k \in Object THEN FPGetComment(k) ELSE Stored(k)]

Operations ==
    [s \in Session |->
        IF request[s].at = "comment"
        THEN [key |-> request[s].object,
              value |-> IF request[s].text = Blank THEN None ELSE request[s].text,
              done |-> FALSE]
        ELSE IF ~Writing(s) THEN [key |-> None, value |-> None, done |-> TRUE]
        ELSE LET k == KeyOf(request[s].entry)
             IN  [key |-> k,
                  value |-> IF request[s].removes THEN None ELSE request[s].entry,
                  done |-> request[s].at = "resize" /\ Stored(k) = None]]

Store == INSTANCE Dictionary WITH
    Client <- Session, Key <- Keys \cup Object, Value <- DesktopEntry \cup Comment,
    store <- Contents, pending <- Operations

(* Database and comments implement a dictionary: additions and removals    *)
(* take effect at once and touch one key, through the three writes, the race of *)
(* FPOpenDT, failed additions and stops of the server.  The exceptions are *)
(* faults in the rewriting of a legacy file, a removal whose write failed  *)
(* and a stop before the file is cut.                                      *)
ImplementsDictionary == Store!Spec
=============================================================================
