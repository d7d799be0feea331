------------------------------ MODULE Catalog ------------------------------
(***************************************************************************)
(* The commands that change the tree of a volume, or list it.  A command   *)
(* resolves a directory ID and a path to a BEntry, which is a directory    *)
(* and a name: every later call on it looks the name up again, and what    *)
(* another session has done meanwhile is what it finds.  The name "." (so  *)
(* is "..") cannot be an entry's name: it is stored under a mapped name,   *)
(* and the Afp_CharMap attribute of the object keeps the name the client   *)
(* gave, to be shown instead.                                              *)
(*                                                                         *)
(* A path is one component, or none where the command allows it.  Nodes    *)
(* outside the volume, which are refused, are left out, and so are access  *)
(* rights and long names; the file system's own calls are atomic.          *)
(***************************************************************************)
EXTENDS Integers, SequencesExt

CONSTANTS
    Session,
    Folder,             \* the nodes directories may have
    Root,               \* the folder of the volume
    File,               \* the nodes files may have
    Name,               \* the names entries have on the disk, in their order
    Mapped,             \* the name on the disk of an object named Reserved
    Reserved,           \* the name "."
    None,
    Batch,              \* how many objects a reply to FPEnumerate has room for
    MaxCalls            \* bound: how many commands are given

ASSUME NodeAssumption == Root \in Folder /\ Folder \cap File = {}
ASSUME DiskAssumption == IsFiniteSet(Folder) /\ IsFiniteSet(File)
ASSUME NameAssumption == Name \subseteq Nat /\ Mapped \in Name /\ Reserved \notin Name
ASSUME NoneAssumption ==
    None \notin Folder \cup File \cup Name \cup {Reserved}
                \cup [dir : Folder, name : Name]
ASSUME BoundAssumption == Batch \in Nat \ {0} /\ MaxCalls \in Nat

VARIABLES
    place,              \* the directory and the name of each node there is
    charMap,            \* the Afp_CharMap attributes
    locked,             \* the nodes whose attributes inhibit delete and rename
    task,               \* the command of each session
    listing,            \* how far the client of each session has listed a folder
    \* history
    spoiled,            \* nodes whose attribute need not fit their name
    calls

vars == <<place, charMap, locked, task, listing, spoiled, calls>>

-----------------------------------------------------------------------------
Node == Folder \cup File
MacName == (Name \ {Mapped}) \cup {Reserved}
Entry == [dir : Folder, name : Name]

(* The root has a place of its own.                                        *)
Live(n) == n = Root \/ place[n] # None

Exists(e) == \E n \in Node : place[n] = e
At(e) == IF Exists(e) THEN CHOOSE n \in Node : place[n] = e ELSE None

In(d) == {n \in Node : place[n] # None /\ place[n].dir = d}

(* With a folder, S has every folder that one is in.                       *)
Upward(S) == \A m \in S : place[m] # None => place[m].dir \in S

(* n is d or one of the folders d is in.                                   *)
Within(d, n) == \A S \in SUBSET Folder : d \in S /\ Upward(S) => n \in S

(* Mutant of ToDisk: the reserved name goes to the disk as it is.          *)
ToDiskMutant(mac) == mac

(* MapReservedMacName.                                                     *)
ToDisk(mac) == IF mac = Reserved THEN Mapped ELSE mac

(* GetAFPName.                                                             *)
Shown(n) == IF charMap[n] # None THEN charMap[n] ELSE place[n].name

(* A command: what it is to do next, the entry it has resolved, the node   *)
(* that had that name then, the name it gives, the node or folder it has   *)
(* opened, the file it copies and the attributes it is to write; and       *)
(* whether another session has changed the tree since.                     *)
Idle == [at |-> "idle", op |-> "none", entry |-> None, node |-> None, mac |-> None,
         open |-> None, source |-> None, inhibits |-> FALSE, raced |-> FALSE]

Does(s, at) == task[s].at = at
Ends(s) == task' = [task EXCEPT ![s] = Idle]

(* What a change does to the other sessions' commands, s going on as t, and *)
(* to the listings.  A listing knows which objects have been there since   *)
(* it began, and whether one has left or come.                             *)
Changed(s, t) ==
    /\ task' = [r \in Session |->
          IF r = s THEN t
          ELSE [task[r] EXCEPT !.raced = @ \/ task[r].at # "idle"]]
    /\ listing' = [r \in Session |->
          IF listing[r] = None THEN None
          ELSE LET L == listing[r]
                   left == {n \in In(L.dir) : place'[n] # place[n]}
                   came == \E n \in Node : /\ place'[n] # None /\ place'[n] # place[n]
                                           /\ place'[n].dir = L.dir
               IN  [L EXCEPT !.there = @ \ left,
                             !.shrunk = @ \/ left # {},
                             !.grown = @ \/ came]]

Ready(s) == Does(s, "idle") /\ calls < MaxCalls

Begin(s, t) ==
    /\ calls' = calls + 1
    /\ task' = [task EXCEPT ![s] = t]
    /\ UNCHANGED <<place, charMap, locked, listing, spoiled>>

-----------------------------------------------------------------------------
(* SetAFPEntry: the folder must be there and the name in it.               *)
Resolved(op, at, d, mac) ==
    LET e == [dir |-> d, name |-> ToDisk(mac)]
    IN  [Idle EXCEPT !.op = op, !.at = at, !.entry = e, !.node = At(e)]

(* FPDelete and FPRename resolve what they act on.                         *)
FPDelete(s) ==
    /\ Ready(s)
    /\ \E d \in Folder, mac \in MacName :
          LET t == Resolved("delete", "check", d, mac) IN
          Live(d) /\ t.node # None /\ Begin(s, t)

FPRename(s) ==
    /\ Ready(s)
    /\ \E d \in Folder, mac, new \in MacName :
          LET t == [Resolved("rename", "check", d, mac) EXCEPT !.mac = new] IN
          Live(d) /\ t.node # None /\ Begin(s, t)

(* The new name is optional.                                               *)
FPMoveAndRename(s) ==
    /\ Ready(s)
    /\ \E d \in Folder, mac \in MacName, new \in MacName \cup {None} :
          LET t == [Resolved("move", "check", d, mac) EXCEPT !.mac = new] IN
          Live(d) /\ t.node # None /\ Begin(s, t)

(* Where something is to be created only the folder is resolved.           *)
Creates(s, op) ==
    /\ Ready(s)
    /\ \E d \in Folder, mac \in MacName :
          /\ Live(d)
          /\ Begin(s, [Idle EXCEPT !.op = op, !.at = "create", !.mac = mac,
                          !.entry = [dir |-> d, name |-> ToDisk(mac)]])

FPCreateFile(s) == Creates(s, "file") \/ Creates(s, "hard")
FPCreateDir(s) == Creates(s, "folder")

(* Files only; a copy without a name has that of the source.               *)
FPCopyFile(s) ==
    /\ Ready(s)
    /\ \E d, to \in Folder, mac \in MacName, new \in MacName \cup {None} :
          LET t == Resolved("copy", "create", d, mac) IN
          /\ Live(d) /\ Live(to) /\ t.node \in File
          /\ Begin(s, [t EXCEPT !.source = t.entry, !.mac = new,
                !.entry = [dir |-> to,
                           name |-> IF new = None THEN t.entry.name
                                    ELSE ToDisk(new)]])

FPSetFileDirParms(s) ==
    /\ Ready(s)
    /\ \E d \in Folder, mac \in MacName :
          LET t == Resolved("parms", "get", d, mac) IN
          Live(d) /\ t.node # None /\ Begin(s, t)

-----------------------------------------------------------------------------
(* Mutant of Refused: the attributes are not looked at.                    *)
RefusedMutant(e) == FALSE

(* The attributes of the entry inhibit it; where they cannot be read the   *)
(* command goes on.                                                        *)
Refused(e) == At(e) \in locked

Checked(s, op, next) ==
    /\ Does(s, "check") /\ task[s].op = op
    /\ IF Refused(task[s].entry)
       THEN Ends(s)
       ELSE task' = [task EXCEPT ![s].at = next]
    /\ UNCHANGED <<place, charMap, locked, listing, spoiled, calls>>

CheckDelete(s) == Checked(s, "delete", "remove")
CheckRename(s) == Checked(s, "rename", "rename")
CheckMove(s) == Checked(s, "move", "target")

(* The call on the file system fails; the command replies with an error.   *)
Fails(s) == Ends(s) /\ UNCHANGED <<place, charMap, locked, listing, spoiled>>

(* BEntry::Remove, of a file or an empty folder.                           *)
RemoveEntry(s) ==
    /\ Does(s, "remove")
    /\ LET n == At(task[s].entry) IN
       IF n = None \/ In(n) # {}
       THEN Fails(s)
       ELSE /\ place' = [place EXCEPT ![n] = None]
            /\ charMap' = [charMap EXCEPT ![n] = None]
            /\ locked' = locked \ {n}
            /\ spoiled' = spoiled \ {n}
            /\ Changed(s, Idle)
    /\ UNCHANGED calls

(* Entry and attribute of n are out of step until SetAFPName is done.      *)
Relocate(s, n, e, at) ==
    /\ place' = [place EXCEPT ![n] = e]
    /\ spoiled' = IF place[n].name # e.name THEN spoiled \cup {n} ELSE spoiled
    /\ UNCHANGED <<charMap, locked>>
    /\ Changed(s, IF at = "idle" THEN Idle
                  ELSE [task[s] EXCEPT !.entry = e, !.at = at])

(* BEntry::Rename refuses a name that is taken, be it the entry's own.     *)
Renames(s, op, Taken) ==
    /\ Does(s, "rename") /\ task[s].op = op
    /\ LET n == At(task[s].entry)
           e == [task[s].entry EXCEPT !.name = ToDisk(task[s].mac)]
       IN  \/ Exists(e) /\ Taken
           \/ ~Exists(e) /\ (n = None \/ ~Live(e.dir)) /\ Fails(s)
           \/ ~Exists(e) /\ n # None /\ Live(e.dir) /\ Relocate(s, n, e, "open")
    /\ UNCHANGED calls

Rename(s) == Renames(s, "rename", Fails(s))

(* FPMoveAndRename goes on as if it had been done.                         *)
MoveRenames(s) ==
    Renames(s, "move", /\ task' = [task EXCEPT ![s].at = "open"]
                       /\ UNCHANGED <<place, charMap, locked, listing, spoiled>>)

(* The folder moved to.  That the directory IDs given are the same does    *)
(* not mean that the folders are, nor the other way round, as either may   *)
(* come with a path; if they are the object is renamed where it is.        *)
MoveTarget(s) ==
    /\ Does(s, "target")
    /\ \E d \in Folder, moves \in BOOLEAN :
          /\ Live(d)
          /\ IF ~moves /\ task[s].mac = None
             THEN Ends(s)
             ELSE task' = [task EXCEPT ![s].open = d,
                                       ![s].at = IF moves THEN "move" ELSE "rename"]
    /\ UNCHANGED <<place, charMap, locked, listing, spoiled, calls>>

(* BEntry::MoveTo, not over another object nor into the folder itself.     *)
MoveTo(s) ==
    /\ Does(s, "move")
    /\ LET t == task[s]
           n == At(t.entry)
           e == [t.entry EXCEPT !.dir = t.open]
       IN  IF Exists(e) \/ n = None \/ ~Live(t.open) \/ Within(t.open, n)
           THEN Fails(s)
           ELSE Relocate(s, n, e, IF t.mac = None THEN "idle" ELSE "rename")
    /\ UNCHANGED calls

(* A new object at the entry, if there is none yet and room for one; then  *)
(* the request goes on as `after' says.                                    *)
NewObject(s, Kind, after) ==
    LET e == task[s].entry IN
    /\ IF Exists(e) \/ ~Live(e.dir) \/ \A n \in Kind : Live(n)
       THEN Fails(s)
       ELSE /\ \E new \in Kind :
                  /\ ~Live(new)
                  /\ place' = [place EXCEPT ![new] = e]
                  /\ Changed(s, after[new])
            /\ UNCHANGED <<charMap, locked, spoiled>>
    /\ UNCHANGED calls

CreateDirectory(s) ==
    /\ Does(s, "create") /\ task[s].op = "folder"
    /\ NewObject(s, Folder, [new \in Folder |-> [task[s] EXCEPT !.at = "open"]])

(* A hard create is content with the file there is, locked or not.         *)
CreateFile(s) ==
    /\ Does(s, "create") /\ task[s].op \in {"file", "hard"}
    /\ IF task[s].op = "hard" /\ At(task[s].entry) \in File
       THEN /\ task' = [task EXCEPT ![s].at = "open"]
            /\ UNCHANGED <<place, charMap, locked, listing, spoiled, calls>>
       ELSE NewObject(s, File, [new \in File |-> [task[s] EXCEPT !.at = "open"]])

(* A copy without a name takes the shown name of its source, if that is    *)
(* still there.                                                            *)
CreateCopy(s) ==
    /\ Does(s, "create") /\ task[s].op = "copy"
    /\ LET from == At(task[s].source)
           shown == IF task[s].mac # None THEN task[s].mac
                    ELSE IF from = None THEN None ELSE Shown(from)
       IN  NewObject(s, File, [new \in File |->
              [task[s] EXCEPT !.node = new, !.mac = shown,
                              !.at = IF shown = None THEN "copy" ELSE "open"]])

(* SetAFPName opens the node of the entry, if there is one ...             *)
OpenToName(s) ==
    /\ Does(s, "open")
    /\ LET n == At(task[s].entry) IN
       IF n = None
       THEN IF task[s].op = "copy"
            THEN task' = [task EXCEPT ![s].at = "copy"]
            ELSE Ends(s)
       ELSE task' = [task EXCEPT ![s].open = n, ![s].at = "name"]
    /\ UNCHANGED <<place, charMap, locked, listing, spoiled, calls>>

(* Mutant of CharMapOf: a stale attribute is left behind.                  *)
CharMapOfMutant(mac, name, old) == IF mac # name THEN mac ELSE old

(* ... and writes or removes the attribute.                                *)
CharMapOf(mac, name, old) == IF mac # name THEN mac ELSE None

SetAFPName(s) ==
    /\ Does(s, "name")
    /\ LET t == task[s]
           n == t.open
           fits == ~t.raced /\ ToDisk(t.mac) = t.entry.name
       IN  IF ~Live(n)
           THEN UNCHANGED <<charMap, spoiled>>
           ELSE /\ charMap' = [charMap EXCEPT ![n] =
                                  CharMapOf(t.mac, t.entry.name, @)]
                /\ spoiled' = IF fits THEN spoiled \ {n} ELSE spoiled \cup {n}
    /\ task' = [task EXCEPT ![s] =
          IF @.op = "copy" THEN [@ EXCEPT !.at = "copy"] ELSE Idle]
    /\ UNCHANGED <<place, locked, listing, calls>>

(* CopyFile copies the attributes with the contents.  Where the source is  *)
(* gone the file that was made stays.                                      *)
CopyFile(s) ==
    /\ Does(s, "copy")
    /\ LET from == At(task[s].source)
           new == task[s].node
       IN  IF from = None \/ ~Live(new)
           THEN Fails(s)
           ELSE /\ charMap' = IF charMap[from] = None THEN charMap
                              ELSE [charMap EXCEPT ![new] = charMap[from]]
                /\ locked' = IF from \in locked THEN locked \cup {new} ELSE locked
                /\ spoiled' = IF charMap[from] = None THEN spoiled
                              ELSE spoiled \cup {new}
                /\ UNCHANGED place
                /\ Changed(s, Idle)
    /\ UNCHANGED calls

(* fp_SetFileDirParms reads the attributes of the entry and writes them    *)
(* anew.  Those it is given are cleared, whatever it is asked, for         *)
(* setClearFlag is 0.                                                      *)
GetAttributes(s) ==
    /\ Does(s, "get")
    /\ LET n == At(task[s].entry) IN
       IF n = None
       THEN Ends(s)
       ELSE \E clears \in BOOLEAN :
               task' = [task EXCEPT ![s].at = "set",
                                    ![s].inhibits = n \in locked /\ ~clears]
    /\ UNCHANGED <<place, charMap, locked, listing, spoiled, calls>>

SetAttributes(s) ==
    /\ Does(s, "set")
    /\ LET n == At(task[s].entry)
           new == IF task[s].inhibits THEN locked \cup {n} ELSE locked \ {n}
       IN  IF n = None \/ new = locked
           THEN Fails(s)
           ELSE /\ locked' = new
                /\ UNCHANGED <<place, charMap, spoiled>>
                /\ Changed(s, Idle)
    /\ UNCHANGED calls

-----------------------------------------------------------------------------
(* FPEnumerate.  The client asks for the objects from an index on, until   *)
(* there are none; each time the folder is read from its beginning, in the *)
(* order of the names: an object's place in it is the number of the names  *)
(* up to its own.                                                          *)
UpTo(d, n) == {m \in In(d) : place[m].name <= place[n].name}
Listed(d) == [i \in 1..Cardinality(In(d)) |->
                 CHOOSE n \in In(d) : Cardinality(UpTo(d, n)) = i]

ListBegins(s) ==
    /\ Ready(s) /\ \A r \in Session : listing[r] = None
    /\ calls' = calls + 1
    /\ \E d \in Folder :
          /\ Live(d)
          /\ listing' = [listing EXCEPT ![s] =
                [dir |-> d, index |-> 1, seen |-> {}, twice |-> FALSE,
                 there |-> In(d), shrunk |-> FALSE, grown |-> FALSE]]
    /\ UNCHANGED <<place, charMap, locked, task, spoiled>>

(* Mutant of Reply: the object at the start index is passed over, too.     *)
ReplyMutant(d, index) ==
    LET all == Listed(d)
        to == IF index + Batch - 1 < Len(all) THEN index + Batch - 1 ELSE Len(all)
    IN  IF index = 1 THEN SubSeq(all, 1, to) ELSE SubSeq(all, index + 1, to)

(* The objects of a reply; none when the folder is gone.                   *)
Reply(d, index) ==
    LET all == Listed(d)
        to == IF index + Batch - 1 < Len(all) THEN index + Batch - 1 ELSE Len(all)
    IN  SubSeq(all, index, to)

ListEnds(s) ==
    /\ Does(s, "idle") /\ listing[s] # None
    /\ Reply(listing[s].dir, listing[s].index) = <<>>
    /\ listing' = [listing EXCEPT ![s] = None]
    /\ UNCHANGED <<place, charMap, locked, task, spoiled, calls>>

FPEnumerate(s) ==
    /\ Does(s, "idle") /\ listing[s] # None
    /\ LET L == listing[s]
           reply == Reply(L.dir, L.index)
           got == ToSet(reply)
       IN  /\ reply # <<>>
           /\ listing' = [listing EXCEPT ![s] =
                 [L EXCEPT !.index = @ + Len(reply), !.seen = @ \cup got,
                           !.twice = @ \/ got \cap L.seen # {}]]
    /\ UNCHANGED <<place, charMap, locked, task, spoiled, calls>>

-----------------------------------------------------------------------------
(* A volume with a folder and a file, under names that need not be mapped; *)
(* the file may be locked.                                                 *)
Init ==
    /\ \E d \in Folder \ {Root}, f \in File, m, n \in Name \ {Mapped} :
          /\ m < n
          /\ place = [x \in Node |->
                CASE x = d -> [dir |-> Root, name |-> m]
                  [] x = f -> [dir |-> Root, name |-> n]
                  [] OTHER -> None]
          /\ locked \in {{}, {f}}
    /\ charMap = [n \in Node |-> None]
    /\ task = [s \in Session |-> Idle]
    /\ listing = [s \in Session |-> None]
    /\ spoiled = {}
    /\ calls = 0

(* The commands there are have been given; none of them is stuck.          *)
ClientsRest ==
    /\ calls = MaxCalls
    /\ \A s \in Session : Does(s, "idle") /\ listing[s] = None
    /\ UNCHANGED vars

Next ==
    \/ ClientsRest
    \/ \E s \in Session :
       \/ FPDelete(s) \/ CheckDelete(s) \/ RemoveEntry(s)
       \/ FPRename(s) \/ CheckRename(s) \/ Rename(s)
       \/ FPMoveAndRename(s) \/ CheckMove(s) \/ MoveTarget(s) \/ MoveTo(s)
       \/ MoveRenames(s)
       \/ FPCreateDir(s) \/ CreateDirectory(s) \/ FPCreateFile(s) \/ CreateFile(s)
       \/ FPCopyFile(s) \/ CreateCopy(s) \/ CopyFile(s)
       \/ OpenToName(s) \/ SetAFPName(s)
       \/ FPSetFileDirParms(s) \/ GetAttributes(s) \/ SetAttributes(s)
       \/ ListBegins(s) \/ FPEnumerate(s) \/ ListEnds(s)

Spec == Init /\ [][Next]_vars

-----------------------------------------------------------------------------
(* Every variable has its type, and the places make a tree.                *)
TypeOK ==
    /\ place \in [Node -> Entry \cup {None}] /\ place[Root] = None
    /\ \A m, n \in Node : place[m] = place[n] /\ place[m] # None => m = n
    /\ \A n \in Node : place[n] # None =>
          Live(place[n].dir) /\ Within(place[n].dir, Root) /\ ~Within(place[n].dir, n)
    /\ charMap \in [Node -> MacName \cup {None}]
    /\ locked \subseteq Node /\ spoiled \subseteq Node
    /\ \A s \in Session :
          /\ task[s].entry \in Entry \cup {None}
          /\ task[s].node \in Node \cup {None} /\ task[s].open \in Node \cup {None}
          /\ task[s].mac \in MacName \cup {Mapped, None}
          /\ listing[s] # None => listing[s].dir \in Folder /\ listing[s].seen \subseteq Node
    /\ calls \in 0..MaxCalls

(* The name a client is shown for an object is one under which it will     *)
(* find that object, so that renaming to and from the reserved name leaves *)
(* no stale attribute.  This is lost in three ways only: a copy takes over *)
(* the attribute of its source, FPMoveAndRename ignores that the new name  *)
(* was taken, and two sessions rename one object at once.                  *)
ShownNamesAreFound ==
    \A n \in Node \ spoiled : place[n] # None => ToDisk(Shown(n)) = place[n].name

(* A command removes, moves or renames the very object it named, and never *)
(* a locked one, although it looks the name up three times, unless another *)
(* session has changed something during the command.                       *)
CallsActOnTheirObject ==
    [][\A s \in Session, n \in Node :
          (place[n] # None /\ place'[n] # place[n] /\ task'[s].at # task[s].at
             /\ task[s].at \in {"remove", "rename", "move"} /\ ~task[s].raced)
          => n = task[s].node /\ n \notin locked]_vars

(* A client that lists a folder in several calls, with the index as its    *)
(* only memory, gets every object that has been there all the time unless  *)
(* one left meanwhile or was renamed, and gets none twice unless one came. *)
ListingIsComplete ==
    [][\A s \in Session : ListEnds(s) =>
          /\ listing[s].shrunk \/ listing[s].there \subseteq listing[s].seen
          /\ listing[s].grown \/ ~listing[s].twice]_vars
=============================================================================
