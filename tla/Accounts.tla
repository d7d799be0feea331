------------------------------ MODULE Accounts ------------------------------
(***************************************************************************)
(* The user database and those who use it: the looper of the application,  *)
(* which adds, changes and deletes users and upgrades the database when    *)
(* the server starts, and the threads of the sessions, which log users in, *)
(* look them up and change passwords.  Every user is an attribute of the   *)
(* preferences file.  A user is found by asking for the first attribute,   *)
(* the second, and so on, until the name is right; a record is read,       *)
(* changed in memory and written back whole.  Nothing is locked meanwhile. *)
(*                                                                         *)
(* The looper alone removes attributes, so that each of its own walks is   *)
(* one step: what it finds, or misses, is there, or missing, at one moment *)
(* of the walk.  The walks of a session are taken attribute by attribute.  *)
(***************************************************************************)
EXTENDS Integers, FiniteSets, SequencesExt

CONSTANTS
    Session,
    Name,
    Guest,              \* AFP_GUEST_NAME
    Password,
    Blank,              \* the empty password
    Settings,           \* the passwords and flags an administrator gives
    None,               \* no name, no password, no record
    MaxDeletions        \* bound: how often a user is deleted

ASSUME NameAssumption == Guest \in Name /\ IsFiniteSet(Name)
ASSUME PasswordAssumption == Blank \in Password
ASSUME BoundAssumption == MaxDeletions \in Nat

Flag == {"enabled", "must change", "can change"}

ASSUME SettingsAssumption ==
    Settings \subseteq [password : Password, flags : SUBSET Flag]

VARIABLES
    users,              \* the user attributes, in the order in which they are read
    version,            \* of the schema: 0 is no file, 1 the schema without IDs
    looper,             \* what the looper is doing
    task,               \* what the thread of each session is doing
    login,              \* mIsAuthenticated
    user,               \* mUserName
    uam,                \* mUAMLoginType
    blob,               \* the name in mExtendedLoginBlob, or None
    \* history
    unnumbered,         \* the database was made before there were IDs
    deleted             \* how many users have been deleted

sessionVars == <<login, user, uam, blob>>
vars == <<users, version, looper, task, sessionVars, unnumbered, deleted>>

-----------------------------------------------------------------------------
(* AFP_USER_DATA; the group follows from the flags and is left out.        *)
User == [name : Name, password : Password, flags : SUBSET Flag, id : Nat]

ASSUME NoneAssumption == None \notin Name \cup Password \cup Nat \cup User

NewUser(name, given) ==
    [name |-> name, password |-> given.password, flags |-> given.flags, id |-> 0]

(* The guest as it is made: disabled, with a blank password.               *)
NewGuest == NewUser(Guest, [password |-> Blank, flags |-> {}])

Index(name) == {i \in DOMAIN users : users[i].name = name}
Known(name) == Index(name) # {}
Place(name) == CHOOSE i \in Index(name) : TRUE
Named(name) == users[Place(name)]

(* Mutant of WriteAttr: an attribute is always added.                      *)
WriteAttrMutant(r) == {InsertAt(users, i, r) : i \in 1..(Len(users) + 1)}

(* WriteAttr overwrites the attribute of that name or adds one; where a    *)
(* new one comes in the order is the file system's affair.                 *)
WriteAttr(r) ==
    IF Known(r.name)
    THEN {[i \in DOMAIN users |-> IF i \in Index(r.name) THEN r ELSE users[i]]}
    ELSE {InsertAt(users, i, r) : i \in 1..(Len(users) + 1)}

RemoveAttr(name) == RemoveAt(users, Place(name))

(* What a thread is doing.  A walk is at an attribute, and remembers two   *)
(* things of the past: whether the user was absent when it began, and      *)
(* whether an attribute has been removed since.  A record that was read to *)
(* be written back is stale when it has been written or removed since.     *)
Idle == [at |-> "idle", op |-> "none", name |-> None, id |-> None, old |-> None,
         new |-> None, record |-> None, index |-> 1, absent |-> FALSE, shrunk |-> FALSE,
         stale |-> FALSE]

Walks == {"logon", "reread", "update", "lookup", "is admin"}
Keeps == {"update", "write"}

(* A record the job looks for, by its ID or by its name.                   *)
Sought(job, r) == IF job.id # None THEN r.id = job.id ELSE r.name = job.name

Walk(at, job) ==
    [job EXCEPT !.at = at, !.index = 1, !.shrunk = FALSE,
                !.absent = \A i \in DOMAIN users : ~Sought(job, users[i])]

(* The tasks after a write or removal of the record of a name.             *)
Touched(name, removed) ==
    [s \in Session |->
        [task[s] EXCEPT
            !.shrunk = @ \/ (removed /\ task[s].at \in Walks),
            !.stale = @ \/ (task[s].at \in Keeps /\ task[s].name = name)]]

-----------------------------------------------------------------------------
(* The sessions.                                                           *)

(* The session ends and the connection's place is taken by a new one.      *)
End(s) ==
    /\ login' = [login EXCEPT ![s] = FALSE]
    /\ user' = [user EXCEPT ![s] = None]
    /\ uam' = [uam EXCEPT ![s] = "none"]
    /\ blob' = [blob EXCEPT ![s] = None]

(* After a reply other than afpAuthContinue a session that is not          *)
(* authenticated is killed.                                                *)
Reply(s) ==
    /\ task' = [task EXCEPT ![s] = Idle]
    /\ IF login[s] THEN UNCHANGED sessionVars ELSE End(s)

Running(s) == task[s] = Idle /\ looper.at # "down"

(* Guest and clear-text logins.                                            *)
FPLogin(s) ==
    /\ Running(s) /\ ~login[s]
    /\ \E op \in {"guest", "clear"}, name \in Name, password \in Password :
          /\ op = "guest" => name = Guest /\ password = Blank
          /\ task' = [task EXCEPT ![s] =
                Walk("logon", [Idle EXCEPT !.op = op, !.name = name,
                    !.old = IF op = "guest" THEN None ELSE password])]
          /\ uam' = [uam EXCEPT ![s] = op]
    /\ UNCHANGED <<users, version, looper, login, user, blob, unnumbered, deleted>>

(* BeginExtendedLogin returns NULL while there is a blob; the exchange of  *)
(* keys may fail, too.                                                     *)
FPLoginDHX(s) ==
    /\ Running(s) /\ ~login[s]
    /\ \/ /\ blob[s] = None
          /\ \E name \in Name : blob' = [blob EXCEPT ![s] = name]
          /\ uam' = [uam EXCEPT ![s] = "dhx"]
          /\ UNCHANGED <<login, user>>
       \/ End(s)
    /\ UNCHANGED <<users, version, looper, task, unnumbered, deleted>>

(* The second half, which may fail before the password is looked at: the   *)
(* type of login is another, there is no blob or the answer is wrong.      *)
FPContLogin(s) ==
    /\ Running(s)
    /\ \/ /\ uam[s] = "dhx" /\ blob[s] # None
          /\ \E password \in Password :
                task' = [task EXCEPT ![s] =
                    Walk("logon", [Idle EXCEPT !.op = "dhx", !.name = blob[s],
                                               !.old = password])]
          /\ blob' = [blob EXCEPT ![s] = None]
          /\ UNCHANGED <<login, user, uam>>
       \/ /\ login[s] /\ uam[s] = "dhx"
          /\ blob' = [blob EXCEPT ![s] = None]
          /\ UNCHANGED <<task, login, user, uam>>
       \/ ~login[s] /\ End(s) /\ UNCHANGED task
    /\ UNCHANGED <<users, version, looper, unnumbered, deleted>>

FPLogout(s) ==
    /\ Running(s) /\ login[s]
    /\ End(s)
    /\ UNCHANGED <<users, version, looper, task, unnumbered, deleted>>

(* A client of AFP 2.2 names the user, a later one is the session's.  The  *)
(* flags that let a session that is not authenticated in are read from a   *)
(* record that is not there: they may have any value.                      *)
FPChangePswd(s) ==
    /\ Running(s)
    /\ \E name \in Name, old, new \in Password :
          task' = [task EXCEPT ![s] =
              Walk("logon", [Idle EXCEPT !.op = "change", !.name = name,
                                         !.old = old, !.new = new])]
    /\ \/ UNCHANGED blob
       \/ blob[s] # None /\ blob' = [blob EXCEPT ![s] = None]
    /\ UNCHANGED <<users, version, looper, login, user, uam, unnumbered, deleted>>

(* The first half through DHX; or a failure before anything is looked up.  *)
FPChangePswdBegins(s) ==
    /\ Running(s)
    /\ \/ /\ \E name \in Name : blob' = [blob EXCEPT ![s] = name]
          /\ UNCHANGED <<login, user, uam>>
       \/ ~login[s] /\ End(s)
       \/ login[s] /\ blob' = [blob EXCEPT ![s] = None] /\ UNCHANGED <<login, user, uam>>
    /\ UNCHANGED <<users, version, looper, task, unnumbered, deleted>>

(* Commands that look a user up: FPMapID by an ID, FPMapName by a name and  *)
(* FPGetUserInfo by the name of the session's user.                        *)
LooksUp(s, job) ==
    /\ Running(s) /\ login[s]
    /\ task' = [task EXCEPT ![s] = Walk("lookup", job)]
    /\ UNCHANGED <<users, version, looper, sessionVars, unnumbered, deleted>>

FPMapID(s) ==
    \E id \in 0..Cardinality(Name) : LooksUp(s, [Idle EXCEPT !.op = "map id", !.id = id])
FPMapName(s) ==
    \E name \in Name : LooksUp(s, [Idle EXCEPT !.op = "map name", !.name = name])
FPGetUserInfo(s) == LooksUp(s, [Idle EXCEPT !.op = "user info", !.name = user[s]])

(* Asked by commands; a guest is none without a look.                      *)
IsAdmin(s) ==
    /\ Running(s) /\ login[s] /\ uam[s] # "guest"
    /\ task' = [task EXCEPT ![s] =
          Walk("is admin", [Idle EXCEPT !.op = "is admin", !.name = user[s]])]
    /\ UNCHANGED <<users, version, looper, sessionVars, unnumbered, deleted>>

-----------------------------------------------------------------------------
(* The walks, afpGetUserDataByName, afpGetUserDataByID and afpGetIndUser.  *)

(* Mutant of Hits: the last attribute is not returned.                     *)
HitsMutant(s, at) ==
    /\ task[s].at = at
    /\ task[s].index < Len(users)
    /\ Sought(task[s], users[task[s].index])

Hits(s, at) ==
    /\ task[s].at = at
    /\ task[s].index <= Len(users)
    /\ Sought(task[s], users[task[s].index])

Passes(s) ==
    /\ task[s].at \in Walks
    /\ task[s].index <= Len(users)
    /\ ~Sought(task[s], users[task[s].index])

Misses(s) ==
    /\ task[s].at \in Walks
    /\ task[s].index <= Len(users) => ~Hits(s, task[s].at) /\ ~Passes(s)

WalkOn(s) ==
    /\ Passes(s)
    /\ task' = [task EXCEPT ![s].index = @ + 1]
    /\ UNCHANGED <<users, version, looper, sessionVars, unnumbered, deleted>>

(* FPGetUserInfo may be asked for the group, too, which IsAdmin tells.     *)
LookupEnds(s) ==
    /\ \/ task' = [task EXCEPT ![s] = Idle]
       \/ /\ task[s].op = "user info" /\ uam[s] # "guest"
          /\ task' = [task EXCEPT ![s] = Walk("is admin", [@ EXCEPT !.op = "is admin"])]
    /\ UNCHANGED sessionVars

LookupFinds(s) ==
    /\ Hits(s, "lookup")
    /\ LookupEnds(s)
    /\ UNCHANGED <<users, version, looper, unnumbered, deleted>>

(* IsAdmin kills the session, a change of password fails, so do a login    *)
(* and a look-up.                                                          *)
NotFound(s) ==
    /\ Misses(s)
    /\ CASE task[s].at = "is admin" -> End(s) /\ task' = [task EXCEPT ![s] = Idle]
         [] task[s].at = "lookup" -> LookupEnds(s)
         [] OTHER -> Reply(s)
    /\ UNCHANGED <<users, version, looper, unnumbered, deleted>>

(* afpImpLogonUser, of a record and a password; a guest has no password.   *)
LogonResult(r, password) ==
    IF \/ "enabled" \notin r.flags
       \/ password # None /\ password # r.password
       \/ password = None /\ r.password # Blank
    THEN "refused"
    ELSE IF "must change" \in r.flags THEN "expired" ELSE "ok"

(* The record is found and a login decided.  An expired password logs in   *)
(* through clear text, and through DHX sets the name only.                 *)
LogonFinds(s) ==
    /\ Hits(s, "logon") /\ task[s].op # "change"
    /\ LET result == LogonResult(users[task[s].index], task[s].old)
           in == \/ result = "ok"
                 \/ result = "expired" /\ task[s].op = "clear"
           named == in \/ (result = "expired" /\ task[s].op = "dhx")
       IN  IF ~in /\ ~login[s]
           THEN End(s)
           ELSE /\ login' = [login EXCEPT ![s] = TRUE]
                /\ user' = IF named THEN [user EXCEPT ![s] = task[s].name] ELSE user
                /\ UNCHANGED <<uam, blob>>
    /\ task' = [task EXCEPT ![s] = Idle]
    /\ UNCHANGED <<users, version, looper, unnumbered, deleted>>

(* afpImpChangePswd: the old password is checked by a logon, which says of *)
(* an expired one that it is expired; then the record is read again.       *)
ChangeLogsOn(s) ==
    /\ Hits(s, "logon") /\ task[s].op = "change"
    /\ IF LogonResult(users[task[s].index], task[s].old) = "ok"
       THEN task' = [task EXCEPT ![s] = Walk("reread", [@ EXCEPT !.old = None])]
            /\ UNCHANGED sessionVars
       ELSE Reply(s)
    /\ UNCHANGED <<users, version, looper, unnumbered, deleted>>

ChangeRereads(s) ==
    /\ Hits(s, "reread")
    /\ LET r == users[task[s].index]
           new == [r EXCEPT !.password = task[s].new, !.flags = @ \ {"must change"}]
       IN  IF \/ "can change" \notin r.flags
              \/ task[s].new \in {Blank, r.password}
           THEN Reply(s)
           ELSE /\ task' = [task EXCEPT ![s] =
                       Walk("update", [@ EXCEPT !.record = new, !.new = None])]
                /\ UNCHANGED sessionVars
    /\ UNCHANGED <<users, version, looper, unnumbered, deleted>>

(* Mutant of KeepIDs: the ID of the caller's record is not replaced.       *)
KeepIDsMutant(r, old) == [r EXCEPT !.id = 0]

(* afpUpdateUserInfo takes the IDs from the record that is there.          *)
KeepIDs(r, old) == [r EXCEPT !.id = old.id]

ChangeFinds(s) ==
    /\ Hits(s, "update")
    /\ task' = [task EXCEPT
          ![s].record = KeepIDs(@, users[task[s].index]),
          ![s].at = "write"]
    /\ UNCHANGED <<users, version, looper, sessionVars, unnumbered, deleted>>

ChangeWrites(s) ==
    /\ task[s].at = "write"
    /\ users' \in WriteAttr(task[s].record)
    /\ task' = [Touched(task[s].name, FALSE) EXCEPT ![s] = Idle]
    /\ IF login[s] THEN UNCHANGED sessionVars ELSE End(s)
    /\ UNCHANGED <<version, looper, unnumbered, deleted>>

-----------------------------------------------------------------------------
(* The looper: the messages of the configuration application, and the      *)
(* start of the server.                                                    *)
Resting == [at |-> "idle", record |-> None, index |-> 0]

looperElse == <<sessionVars, unnumbered>>

(* afpSaveNewUser, which refuses a name that is known.                     *)
CMD_AFP_ADDUSER ==
    /\ looper.at = "idle"
    /\ \E name \in Name, given \in Settings :
          /\ ~Known(name)
          /\ looper' = [Resting EXCEPT !.at = "count", !.record = NewUser(name, given)]
    /\ UNCHANGED <<users, version, task, looperElse, deleted>>

(* Mutant of NextID: the walk stops one short.                             *)
NextIDMutant == IF users = <<>> THEN 0 ELSE Len(users) - 1

(* The next ID is the number of users.                                     *)
NextID == Len(users)

(* The file is created when there is none.                                 *)
NewUserIsNumbered ==
    /\ looper.at = "count"
    /\ looper' = [looper EXCEPT !.at = "insert", !.record.id = NextID]
    /\ version' = IF version = 0 THEN 1 ELSE version
    /\ UNCHANGED <<users, task, looperElse, deleted>>

NewUserIsWritten ==
    /\ looper.at = "insert"
    /\ users' \in WriteAttr(looper.record)
    /\ task' = Touched(looper.record.name, FALSE)
    /\ looper' = IF looper.record.name = Guest
                 THEN [Resting EXCEPT !.at = "stamp"] ELSE Resting
    /\ UNCHANGED <<version, looperElse, deleted>>

(* The guest stands for a new database, which has the latest version.      *)
NewDatabaseIsStamped ==
    /\ looper.at = "stamp"
    /\ version' = 2
    /\ looper' = Resting
    /\ UNCHANGED <<users, task, looperElse, deleted>>

CMD_AFP_DELUSER ==
    /\ looper.at = "idle" /\ deleted < MaxDeletions
    /\ \E name \in Name :
          /\ Known(name)
          /\ users' = RemoveAttr(name)
          /\ task' = Touched(name, TRUE)
    /\ deleted' = deleted + 1
    /\ UNCHANGED <<version, looper, looperElse>>

(* The name must be known; its password and flags are the message's.       *)
CMD_AFP_UPDATEUSERINFO ==
    /\ looper.at = "idle"
    /\ \E name \in Name, given \in Settings :
          /\ Known(name)
          /\ looper' = [Resting EXCEPT !.at = "find", !.record = NewUser(name, given)]
    /\ UNCHANGED <<users, version, task, looperElse, deleted>>

(* afpUpdateUserInfo, in the looper.                                       *)
UpdateFinds ==
    /\ looper.at = "find"
    /\ looper' = [looper EXCEPT !.at = "write",
                                !.record = KeepIDs(@, Named(@.name))]
    /\ UNCHANGED <<users, version, task, looperElse, deleted>>

(* An index says that the database is being upgraded.                      *)
UpdateWrites ==
    /\ looper.at = "write"
    /\ users' \in WriteAttr(looper.record)
    /\ task' = Touched(looper.record.name, FALSE)
    /\ looper' = IF looper.index = 0 THEN Resting
                 ELSE [Resting EXCEPT !.at = "upgrade", !.index = looper.index + 1]
    /\ UNCHANGED <<version, looperElse, deleted>>

(* ReadyToRun: afpVerifyUserDatabase upgrades a file without a version.    *)
ServerStarts ==
    /\ looper.at = "down"
    /\ looper' = IF version = 1 THEN [Resting EXCEPT !.at = "upgrade", !.index = 1]
                 ELSE [Resting EXCEPT !.at = "guest"]
    /\ UNCHANGED <<users, version, task, looperElse, deleted>>

(* The ID given to the record here is replaced by the old one on the way   *)
(* to the file; at the end of the walk the version is written.             *)
Upgrade ==
    /\ looper.at = "upgrade"
    /\ IF looper.index <= Len(users)
       THEN /\ looper' = [looper EXCEPT !.at = "find",
                 !.record = [users[looper.index] EXCEPT !.id = looper.index - 1]]
            /\ UNCHANGED version
       ELSE looper' = [Resting EXCEPT !.at = "guest"] /\ version' = 2
    /\ UNCHANGED <<users, task, looperElse, deleted>>

(* The guest is added unless there is one.                                 *)
GuestIsMade ==
    /\ looper.at = "guest"
    /\ looper' = IF Known(Guest) THEN Resting
                 ELSE [Resting EXCEPT !.at = "count", !.record = NewGuest]
    /\ UNCHANGED <<users, version, task, looperElse, deleted>>

(* The server stops or dies, between any two steps.                        *)
ServerStops ==
    /\ looper.at # "down"
    /\ looper' = [Resting EXCEPT !.at = "down"]
    /\ task' = [s \in Session |-> Idle]
    /\ login' = [s \in Session |-> FALSE]
    /\ user' = [s \in Session |-> None]
    /\ uam' = [s \in Session |-> "none"]
    /\ blob' = [s \in Session |-> None]
    /\ UNCHANGED <<users, version, unnumbered, deleted>>

-----------------------------------------------------------------------------
(* There is no file, or one of the first version with a guest and a user.  *)
Init ==
    /\ \/ users = <<>> /\ version = 0
       \/ /\ \E name \in Name \ {Guest}, given \in Settings :
                users = <<NewGuest, NewUser(name, given)>>
          /\ version = 1
    /\ looper = [Resting EXCEPT !.at = "down"]
    /\ task = [s \in Session |-> Idle]
    /\ login = [s \in Session |-> FALSE]
    /\ user = [s \in Session |-> None]
    /\ uam = [s \in Session |-> "none"]
    /\ blob = [s \in Session |-> None]
    /\ unnumbered = (version = 1)
    /\ deleted = 0

SessionStep(s) ==
    \/ FPLogin(s) \/ FPLoginDHX(s) \/ FPContLogin(s) \/ FPLogout(s)
    \/ FPChangePswd(s) \/ FPChangePswdBegins(s) \/ IsAdmin(s)
    \/ FPMapID(s) \/ FPMapName(s) \/ FPGetUserInfo(s)
    \/ WalkOn(s) \/ NotFound(s) \/ LogonFinds(s) \/ LookupFinds(s)
    \/ ChangeLogsOn(s) \/ ChangeRereads(s) \/ ChangeFinds(s) \/ ChangeWrites(s)

LooperStep ==
    \/ CMD_AFP_ADDUSER \/ CMD_AFP_DELUSER \/ CMD_AFP_UPDATEUSERINFO
    \/ NewUserIsNumbered \/ NewUserIsWritten \/ NewDatabaseIsStamped
    \/ UpdateFinds \/ UpdateWrites
    \/ ServerStarts \/ Upgrade \/ GuestIsMade \/ ServerStops

Next == LooperStep \/ \E s \in Session : SessionStep(s)

Spec == Init /\ [][Next]_vars

-----------------------------------------------------------------------------
(* Every variable has its type; names are those of different attributes.   *)
TypeOK ==
    /\ users \in Seq(User)
    /\ \A i, j \in DOMAIN users : users[i].name = users[j].name => i = j
    /\ version \in 0..2 /\ deleted \in 0..MaxDeletions
    /\ looper.record \in User \cup {None} /\ looper.index \in Nat
    /\ \A s \in Session :
          /\ task[s].at \in {"idle", "write"} \cup Walks
          /\ task[s].name \in Name \cup {None} /\ task[s].id \in Nat \cup {None}
          /\ task[s].record \in User \cup {None}
          /\ task[s].index \in 1..(Cardinality(Name) + 1)
    /\ login \in [Session -> BOOLEAN]
    /\ user \in [Session -> Name \cup {None}]
    /\ uam \in [Session -> {"none", "guest", "clear", "dhx"}]
    /\ blob \in [Session -> Name \cup {None}]
    /\ \A s \in Session : login[s] => user[s] # None

(* Two users never have the same ID, by which FPMapID tells them apart, as *)
(* long as no user has been deleted and the database is not one of the     *)
(* first version: ID's are counted, and the upgrade does not assign any.   *)
IDsAreUnique ==
    unnumbered \/ deleted > 0 \/ \A i, j \in DOMAIN users : users[i].id = users[j].id => i = j

(* A walk that ends without the user was looking for one that was not      *)
(* there when it began, or a user was deleted under it: no login, change   *)
(* of password, look-up or IsAdmin fails for a user because others are     *)
(* added or written meanwhile.  A deletion may move an ID to another user, *)
(* so for FPMapID it must not have come before the walk, either.           *)
FoundUnlessDeleted ==
    \A s \in Session : Misses(s) =>
        \/ task[s].absent \/ task[s].shrunk
        \/ task[s].id # None /\ deleted > 0

(* Between two looks at a record a change of password alters nothing but   *)
(* the password and the must-change flag of that user, unless somebody has *)
(* written or deleted that record after it was read: only then is an       *)
(* update of the administrator lost, or a deleted user back.               *)
OnlyRacingWritesAreLost ==
    [][\A s \in Session : ChangeWrites(s) /\ ~task[s].stale =>
          LET r == task[s].record IN
          /\ Known(r.name) /\ Len(users') = Len(users)
          /\ \A i \in DOMAIN users :
                users'[i] = IF users[i].name # r.name THEN users[i]
                            ELSE [users[i] EXCEPT !.password = r.password,
                                                  !.flags = @ \ {"must change"}]]_vars

(* A user whose password has expired and who gives it rightly comes to the *)
(* change of it, where the must-change flag would be cleared.              *)
ExpiredPasswordCanBeChanged ==
    [][\A s \in Session :
          ChangeLogsOn(s) /\ LogonResult(users[task[s].index], task[s].old) = "expired"
             => task'[s].at = "reread"]_vars
=============================================================================
