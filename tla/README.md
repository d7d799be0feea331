# A TLA+ model of the MacFile AFP server

MacFile shares folders of a Haiku machine with classic Macintosh clients over
AFP, the Apple Filing Protocol, on TCP port 548. This directory holds TLA+
modules of the server's concurrent core and of the data it keeps, the TLC
configurations that check them, and TLAPS proofs. Paths below are relative to
`src/afpserver/afp_sources/` unless they begin with `src/`.

## 1. Inventory

### Threads and locks

| thread | code | what it does |
|---|---|---|
| listener | `dsi_network.cpp:62` | accepts, spawns one thread per client |
| connection (one per client) | `dsi_connection.cpp:167` | owns a `dsi_connection` and its `afp_session`; receives, executes and answers requests one after the other |
| scavenger | `dsi_scavenger.cpp:113` | every 15 s: tickles, kills dead sessions, announces changed volumes |
| looper | `afpServerApplication.cpp` | messages of the configuration application and the node monitor: share, unshare, users, server messages, quit |

| lock | protects | held |
|---|---|---|
| `dsi_scavenger::mMutex` | `mOpenConnections` | a whole pass of the scavenger; one list operation of anybody else |
| `gLockListLocker` | the global list of byte-range locks | one walk or one update |
| `afp_session::mLock` (recursive) | open volumes, files, desktop references of a session | one operation |
| `volume_blist_mutex` | the list of shared volumes | one operation; the scavenger's look at the volumes |
| `mSendMutex` | the socket | one `send()` loop |
| `desk_mutex` (recursive) | the desktop databases | one desktop command |
| `fp_volume::mLock`, `forkitem->mutex` | open files of a volume; one fork | one operation |

### Components

| component | state | operations | hard behaviour | correct means |
|---|---|---|---|---|
| byte-range locks (`fp_rangelock.*`, `afp_fork.cpp`) | global list of lock objects; a list per open fork | lock, unlock, test before a transfer, close | the test and what follows it are not atomic; a lock object is in two lists | no overlap but by a race; refusals are justified; the lists agree; nothing survives its session |
| DSI requests (`dsi_connection.*`, `afpreplay.*`) | request counter, replay cache, session-open and receive flags | take a packet, execute or replay or refuse, answer | pipelining, repeats, wrap-around of the 16-bit id, reconnection | no repeat is executed twice; replies belong to their requests; an orderly client is never cut off |
| DSI framing (`dsi_connection.cpp:193`) | receive buffer, bytes in it | append what `recv()` gave, split packets | packets in pieces, several packets at once, lengths that do not fit | the packets processed are the packets sent |
| connections and scavenger (`dsi_scavenger.*`, `dsi_network.cpp`) | list of connections, two time stamps per session, flags | accept, track, tickle, kill, announce, stop tracking | two threads end a connection; a pass holds the mutex; clocks | no use of a deleted connection; the dead go, the living stay; clients learn of changes |
| session tables, reconnect (`afp_session.cpp`, `afp_volcmds.cpp`) | open volumes, 24 open files, desktop references, token, client id | open, close, get token, disconnect old session | one session ends another through a pointer taken from the list | the old session, and only it, ends |
| fork I/O (`afp_fork.cpp`, `afp_session.cpp:396`) | a buffer per open resource fork with a dirty flag | read, write, set length, flush, close | a private copy per opener; write-out in two steps; reference numbers wrap | what was saved is on the disk; who only read writes nothing; a fork is read whole |
| volumes (`fp_volume.*`, `afpvolume.*`, `afpServerApplication.cpp`) | list of volumes, preferences, open files, dirty flag | share at start, add, remove, set flags, node monitor; open, close, mark dirty and clean | unsharing under open sessions; addresses used again; memory and preferences change in two steps | names are unique; what is shared is saved; lists of open files hold open files; a client finds what it opened |
| login (`afpuser.cpp`, `afpdhxlogin.cpp`) | authenticated flag, user, state of an extended login | login, continue, change password, log out | expired passwords; steps out of order | a user is found; an expired password can be changed |
| user database (`afplogon.cpp`) | one attribute per user | create, change, delete, look up, upgrade | looper and session threads share a file without a lock | ids are unique; updates are not lost |
| desktop database (`afpdesk.cpp`) | header with counts, array of entries; comments | add, find, remove | header, entries and size are separate writes; the first header is written without the lock | to its clients it is a dictionary; counts agree with entries; what is there is found |
| catalog (`afp_catalog.cpp`, `fp_objects.cpp`) | the tree of files and folders, their attributes | list, create, copy, rename, move, delete, set attributes | an object is looked up by name again at every step; a rename is several calls | commands act on the object they named; shown names are found; lists are complete |
| access, extended attributes, buffers, statistics, host name, messages | | | mostly formatting and host I/O | |
| configuration application, share tools, installer | | send messages to the server; copy files | outside the server | |

`PROJECT.json` lists every component with its status and the hazards with
their lines.

### How the parts interact

A connection thread registers its connection with the scavenger, then calls
`Receive`, which calls `ProcessReceivedBytes` for each packet, which calls the
AFP command; the command works on the session, on volumes and on the lock list.
The scavenger reads the session's time stamps, calls `HasVolumeOpen` (session
lock), sends on the session's socket and ends a session by clearing
`mContinueRecv` and shutting the socket down; the connection's own thread
notices, stops tracking and deletes. A change in a volume reaches the other
clients only through its dirty flag and the next pass.

## 2. Plan

Order: what many threads share first, then protocols of one connection, then
data structures.

| # | module | status | models | runs and bounds | theorems |
|---|---|---|---|---|---|
| 1 | `RangeLock`, `RangeLockProofs` | done | byte-range locks | 2 sessions, 1 file, 2 locks | types, all safety invariants, refusals |
| 2 | `DsiRequests`, `DsiRequestsProofs` | done | ids, replay cache, dispatch | ids 0..4, cache of 2, 4 requests, 2 connections | types, repeats, replay cache, replies, the orderly client |
| 3 | `Scavenger`, `ScavengerProofs` | done | connection life cycle, tickles, death, announcements | 2 connections and 1 volume; 1 and 2 for liveness | types, `PointerIsLive`, both action properties |
| 4 | `VolumeSharing`, `VolumeSharingProofs` | done | share and unshare against sessions with open volumes and files; the node monitor; the preferences | 1 session, 3 paths, 2 reused addresses, 3 shares | types, names, preferences, no freed file; what is open is known, with IDs that do not come round |
| 5 | `ResourceFork`, `ResourceForkProofs` | done | private buffers, dirty flags, write-out, reference numbers, stops | 2 sessions, 1 file, 3 opens | types, saves, reference numbers, both action properties |
| 6 | `Accounts`, `AccountsProofs` | done | the user database, its looper and the logins, changes of password and look-ups of sessions | 1 session, 2 users | types, ids, walks, `OnlyRacingWritesAreLost` |
| 7 | `DesktopDB`, `Dictionary`, `DesktopDBProofs` | done | the file in its single writes, comments; refines a dictionary | 2 sessions, 3 entries, 1 comment | types, counts, searches, the refinement of `Dictionary` |
| 8 | `Catalog`, `CatalogProofs` | done | commands on a tree in the steps between their calls on the file system | 2 sessions, 4 nodes, 3 calls | types and the tree, names, both action properties |
| 9 | session tokens and reconnection, stream framing, access rights | not done | see section 7 | | |

`DesktopDB` is composed with `Dictionary` by its refinement mapping. The other
modules meet in names only: a session's thread, and what `EndSession` does, is
in each of them the part that touches the component's state.

No module uses a RECURSIVE operator, so that all can be proved about.
What `Append`, `RemoveAt`, `RemoveFirst` and `InsertAt` do to the type, length,
elements and distinctness of a list stands as lemmas at the head of each proof
module that cites it.

## 3. The modules

### RangeLock

A session thread executes one request at a time; `req[s]` is that request and
`phase` where it is. `gLockListLocker` is held for one walk or one update of the
list, so the steps are: construct the lock object (`FPByteRangeLock_Lock`),
walk the list (`Lock_Scan`), make the object valid (`Lock_Commit`) or delete it
(`Lock_Fail`); find and shrink (`FPByteRangeLock_Unlock`), then delete
(`Unlock_Delete`); begin a read, write or flush, walk the list (`Access_Scan`),
transfer (`Access_Do`); leave the table of open files, delete the fork's locks
one by one (`CloseFile_Drop`), free the fork (`CloseFile_Free`). A session's
destructor (`EndSession`, `Destructor_Close`, `Destructor_Done`) closes what is
open, and `NewSession` may reuse its address, which is what `RangeLocked`
compares.

Ranges are integers with inclusive ends, as in the code. The 32-bit command reads
-1 where its whole-file case expects 0xFFFFFFFF and never takes it, hence `ext` in
`LockRange`. Overflow of `off_t` is outside the bounds of an offset a file can
have. The length of a resource fork is any value up to the bound.

`raced` and `since` are history fields: which foreign locks were committed
between a lock's or request's scan and what it did next. They decide nothing.

### DsiRequests

One client with one session at a time. `ops` are its requests, with what became
of them; `toServer` and `toClient` are the two directions of the connection.
`Take` is the reading of the id and `GetNextClientRequestID`; the eight
`Server_...` actions are the branches of `ProcessReceivedBytes`. The AFP commands
are those the layer tells apart: a login, `FPByteRangeLock` ("lock"), which is
the only command the search in the replay cache can match because it compares
the command with the first byte of the cached DSI header, and any other
("write"). A killed session works off the packets that are in its buffer; a
reply sent after the shutdown goes nowhere. `Reconnect` is the end of one
connection and the start of another, with a new session and an empty cache.
The client matches a reply by its id with the requests of the connection that
are still waiting, and expects none for a tickle, which gets none.
A resent reply carries the incremented id and no error; that the code writes
those into the cached header is left out, since they are written again before
every send.

`unchecked` counts how often an id was adopted without a test, `runsHere` the
executions of a request on this connection.

### Scavenger

`phase` is the scavenger's place in its pass, and `dsi_scavenger::mMutex` is
free iff it snoozes. `thread[c]` is the life of a connection's thread. Time
stamps are kept as ages that stop growing once nothing depends on them.
`Interval` is `now` minus a stamp as an unsigned number: `now` is read when a
pass begins, and a younger stamp wraps. `closed` is the client's end of the
connection, `lockLost` a session lock that `CloseFile` left locked; `owed` is a
history variable, the announcements due in this pass.

`mMutex` is `std::mutex`, for which a waiting thread may starve in theory. The
guard of `Tick` says that those that wait get it during the 15 seconds in which
the scavenger sleeps; without it nothing about times could be said.
`send()` is taken to return. The timer of `select()` is taken to start with the
last request. The list of volumes is fixed. `volume_blist_mutex` is not a
variable: in this module only the scavenger takes it.

### VolumeSharing

The looper of `afpServerApplication` is one thread: `looper` is the message it
works on, and while it is not `Waiting` no other is taken up. Between the steps
of a message the sessions run. CMD_AFP_ADDSHARE is `AddShare` (the preferences),
`UpdateVolume` (the second half of `SaveVolumeData`) and `AddShare_Start`;
CMD_AFP_SETVOLFLAGS the first two; CMD_AFP_RMVSHARE `RemoveShare` and
`RemoveVolumeData`; the node monitor `NodeMonitor` and `RemoveVolumeData`;
`ReadyToRun` shares the saved paths one by one (`ShareAllVolumes`). `Stop` may
come at any time and leaves only `preferences`. Flags are reduced to the
read-only flag, names to `Leaf`, which need not be injective.

`object` says what is at each address; a volume's identity is its address, as in
the code, so a new volume may be taken for a deleted one. A session's request
searches the list (`FPOpenVol`, `FPCloseVol`, `FPOpenFork`) and works with the
address it got in a later step. `Used` is a use of a deleted object: the server
ends, or nothing happens to any other object. That is an abstraction: freed
memory may behave worse. `RemoveVolumeData` after the node monitor reads a freed
path, so it removes the right name or none.

`CloseFile` is two steps, the volume's list and the freeing of the item; a
reference number in `1 .. MaxFiles` stands for the item, and two open files of
a session have different ones (numbers that wrap are left to `ResourceFork`).
The closing of a resource fork, desktops and locks is elsewhere. `told` is a
history variable: the IDs a client was given and has not closed.

### ResourceFork

The host has no resource forks: a fork is the attribute `AFP_RSRC_ATTRIBUTE` of
its file. `FPOpenFork` asks for its size, `OpenAndReadInResourceFork` reads it
into a buffer of that open fork; `FPWrite` and `FPSetForkParms` change the
buffer; a flush, a close, the session's end and a change of the length save it in
two calls, `RemoveAttr` and `WriteAttr`, of which the second may fail
(`WriteAttrFails`) and between which the server may stop. `task[s].op` says on
whose behalf, since only `FPSetForkParms` looks at the result, leaves
`rsrcDirty` alone and writes nothing for a fork of length 0 (`WritesNothing`).
`mOpenFiles[s]` is the list as the session keeps it, so that `GetForkItem` finds
the first of two forks with one number. What a fork holds is a `Content`, which
tells apart no more than lengths and versions. `saved` and `intact` are the
client's view: what it was last told is saved, and whether no save has been cut
off since.

### Accounts

`users` is the list of user attributes in the order in which
`GetNextAttrName` gives them. A look-up is a walk: the n-th call of
`afpGetIndUser` opens the file anew and takes the n-th attribute, and each call
is a step (`WalkOn`, `Hits`, `Misses`), so that attributes may come and go under
it. The looper alone removes users; its own walks are one step each. A session's
request is in `task`: a logon (`FPLogin`, `FPContLogin`), the three walks of a
change of password (`ChangeLogsOn`, `ChangeRereads`, `ChangeFinds`, then
`ChangeWrites`), a look-up (`FPMapID`, `FPMapName`, `FPGetUserInfo`) or `IsAdmin`,
which kills the session of a user that is gone. `End` and `Reply` are what the
connection does after a reply to a session that is not authenticated. The looper
has the three messages about users and `ReadyToRun`'s upgrade and guest, in
steps between their calls on the file. `absent`, `shrunk` and `stale` in a task are
history: what has happened to the attributes since a walk began, or since the
record was read that is to be written back.

### DesktopDB and Dictionary

`file` is the desktop file: a header with counts, or none in a legacy file, and
the array of entries. An addition or removal searches and builds the new array
in memory (`BeginWrite`), then writes header, entries and, for a removal, the file's
length (`WriteHeader`, `WriteEntries`, `SetSize`), with `desk_mutex` held, which is
`deskMutexFree`. `FPOpenDT` creates the file and writes the first header without
it (`FPOpenDT_CreateFile`, `FPOpenDT_WriteHeader`). The search is
`afp_FindDTEntry` with its index, compared with the count of its type but counted
over all entries; the three reading commands are operators that call it. Comments
are attributes of the objects, written without the mutex (`WriteComment`).
`Garbled` is what is read where no entry begins, after a stop in the rewriting of a
legacy file.

`Dictionary` is the promise: an operation gives one key a value or none, in one
step between its beginning and its end, or not at all. `Store` is the refinement
mapping, `Contents` for what the dictionary holds and `Operations` for what is being
done to it: the keys are what entries are found by and the objects with comments,
and while a legacy file is rewritten, what counts is the array as it was (`View`).
`counted` and `sound` are history: faults after which the counts may be wrong,
and those from which the store does not recover.

### Catalog

`place` gives each node its folder and name, `charMap` the attribute with the
name the client gave where that could not be stored, `locked` the nodes that inhibit
deletion and renaming. A command resolves a folder and a name to an `Entry`, which
is again a folder and a name: `At(entry)` is looked up at every further step, as
`BEntry` does. The steps of a command are those between its calls on the
file system: `FPDelete`, `CheckDelete`, `RemoveEntry`; `FPRename`, `CheckRename`,
`Rename`, then `OpenToName` and `SetAFPName`; `FPMoveAndRename`, `CheckMove`,
`MoveTarget`, `MoveTo`, `MoveRenames`, and the name; `FPCreateDir` and `FPCreateFile`
with their creation and the name; `FPCopyFile`, `CreateCopy`, the name and `CopyFile`,
which copies attributes too; `FPSetFileDirParms`, `GetAttributes`,
`SetAttributes`. `FPEnumerate` reads the folder from its beginning for each reply
and passes over what the client has; the folder is read in the order of the names,
an object's place being the number of names up to its own (`UpTo`). `listing` is the
client's memory and history. That `n` is a folder above `d`, or `d` itself, is said
by sets (`Within`): `n` is in every set of folders that has `d` and, with a folder,
the one it is in.
`spoiled` are nodes whose attribute need not fit their name, `raced` commands
during which another session has changed the tree.

## 4. The runs

| run | instance | states | shows |
|---|---|---|---|
| `range_lock` | 2 symmetric sessions, 1 file, 1 fork slot each, 2 locks, sizes 0..1, offsets -1..1, lengths -1, 1, 3 | 0.6 M | the five invariants of section 5 and that every refusal has a foreign lock as its cause |
| `dsi_requests` | ids 0..4, cache of 2, 4 requests, 1 repeat, 2 connections, queue of 2 | 2.4 M | sequencing, replay cache and replies |
| `scavenger` | 2 symmetric connections, 1 volume, intervals 1, 2, 3, 4, pass of at most 1 | 2.0 M | no dead pointer, announcements, reasons for kills |
| `scavenger_liveness` | 1 connection, 2 volumes, locks may get lost | 27 k | the dead and the closed go, the quiet get tickles, or the scavenger waits for a lost lock |
| `scavenger_stall` | same | | a lost lock stops dead-session detection |
| `volume_sharing` | 1 session, 3 paths of which two have one name, 2 addresses, 3 shares in a server's life, 6 IDs, 2 open volumes, 1 file | 2.0 M | names, preferences, open files and IDs stay consistent under deletion and reuse |
| `desktop` | 2 symmetric sessions, 2 symmetric creators, 1 kind, 2 sizes, up to 3 entries, 1 object and comment, 1 desktop reference each | 0.16 M | counts, searches, and the refinement of `Dictionary` |
| `accounts` | 1 session against the looper, the guest and a user, 2 passwords, 1 deletion | 3.5 M | ids, look-ups and lost updates |
| `accounts_expired` | same | | an expired password cannot be changed |
| `catalog` | 2 symmetric sessions, the root, a folder, 2 symmetric files, 2 names and the mapped one, 1 object a reply, 3 calls | 1.6 M | names, objects of commands, lists |
| `resource_fork` | 2 symmetric sessions, 1 file, 4 contents, 2 reference numbers, 2 open forks each, 3 opens | 0.5 M | saves, reference numbers, whole reads, who writes |
| `resource_fork_length` | same | | the length told of an open fork is not its buffer's |

Why the bounds are enough to be interesting. Two sessions and two locks are what
an overlap needs; offsets from -1 with lengths up to 3 over a file of at most one
byte give empty, negative, touching, nested and whole-file ranges. With five ids
the counter wraps within four requests, from either first id, and a cache of two
evicts. Two connections let one be deleted while the scavenger is at the
other; the four intervals keep the order of the code's 15, 120, 130 and 86400
seconds, and a pass may take longer than a tick, which is what makes its clock
stale. With one connection the liveness run still has its thread
race the scavenger for the mutex.
Two addresses and three shares put a third volume where a deleted one was, with a
session's request, open volume or open file still pointing there; of the six IDs
the third share gets the first that `FindVolume` cannot find; a restart begins
again with ID 1. Sessions meet only in the volumes' lists, and one that ends and
begins again gives the races with the looper; the theorems hold for any number.

Three desktop entries are a removal from the middle, and an icon behind an
application and behind another creator's icon; the second session meets the
first header and the writes of the first. Two users and a deletion let an attribute
move up under a walk and an ID come again; a second session would meet the first
only through the attributes it writes, which is what the looper does to the one
there is. Three calls are a command, one that races it and one that finds what both
have left; two names beside "." let a rename go to a free name, a taken one and
the mapped one, in each direction. With two reference numbers the third open
takes one that is in use, and two forks of one file in one session, and one of
another, overwrite each other's saves.

Only `dsi_requests` switches the deadlock check off: the bound on the number of
requests stops the client. In `Catalog` the step `ClientsRest` stands for clients that
send no more, and only where no command is in progress, so that a stuck command
would still be found.

Fairness (`FairSpec` of `Scavenger`): weak fairness of time, of the scavenger's
thread and of each connection's thread between requests, as the kernel schedules
them. No client has to send, receive or close anything.

Assumptions about the host: a call on an attribute or an entry is atomic, and
`WriteAttr` replaces the attribute; `CreateFile` without `failIfExists` keeps the
contents of a file there is; the overlapping `memcpy` of `afp_RemoveEntry` copies
upwards; the write of the desktop's header, 20 bytes at the file's beginning, does
not fail by itself.

## 5. What is proved

`RangeLockProofs` proves, for any sets of sessions, files and slots, any number
of locks and any integer offsets and lengths:

* `TypeCorrectness`, and the four invariants of the run: `OverlapsAreRaces`
  (two sessions' locks overlap only if one was committed between the other's scan
  and its commit), `TestsAreSound` (a request that passed its test meets only
  locks committed since), `ListsNeverDisagree` and `NothingSurvivesItsSession`;
* `RefusalsAreJustified`, the action property.

The assumptions are those of the module on its constants. The argument is the
inductive invariant `IInv`. The properties are not inductive by themselves:
`RequestOK` adds what a request in flight refers to (its fork is still open, its
lock object is its own and not yet valid, its range is not empty once tested), and
`ValidNotEmpty` that a valid lock covers a byte, without which the code's overlap
test, which looks at the ends of ranges, would differ from overlap
(`RangeHitIsOverlap`). `OnlyRacingLocksOverlap` then follows at `Lock_Commit` from
`TestedRangeIsFree`, whose `since` is what becomes `raced`.

`VolumeSharingProofs` proves, for any sets of sessions, paths and addresses, any
names and any limits: `TypeCorrect`, `NamesUnique`, `SharesSaved` and
`NoFreedFileListed`. The argument is in two layers.

* `ShareInv` is about the looper. `ListedAreLive` (no deleted object is on the
  list) is what makes a new object's address different from every listed one,
  so that sharing it changes no other volume. `LooperOK` carries across the
  steps of a message what its first step did: the flag being written is the saved
  one, and a path about to be forgotten is not shared any more, because
  `SharedNamesAreUnique` leaves only one volume of a path. That is why
  `SharedIsSaved` survives `RemoveVolumeData`, which runs after the sessions had
  a chance to run.
* `FileInv` adds the items of open files. `FilesOK` says that an item about to
  be freed (`freefile`) is on no volume's list; it is kept because the item
  knows its volume's address and a new volume at that address starts with an
  empty list. `ListedFilesAreOpen` then survives `CloseFile_Free`.

The looper's steps preserve `FileInv` by one lemma, `KeptOrNewStep`: each leaves an
object with its files or makes one without. The sessions' steps leave the list and
the preferences alone (`SessionShares`).

A third layer, `IDInv`, gives `OpenKnown`: `OpenIsKnown` holds if `MaxShares < IDRange`,
that is, with fewer than 65536 shares in the life of one server process. Without that
hypothesis it is false: TLC finds an ID that is given again while an open file or a
client still has it. `NewIDs` says that an ID in use was given before, and to one
volume only; `Knows`, that the volume at the address of an open file is another one
or lists the file; `Sees`, what a session knows of IDs. The clause of `Sees` about a
request to close a volume is what the proof turns on: the object it found may be
deleted and another made at its address before `VolumeClosed` removes the entry, and
then the other's ID must be one that the client was not told. The looper's steps
preserve it by `LooperIDs`: each leaves an object with its ID and files or makes one
with an ID never given (`Grows`).

`ScavengerProofs` proves, for any number of connections and volumes and any
intervals in the order of the code's: `TypeCorrect`, `PointerLive`,
`AnnouncedFirst` and `KilledOnlyForAReason`. `TrackedAreRunning` is the reason why
the raw pointer is good: the list holds exactly the connections whose thread is
between `TrackConnection` and `StopTracking`, and only a thread that has left the
list deletes. `OwedIsAhead` is what the announcements need: one that is owed is
to a session the pass has yet to come to, or to the current one for a volume it
has yet to look at; at the end of the list there is none.

`ResourceForkProofs` proves, for any sessions, files and contents, any number of
reference numbers and any limit on open forks: `TypeCorrect`, `SavedReachesDisk`,
`NumbersAreUnique`, `ReadWhole` and `WritersSave`. `SavedIsOnDisk` says nothing while
a save is in progress; `SavedUnlessWriting` is the stronger fact that it holds until
the attribute has been removed. `Numbered` ties a fork's number to the session's
counter and to the fork's age, from which it follows that two numbers meet only after
a whole round. `Written` says that a dirty buffer is one the client has written to,
and that such a buffer is not the garbage of a failed read.

`AccountsProofs` proves, for any sessions, any finite set of names, any passwords and
any number of deletions: `TypeCorrect`, `IDsDiffer`, `WalksFind` and
`ChangesLoseOnlyRaces`. That there are finitely many names bounds a walk; that `None`
is no name, password, number or record keeps the optional fields apart. `NamesDiffer`
(the attributes have different names) is the foundation. `Ahead` is the invariant
of a walk: what it looks for is at its index or behind, unless it was absent at the
beginning or an attribute was removed. `Current` is that of a change of password: a
record that nobody has touched is the file's but for the must-change flag.
`IDsAreCounted` needs that the looper's new user has a name that no session adds
meanwhile, which is in `LooperFits`.

`DesktopDBProofs` proves, for any sessions, creators, kinds, objects, comments and any
number of entries: `TypeCorrect`, `HeaderCounts`, `EntriesFound` and `Refines`, that
the database implements `Dictionary`. `Fits` is the invariant of an operation
between its writes: before the header its array is the file's with one entry added,
replaced or removed (`Made`), which uses that the mutex lets nobody else write
(`OneWriter`); before the entries the same of the array as it was; and before the
file is cut, the file has the operation's array and at most one entry more (`Begins`).
`Keyed`, that no two entries have one key, holds as long as `sound` does. The
refinement goes step by step: `WriteHeaderThere`, `WriteEntriesThere`, `SetSizeThere`
and one lemma for each other action show that it maps to a step of `Dictionary` or to
none, in terms of the array that counts before and after it (`ViewThen`, `ViewStays`);
`HeldAdded`, `HeldRemoved` and `HeldCut` say what such a change of the array is to the
dictionary. `ImplementsDictionary` promises nothing once `sound` is lost, so only
steps from and to sound states have to be followed (`SoundBefore`). The module assumes
that an object is not a key, that `None` is no entry, and that there is room for one.

`DsiRequestsProofs` proves, for any width of the request ID, any cache not larger
than that, and any number of requests, repeats and connections: `TypeCorrect`,
`RepeatsAreUnchecked`, `CacheRight`, `RepliesNotCrossed` and `InOrderSurvives`.
`Ascends` is behind the first two of the four: until a second ID is taken without a
test, the IDs executed and those in the cache go up to the counter and no further, so
that an ID sent again is below it. `InOrder` and `Answers` are about a client that
repeats nothing, and hold however often the IDs wrap: the requests in the stream are
the last of the connection in their order, the counter is the ID of the last one
taken, and the replies on their way are those to the oldest requests that wait. The
IDs of two waiting requests may be equal after a wrap; that the client takes the
right one follows from the order alone.

`CatalogProofs` proves, for any sessions, any finite sets of folders and files, any
names, any room in a reply and any number of commands: `TypeCorrect`, `NamesFound`,
`CallsHitTheirObject` and `ListComplete`. That a disk has finitely many nodes lets a
folder be numbered; that `None` is no node, name or entry keeps the optional fields
apart.

* The tree (`TreeInv`, which with the types gives `TypeOK`). A set of folders that
  goes up from a node's folder and does not have the node shows that the folder is
  not inside it. `PutKeepsTree` makes such a set for each node after a move from the
  ones before: where the moved node is in it, the two sets that show the one and the
  other are joined or met. It needs that nothing is at the new place, that the folder moved
  to is there, and that it is not inside the node: what `MoveTo` refuses. That every folder is under the root (`UnderRoot`) is not
  part of the invariant but follows from it, the sets being finite: a smallest set
  that goes up without the root would have a smaller one in it.
* Objects of commands. `FoundInv` is what an unraced command knows: the node it found
  is still at its entry, is not locked once that has been checked, and a node opened
  for its name is at the entry too. A change by another session marks a command as
  raced; the command's own changes keep its entry in step. `StepInv` says which fields
  a command has at which step, so that its entry and name are never `None` in use.
* Names. `NameInv` adds to `ShownNamesAreFound` that a node which is not there has no
  attribute, without which a new node could inherit one. `SetAFPName` may write what
  does not fit; it then leaves the node in `spoiled`.
* Lists. `ListInv` relates what a client has seen to the places of the objects: while
  none has left, every object that stayed and comes before the index has been
  seen; while none has come, all that it has seen come before the index. No two
  objects have one place, so that the places are the numbers up to the number of
  objects (`ListedFacts`) and a reply has those it should (`ReplyFacts`).

With these, every safety property and every action property of the passing runs is
a theorem, and so is the refinement.

Only model-checked:

* The liveness properties of `Scavenger`: fairness and ENABLED are beyond the prover.
* The runs that expect a violation, which refute what a document says.

## 6. Where code and documents disagree

Shown by a run that expects a violation:

* `afp_session.cpp:510` returns with the session's lock held. With a dirty volume the
  scavenger then waits for it with `mMutex` held, and the thread that owns it
  waits for `mMutex` (`scavenger_stall`).
* `afp_dispatch.cpp:251` lets a user with an expired password change it, and
  `afplogon.cpp:76` clears the flag then; but `afplogon.cpp:31-36` checks the old
  password by a logon and returns its error, which for such a user is that the
  password has expired (`accounts_expired`).
* `fp_objects.cpp:1067` says that the length of an open resource fork is that of its
  buffer; the fork is looked for with `kResourceForkBit` (0x80) where `FPOpenFork`
  has stored `kRsrcFork` (1), so it is never found open and the length is that of the
  attribute on the disk (`resource_fork_length`).

Seen in the source and part of the modules' behaviour, or of what they leave out:

* `fp_rangelock.cpp:67` says there can be no overlapping locks; two sessions
  that test before either commits (`:250`) both get theirs. `OverlapsAreRaces`
  states what holds.
* `fp_rangelock.cpp:144` says a partly unlocked lock is shrunk; `afp_fork.cpp:1228`
  deletes it after the shrinking.
* `src/README.md:118` says the replay cache serves replies after a reconnection;
  it is a member of the connection (`dsi_connection.cpp:44`).
* `dsi_scavenger.cpp:155` subtracts a time stamp that may be later than the
  clock that was read when the pass began; a live client may be killed for it.
* `afpvolume.cpp:213` says that all volumes of the preferences file are shared;
  `afpServerApplication.cpp:372` saves a path before it is refused for its name,
  and a start shares only one path of a name, which need not be the one that
  was shared before.
* The token of a session (`afp_session.cpp:38`) is its virtual-table pointer, the
  same for all: `FPDisconnectOldSession` ends the first session that is tracked.
  `afp_volcmds.cpp:256` ends the new session where its comment says the old one.
* `afp_session.cpp:353` reports AFP_OK with a dangling pointer when the `BFile` of a
  fork cannot be made.
* Forks: a flush reports AFP_OK when `WriteAttr` failed, and clears `rsrcDirty`;
  `FPSetForkParms` leaves it set after its own save; the open mode is not checked
  for resource forks; a save goes to the entry's name, whatever is there now.
* The catalog: a move between folders that have one ID and different paths does
  nothing and reports AFP_OK; `FPSetFileDirParms` only ever clears attributes
  (`fp_objects.cpp:1190`); `FPDelete` does not ask for open forks; a failed copy
  leaves an empty file, and a copy shows the name of its source.
* The desktop: `afp_AddEntry` reports AFP_OK after a failed write, and
  `FPRemoveAPPL` drops the error of `afp_RemoveEntry`.
* The user database: `ReadyToRun`'s upgrade gives no IDs, since
  `afpUpdateUserInfo` restores the old ones.
* `afp_buffer.cpp:177` counts with a byte: a string of more than 255 characters
  would never be read to its end.

## 7. What is not modelled

Session tokens and reconnection beyond what `Scavenger` has of them: the promise
is broken by the token alone, which is the same for every session, and no order
of events adds to that. The framing of DSI packets in the stream; access rights
and `afpCheckWriteAccess`; extended attributes; the format of replies and the
commands that only fill one; long names; `FPCreateID` and `FPResolveID`;
the contents of data forks, whose reads and writes are single calls
of the host, and open modes; the cryptography of the login; statistics, host
name, messages and logging, which decide nothing. Of the volumes:
`mOpenedRefCount`, which nothing reads; directory IDs; the volume parameters;
`FPGetSrvrParms`, which walks the list without its mutex to fill a reply.

The configuration application, the share tools, the installer and the build
scripts are other programs; of the application, the messages about users and
about volumes are modelled where the server receives them. OpenSSL is
third-party.
