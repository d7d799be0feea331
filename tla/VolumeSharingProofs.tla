------------------------ MODULE VolumeSharingProofs ------------------------
(***************************************************************************)
(* Proofs about VolumeSharing for any number of sessions, paths and        *)
(* addresses, and any limits.                                              *)
(***************************************************************************)
EXTENDS VolumeSharing, SequenceTheorems, TLAPS

(* BList::RemoveItem or std::vector::erase yields a list of the same kind, *)
(* one shorter.                                                            *)
LEMMA RemoveAtType ==
    ASSUME NEW S, NEW q \in Seq(S), NEW i \in DOMAIN q
    PROVE  /\ RemoveAt(q, i) \in Seq(S)
           /\ Len(RemoveAt(q, i)) = Len(q) - 1
           /\ \A j \in DOMAIN RemoveAt(q, i) :
                  RemoveAt(q, i)[j] = IF j < i THEN q[j] ELSE q[j + 1]
<1> DEFINE a == SubSeq(q, 1, i - 1)
           b == SubSeq(q, i + 1, Len(q))
<1>0. Len(q) \in Nat /\ i \in 1..Len(q) /\ DOMAIN q = 1..Len(q)
  OBVIOUS
<1>1. a \in Seq(S) /\ Len(a) = i - 1 /\ \A j \in 1..i-1 : a[j] = q[j]
  BY <1>0
<1>2. b \in Seq(S) /\ Len(b) = Len(q) - i /\ \A j \in 1..Len(q)-i : b[j] = q[j + i]
  BY <1>0
<1> HIDE DEF a, b
<1>3. /\ a \o b \in Seq(S) /\ Len(a \o b) = Len(a) + Len(b)
      /\ \A j \in 1..Len(a)+Len(b) : (a \o b)[j] = IF j <= Len(a) THEN a[j] ELSE b[j - Len(a)]
  BY <1>1, <1>2, ConcatProperties
<1>4. RemoveAt(q, i) = a \o b
  BY DEF RemoveAt, a, b
<1>5. ASSUME NEW j \in 1..Len(q)-1 PROVE (a \o b)[j] = IF j < i THEN q[j] ELSE q[j + 1]
  <2>1. CASE j < i
    <3>1. j \in 1..i-1 /\ j \in 1..Len(a)+Len(b) /\ j <= Len(a)
      BY <1>0, <1>1, <1>2, <2>1
    <3>2. (a \o b)[j] = a[j]
      BY <1>3, <3>1
    <3> QED
      BY <1>1, <3>1, <3>2, <2>1
  <2>2. CASE ~(j < i)
    <3>1. Len(a) = i - 1 /\ j \in 1..Len(a)+Len(b) /\ ~(j <= Len(a))
      BY <1>0, <1>1, <1>2, <2>2
    <3>2. (a \o b)[j] = b[j - Len(a)]
      BY <1>3, <3>1
    <3>3. j - Len(a) \in 1..Len(q)-i /\ j - Len(a) + i = j + 1
      BY <1>0, <3>1, <2>2
    <3> QED
      BY <1>2, <3>2, <3>3, <2>2
  <2> QED
    BY <2>1, <2>2
<1>6. Len(a) + Len(b) = Len(q) - 1
  BY <1>0, <1>1, <1>2
<1>7. a \o b \in Seq(S) /\ Len(a \o b) = Len(q) - 1
  BY <1>3, <1>6
<1>8. DOMAIN (a \o b) = 1..Len(q)-1
  BY <1>7
<1> QED
  BY <1>4, <1>5, <1>7, <1>8

(* What remains of a list when one item is removed: every other item, and  *)
(* nothing new; of a list without repetitions, not the item.               *)
LEMMA RemoveAtRange ==
    ASSUME NEW S, NEW q \in Seq(S), NEW i \in DOMAIN q
    PROVE  /\ \A x \in Range(q) : x # q[i] => x \in Range(RemoveAt(q, i))
           /\ Range(RemoveAt(q, i)) \subseteq Range(q)
           /\ (\A j, k \in DOMAIN q : j # k => q[j] # q[k])
                  => /\ q[i] \notin Range(RemoveAt(q, i))
                     /\ \A j, k \in DOMAIN RemoveAt(q, i) :
                            j # k => RemoveAt(q, i)[j] # RemoveAt(q, i)[k]
<1> DEFINE p == RemoveAt(q, i)
<1>0. Len(q) \in Nat /\ i \in 1..Len(q) /\ DOMAIN q = 1..Len(q)
  OBVIOUS
<1>1. /\ DOMAIN p = 1..Len(q)-1
      /\ \A j \in 1..Len(q)-1 : p[j] = IF j < i THEN q[j] ELSE q[j + 1]
  <2>1. /\ p \in Seq(S) /\ Len(p) = Len(q) - 1
        /\ \A j \in DOMAIN p : p[j] = IF j < i THEN q[j] ELSE q[j + 1]
    BY RemoveAtType
  <2> HIDE DEF p
  <2>2. DOMAIN p = 1..Len(q)-1
    BY <2>1
  <2> QED
    BY <2>1, <2>2
<1> HIDE DEF p
<1>2. \A x \in Range(q) : x # q[i] => x \in Range(p)
  <2> SUFFICES ASSUME NEW j \in 1..Len(q), q[j] # q[i] PROVE q[j] \in Range(p)
    BY <1>0 DEF Range
  <2>1. CASE j < i
    <3>1. j \in 1..Len(q)-1 /\ p[j] = q[j]
      BY <1>0, <1>1, <2>1
    <3> QED
      BY <1>1, <3>1 DEF Range
  <2>2. CASE ~(j < i)
    <3>1. j # i
      OBVIOUS
    <3>2. j - 1 \in 1..Len(q)-1 /\ ~(j - 1 < i) /\ j - 1 + 1 = j
      BY <1>0, <2>2, <3>1
    <3>3. p[j - 1] = q[j]
      BY <1>1, <3>2
    <3> QED
      BY <1>1, <3>2, <3>3 DEF Range
  <2> QED
    BY <2>1, <2>2
<1>3. Range(p) \subseteq Range(q)
  <2> SUFFICES ASSUME NEW j \in 1..Len(q)-1 PROVE p[j] \in Range(q)
    BY <1>1 DEF Range
  <2>1. j \in DOMAIN q /\ j + 1 \in DOMAIN q
    BY <1>0
  <2> QED
    BY <1>1, <2>1 DEF Range
<1>4. ASSUME \A j, k \in DOMAIN q : j # k => q[j] # q[k]
      PROVE  /\ q[i] \notin Range(p)
             /\ \A j, k \in DOMAIN p : j # k => p[j] # p[k]
  <2>1. \A j \in 1..Len(q)-1 : p[j] # q[i]
    BY <1>0, <1>1, <1>4
  <2>2. \A j, k \in 1..Len(q)-1 : j # k => p[j] # p[k]
    BY <1>0, <1>1, <1>4
  <2> QED
    BY <1>1, <2>1, <2>2 DEF Range
<1> QED
  BY <1>2, <1>3, <1>4 DEF p

(* Appending adds one item.                                                *)
LEMMA AppendRange ==
    ASSUME NEW S, NEW q \in Seq(S), NEW x \in S
    PROVE  /\ Append(q, x) \in Seq(S) /\ Len(Append(q, x)) = Len(q) + 1
           /\ Range(Append(q, x)) = Range(q) \cup {x}
           /\ \A j \in DOMAIN q : Append(q, x)[j] = q[j]
           /\ DOMAIN Append(q, x) = DOMAIN q \cup {Len(q) + 1}
           /\ Append(q, x)[Len(q) + 1] = x
<1>0. Len(q) \in Nat /\ DOMAIN q = 1..Len(q)
  OBVIOUS
<1>1. /\ Append(q, x) \in Seq(S) /\ Len(Append(q, x)) = Len(q) + 1
      /\ DOMAIN Append(q, x) = 1..Len(q)+1
      /\ \A j \in 1..Len(q) : Append(q, x)[j] = q[j]
      /\ Append(q, x)[Len(q) + 1] = x
  OBVIOUS
<1>2. \A j \in 1..Len(q)+1 : j \in 1..Len(q) \/ j = Len(q) + 1
  BY <1>0
<1>3. \A j \in 1..Len(q) : j \in 1..Len(q)+1
  BY <1>0
<1>4. Len(q) + 1 \in 1..Len(q)+1
  BY <1>0
<1>5. \A y \in Range(Append(q, x)) : y \in Range(q) \cup {x}
  BY <1>0, <1>1, <1>2 DEF Range
<1>6. \A y \in Range(q) \cup {x} : y \in Range(Append(q, x))
  BY <1>0, <1>1, <1>3, <1>4 DEF Range
<1>7. 1..Len(q)+1 = (1..Len(q)) \cup {Len(q) + 1}
  BY <1>0
<1> QED
  BY <1>0, <1>1, <1>5, <1>6, <1>7

-----------------------------------------------------------------------------
(* The inductive invariants *)

(* What a step of the looper relies on.                                    *)
LooperOK ==
    /\ ~running => looper = Waiting
    /\ looper.at = "shareall" => looper.todo \subseteq DOMAIN preferences
    /\ looper.at \in {"update", "start"} =>
           looper.path \in DOMAIN preferences /\ preferences[looper.path] = looper.flag
    /\ looper.at = "forget" => \A a \in Listed : object[a].path # looper.path

(* No deleted object is on the list.                                       *)
ListedAreLive == \A a \in Listed : Live(a)

(* The invariant of the list and the preferences.                          *)
ShareInv ==
    TypeOK /\ LooperOK /\ ListedAreLive /\ SharedNamesAreUnique /\ SharedIsSaved

(* Items of files: whose they are, where they are listed, and that an item *)
(* about to be freed is listed nowhere.                                    *)
FilesOK ==
    /\ \A s \in Session : \A f \in mOpenFiles[s] : f.session = s
    /\ \A s \in Session :
           request[s].op \in {"closefile", "freefile"} => request[s].fork \in mOpenFiles[s]
    /\ \A a \in Address : Live(a) => \A f \in object[a].mOpenFiles : f.volume = a
    /\ \A s \in Session : request[s].op = "freefile" =>
           \A a \in Address : Live(a) => request[s].fork \notin object[a].mOpenFiles

FileInv == ShareInv /\ FilesOK /\ ListedFilesAreOpen

-----------------------------------------------------------------------------
(* Lemmas about the data *)

(* A deleted object is not an object.                                      *)
LEMMA FreedIsNoVolume == Freed \notin VolumeObject
<1> SUFFICES ASSUME Freed \in VolumeObject PROVE FALSE
  OBVIOUS
<1>1. DOMAIN Freed = {"at"}
  BY DEF Freed
<1>2. "path" \in DOMAIN Freed
  BY DEF VolumeObject
<1> QED
  BY <1>1, <1>2

(* An object that is there is typed.                                       *)
LEMMA LiveType ==
    ASSUME TypeOK, NEW a \in Address, Live(a)
    PROVE  object[a] \in VolumeObject
BY FreedIsNoVolume DEF TypeOK, Live

-----------------------------------------------------------------------------
(* Type correctness *)

LEMMA FirstIDs == 0 \in VolumeID /\ 1 \in VolumeID
BY IDAssumption DEF VolumeID

LEMMA InitType == Init => TypeOK
<1> SUFFICES ASSUME Init PROVE TypeOK
  OBVIOUS
<1>1. preferences \in [DOMAIN preferences -> BOOLEAN] /\ DOMAIN preferences \subseteq Path
  BY DEF Init
<1>2. looper \in LooperStates
  BY DEF Init, LooperStates
<1>3. request \in [Session -> Requests]
  BY DEF Init, Requests
<1>4. /\ mOpenVolumes \in [Session -> Seq(Address)]
      /\ \A s \in Session : Len(mOpenVolumes[s]) <= MaxOpenVolumes
  BY LimitAssumption DEF Init
<1>5. volume_blist \in Seq(Address) /\ shares \in 0 .. MaxShares
  BY LimitAssumption DEF Init
<1>7. running \in BOOLEAN
  BY DEF Init
<1>6. /\ object \in [Address -> VolumeObject \cup {Freed}] /\ gNextVolumeID \in VolumeID
      /\ mOpenFiles \in [Session -> SUBSET Fork] /\ told \in [Session -> SUBSET VolumeID]
  BY FirstIDs DEF Init
<1> QED
  BY <1>1, <1>2, <1>3, <1>4, <1>5, <1>6, <1>7 DEF TypeOK

(* The end of the process.                                                 *)
LEMMA StoppedType == TypeOK /\ Stopped => TypeOK'
<1> SUFFICES ASSUME TypeOK, Stopped PROVE TypeOK'
  OBVIOUS
<1>1. preferences' \in [DOMAIN preferences' -> BOOLEAN] /\ DOMAIN preferences' \subseteq Path
  BY DEF Stopped, TypeOK
<1>2. looper' \in LooperStates
  BY DEF Stopped, LooperStates
<1>3. request' \in [Session -> Requests]
  BY DEF Stopped, Requests
<1>4. /\ mOpenVolumes' \in [Session -> Seq(Address)]
      /\ \A s \in Session : Len(mOpenVolumes'[s]) <= MaxOpenVolumes
  BY LimitAssumption DEF Stopped
<1>5. volume_blist' \in Seq(Address) /\ shares' \in 0 .. MaxShares
  BY LimitAssumption DEF Stopped
<1>7. running' \in BOOLEAN
  BY DEF Stopped
<1>6. /\ object' \in [Address -> VolumeObject \cup {Freed}] /\ gNextVolumeID' \in VolumeID
      /\ mOpenFiles' \in [Session -> SUBSET Fork] /\ told' \in [Session -> SUBSET VolumeID]
  BY FirstIDs DEF Stopped
<1> QED
  BY <1>1, <1>2, <1>3, <1>4, <1>5, <1>6, <1>7 DEF TypeOK

(* Sharing a volume.                                                       *)
LEMMA SharingType ==
    ASSUME TypeOK, NEW p \in Path, NEW flag \in BOOLEAN, StartSharingVolume(p, flag)
    PROVE  /\ volume_blist' \in Seq(Address)
           /\ object' \in [Address -> VolumeObject \cup {Freed}]
           /\ gNextVolumeID' \in VolumeID
           /\ shares' \in 0 .. MaxShares
<1>1. CASE WithName(Leaf[p]) # {}
  BY <1>1 DEF TypeOK, StartSharingVolume
<1>2. CASE ~(WithName(Leaf[p]) # {})
  <2>1. NewVolume(p, flag)
    BY <1>2 DEF StartSharingVolume
  <2>2. PICK a \in Address :
          /\ object' = [object EXCEPT ![a] =
               [path |-> p, id |-> gNextVolumeID, readOnly |-> flag, mOpenFiles |-> {}]]
          /\ volume_blist' = Append(volume_blist, a)
    BY <2>1 DEF NewVolume
  <2>3. [path |-> p, id |-> gNextVolumeID, readOnly |-> flag, mOpenFiles |-> {}] \in VolumeObject
    BY DEF TypeOK, VolumeObject
  <2>4. (gNextVolumeID + 1) % IDRange \in VolumeID
    BY IDAssumption DEF TypeOK, VolumeID
  <2>5. shares' \in 0 .. MaxShares
    BY <2>1, LimitAssumption DEF NewVolume, TypeOK
  <2>6. volume_blist' \in Seq(Address)
    BY <2>2, AppendRange DEF TypeOK
  <2> QED
    BY <2>1, <2>2, <2>3, <2>4, <2>5, <2>6 DEF NewVolume, TypeOK
<1> QED
  BY <1>1, <1>2

(* What the looper's states carry.                                         *)
LEMMA LooperFields ==
    ASSUME TypeOK
    PROVE  /\ looper.at = "shareall" => looper \in [at : {"shareall"}, todo : SUBSET Path]
           /\ looper.at \in {"update", "start"} =>
                  looper \in [at : {"update", "start"}, path : Path, flag : BOOLEAN, share : BOOLEAN]
           /\ looper.at = "forget" =>
                  looper \in [at : {"forget"}, path : Path, deleted : BOOLEAN]
<1>1. looper \in LooperStates
  BY DEF TypeOK
<1>2. CASE looper = Waiting
  BY <1>2 DEF Waiting
<1>3. CASE looper \in [at : {"shareall"}, todo : SUBSET Path]
  BY <1>3
<1>4. CASE looper \in [at : {"update", "start"}, path : Path, flag : BOOLEAN, share : BOOLEAN]
  BY <1>4
<1>5. CASE looper \in [at : {"forget"}, path : Path, deleted : BOOLEAN]
  BY <1>5
<1> QED
  BY <1>1, <1>2, <1>3, <1>4, <1>5 DEF LooperStates

(* Everything the server application's thread does.                        *)
LEMMA SessionsKeepType ==
    ASSUME TypeOK, UNCHANGED sessionVars, running' \in BOOLEAN,
           preferences' \in [DOMAIN preferences' -> BOOLEAN], DOMAIN preferences' \subseteq Path,
           looper' \in LooperStates, volume_blist' \in Seq(Address),
           object' \in [Address -> VolumeObject \cup {Freed}],
           gNextVolumeID' \in VolumeID, shares' \in 0 .. MaxShares
    PROVE  TypeOK'
BY DEF TypeOK, sessionVars

-----------------------------------------------------------------------------
(* The list and the preferences *)

LEMMA ListedIsAddress ==
    ASSUME TypeOK
    PROVE  Listed \subseteq Address /\ \A n \in DOMAIN volume_blist : volume_blist[n] \in Listed
<1>1. \A n \in DOMAIN volume_blist : volume_blist[n] \in Address
  BY DEF TypeOK
<1> QED
  BY <1>1 DEF Listed, Range

(* No volume is listed twice, and no path.                                 *)
LEMMA ListedOnce ==
    ASSUME TypeOK, SharedNamesAreUnique
    PROVE  /\ \A m, n \in DOMAIN volume_blist : m # n => volume_blist[m] # volume_blist[n]
           /\ \A a, b \in Listed : Name(a) = Name(b) => a = b
           /\ \A a, b \in Listed : object[a].path = object[b].path => a = b
<1>1. \A m, n \in DOMAIN volume_blist : m # n => volume_blist[m] # volume_blist[n]
  BY DEF SharedNamesAreUnique
<1>2. \A a, b \in Listed : Name(a) = Name(b) => a = b
  BY DEF SharedNamesAreUnique, Listed, Range
<1>3. \A a, b \in Listed : object[a].path = object[b].path => a = b
  BY <1>2 DEF Name
<1> QED
  BY <1>1, <1>2, <1>3

(* A search that only one listed volume matches finds that one.            *)
LEMMA FirstOfOne ==
    ASSUME TypeOK, SharedNamesAreUnique, NEW a \in Listed
    PROVE  First({a}) = {a}
<1>1. PICK n \in DOMAIN volume_blist : volume_blist[n] = a
  BY DEF Listed, Range
<1>2. n \in 1..Len(volume_blist) /\ Len(volume_blist) \in Nat /\ DOMAIN volume_blist = 1..Len(volume_blist)
  BY DEF TypeOK
<1>3. \A m \in 1 .. n - 1 : m \in DOMAIN volume_blist /\ m # n
  BY <1>2
<1>4. \A m \in 1 .. n - 1 : volume_blist[m] \notin {a}
  BY <1>1, <1>3, ListedOnce
<1> QED
  BY <1>1, <1>4 DEF First

LEMMA PathFound ==
    ASSUME TypeOK, SharedNamesAreUnique, NEW p
    PROVE  First(WithPath(p)) = WithPath(p)
<1>1. CASE WithPath(p) = {}
  BY <1>1 DEF First
<1>2. CASE WithPath(p) # {}
  <2>1. PICK a : a \in WithPath(p)
    BY <1>2
  <2>2. a \in Listed /\ WithPath(p) = {a}
    BY <2>1, ListedOnce DEF WithPath
  <2> QED
    BY <2>2, FirstOfOne
<1> QED
  BY <1>1, <1>2

(* A step that leaves the list alone and no volume's path and flag, or     *)
(* that ends the process.                                                  *)
LEMMA SameShares ==
    ASSUME ShareInv, TypeOK', UNCHANGED looperVars,
           \A a \in Listed : /\ Live(a)' /\ object'[a].path = object[a].path
                             /\ object'[a].readOnly = object[a].readOnly
    PROVE  ShareInv'
<1>1. Listed' = Listed /\ running' = running /\ preferences' = preferences /\ looper' = looper
      /\ volume_blist' = volume_blist
  BY DEF looperVars, Listed
<1>2. LooperOK'
  BY <1>1 DEF ShareInv, LooperOK
<1>3. ListedAreLive'
  BY <1>1 DEF ListedAreLive
<1>4. \A n \in DOMAIN volume_blist : Name(volume_blist[n])' = Name(volume_blist[n])
  BY <1>1, ListedIsAddress DEF ShareInv, Name
<1>5. SharedNamesAreUnique'
  BY <1>1, <1>4 DEF ShareInv, SharedNamesAreUnique
<1>6. SharedIsSaved'
  BY <1>1 DEF ShareInv, SharedIsSaved
<1> QED
  BY <1>2, <1>3, <1>5, <1>6 DEF ShareInv

LEMMA NothingShared ==
    ASSUME TypeOK', volume_blist' = <<>>, looper' = Waiting
    PROVE  ShareInv'
<1>1. Listed' = {} /\ DOMAIN volume_blist' = {}
  BY DEF Listed, Range
<1>2. LooperOK'
  BY <1>1 DEF LooperOK, Waiting
<1> QED
  BY <1>1, <1>2 DEF ShareInv, ListedAreLive, SharedNamesAreUnique, SharedIsSaved

(* Sharing a saved path keeps the list as it should be.                    *)
LEMMA SharingStep ==
    ASSUME ShareInv, NEW p \in Path, NEW flag \in BOOLEAN, StartSharingVolume(p, flag),
           p \in DOMAIN preferences, preferences[p] = flag, looper.at # "update",
           UNCHANGED preferences
    PROVE  ListedAreLive' /\ SharedNamesAreUnique' /\ SharedIsSaved'
<1>1. CASE WithName(Leaf[p]) # {}
  <2>1. UNCHANGED <<object, volume_blist>> /\ Listed' = Listed
    BY <1>1 DEF StartSharingVolume, Listed
  <2> QED
    BY <2>1 DEF ShareInv, ListedAreLive, Live, SharedNamesAreUnique, Name, SharedIsSaved
<1>2. CASE WithName(Leaf[p]) = {}
  <2> DEFINE v == [path |-> p, id |-> gNextVolumeID, readOnly |-> flag, mOpenFiles |-> {}]
  <2>1. PICK a \in Address :
          ~Live(a) /\ object' = [object EXCEPT ![a] = v] /\ volume_blist' = Append(volume_blist, a)
    BY <1>2 DEF StartSharingVolume, NewVolume
  <2>2. Listed' = Listed \cup {a}
    BY <2>1, AppendRange DEF Listed, ShareInv, TypeOK
  <2>3. a \notin Listed
    BY <2>1 DEF ShareInv, ListedAreLive
  <2>4. object'[a] = v /\ \A b \in Listed : object'[b] = object[b]
    BY <2>1, <2>3, ListedIsAddress DEF ShareInv, TypeOK
  <2>5. v \in VolumeObject
    BY DEF VolumeObject, ShareInv, TypeOK
  <2>6. ListedAreLive'
    BY <2>2, <2>4, <2>5, FreedIsNoVolume DEF ListedAreLive, Live, ShareInv
  <2>7. \A b \in Listed : Name(b)' = Name(b) /\ Name(b)' # Leaf[p]
    BY <1>2, <2>4 DEF WithName, Name
  <2>8. Name(a)' = Leaf[p]
    BY <2>4 DEF Name
  <2>9. SharedNamesAreUnique'
    <3> DEFINE N(x) == Leaf[object'[x].path]
    <3>1. /\ DOMAIN volume_blist' = DOMAIN volume_blist \cup {Len(volume_blist) + 1}
          /\ \A n \in DOMAIN volume_blist : volume_blist'[n] = volume_blist[n]
          /\ volume_blist'[Len(volume_blist) + 1] = a
      BY <2>1, AppendRange DEF ShareInv, TypeOK
    <3>2. \A n \in DOMAIN volume_blist : volume_blist[n] \in Listed
      BY ListedIsAddress DEF ShareInv
    <3>3. \A b \in Listed : N(b) = Name(b) /\ N(b) # N(a)
      BY <2>7, <2>8 DEF Name
    <3> HIDE DEF N
    <3>4. \A n \in DOMAIN volume_blist : /\ N(volume_blist'[n]) = Name(volume_blist[n])
                                        /\ N(volume_blist'[n]) # N(a)
      BY <3>1, <3>2, <3>3
    <3>5. \A m, n \in DOMAIN volume_blist' : m # n => N(volume_blist'[m]) # N(volume_blist'[n])
      BY <3>1, <3>4 DEF ShareInv, SharedNamesAreUnique
    <3> QED
      BY <3>5 DEF N, SharedNamesAreUnique, Name
  <2>10. SharedIsSaved'
    BY <2>2, <2>4 DEF ShareInv, SharedIsSaved
  <2> QED
    BY <2>6, <2>9, <2>10
<1> QED
  BY <1>1, <1>2

LEMMA ShareAllVolumesStep ==
    ASSUME ShareInv, ShareAllVolumes PROVE ShareInv'
<1>0. /\ UNCHANGED sessionVars /\ UNCHANGED <<running, preferences>> /\ running' \in BOOLEAN
      /\ preferences' \in [DOMAIN preferences' -> BOOLEAN] /\ DOMAIN preferences' \subseteq Path
      /\ looper.at = "shareall"
      /\ looper \in [at : {"shareall"}, todo : SUBSET Path]
      /\ looper.todo \subseteq DOMAIN preferences
      /\ running
  <2>1. looper.at = "shareall"
    BY DEF ShareAllVolumes
  <2>2. looper \in [at : {"shareall"}, todo : SUBSET Path]
    BY <2>1, LooperFields DEF ShareInv
  <2>3. looper # Waiting
    BY <2>1, <2>2 DEF Waiting
  <2>4. running
    BY <2>3, Zenon DEF ShareInv, LooperOK
  <2> QED
    BY <2>1, <2>2, <2>4 DEF ShareAllVolumes, ShareInv, TypeOK, LooperOK
<1>1. ASSUME NEW p \in looper.todo, StartSharingVolume(p, preferences[p]),
             looper' = [looper EXCEPT !.todo = @ \ {p}]
      PROVE  ShareInv'
  <2>1. looper' \in LooperStates /\ looper'.at = "shareall" /\ looper'.todo \subseteq looper.todo
    BY <1>0, <1>1 DEF LooperStates
  <2>2. p \in Path /\ p \in DOMAIN preferences /\ preferences[p] \in BOOLEAN
    BY <1>0 DEF ShareInv, TypeOK
  <2>3. TypeOK'
    BY <1>0, <1>1, <2>1, <2>2, SharingType, SessionsKeepType DEF ShareInv
  <2>4. ListedAreLive' /\ SharedNamesAreUnique' /\ SharedIsSaved'
    BY <1>0, <1>1, <2>2, SharingStep
  <2>5. LooperOK'
    BY <1>0, <2>1 DEF LooperOK
  <2> QED
    BY <2>3, <2>4, <2>5 DEF ShareInv
<1>2. CASE looper' = Waiting /\ UNCHANGED <<object, volume_blist, gNextVolumeID, shares>>
  <2>1. looper' \in LooperStates /\ LooperOK'
    BY <1>2 DEF LooperStates, LooperOK, Waiting
  <2>2. TypeOK'
    BY <1>0, <1>2, <2>1, SessionsKeepType DEF TypeOK, ShareInv
  <2>3. Listed' = Listed
    BY <1>2 DEF Listed
  <2>4. ListedAreLive' /\ SharedNamesAreUnique'
    BY <1>2, <2>3 DEF ShareInv, ListedAreLive, Live, SharedNamesAreUnique, Name
  <2>5. SharedIsSaved'
    BY <1>0, <1>2, <2>3 DEF ShareInv, SharedIsSaved
  <2> QED
    BY <2>1, <2>2, <2>4, <2>5 DEF ShareInv
<1> QED
  BY <1>1, <1>2 DEF ShareAllVolumes

(* CMD_AFP_ADDSHARE and CMD_AFP_SETVOLFLAGS write the preferences.         *)
LEMMA SaveStep ==
    ASSUME ShareInv, running, looper = Waiting, NEW p \in Path, NEW flag \in BOOLEAN,
           NEW share \in BOOLEAN, SaveVolumeData(p, flag, share)
    PROVE  ShareInv'
<1>1. /\ preferences' = With(p, flag)
      /\ looper' = [at |-> "update", path |-> p, flag |-> flag, share |-> share]
      /\ UNCHANGED <<running, volume_blist, object, gNextVolumeID, shares, sessionVars>>
  BY DEF SaveVolumeData
<1>2. /\ DOMAIN preferences' = DOMAIN preferences \cup {p} /\ preferences'[p] = flag
      /\ \A q \in DOMAIN preferences : q # p => preferences'[q] = preferences[q]
  BY <1>1 DEF With
<1>3. preferences' \in [DOMAIN preferences' -> BOOLEAN]
  BY <1>1, <1>2 DEF With, ShareInv, TypeOK
<1>4. looper' \in LooperStates
  BY <1>1 DEF LooperStates
<1>5. TypeOK'
  BY <1>1, <1>2, <1>3, <1>4, SessionsKeepType DEF ShareInv, TypeOK
<1>6. LooperOK'
  BY <1>1, <1>2 DEF LooperOK
<1>7. Listed' = Listed
  BY <1>1 DEF Listed
<1>8. ListedAreLive' /\ SharedNamesAreUnique'
  BY <1>1, <1>7 DEF ShareInv, ListedAreLive, Live, SharedNamesAreUnique, Name
<1>9. SharedIsSaved'
  BY <1>1, <1>2, <1>7 DEF ShareInv, SharedIsSaved, Waiting
<1> QED
  BY <1>5, <1>6, <1>8, <1>9 DEF ShareInv

(* The live volume of the path gets the flag that was saved.               *)
LEMMA UpdateStep ==
    ASSUME ShareInv, UpdateVolume PROVE ShareInv'
<1>0. /\ looper \in [at : {"update", "start"}, path : Path, flag : BOOLEAN, share : BOOLEAN]
      /\ looper.at = "update" /\ looper.path \in DOMAIN preferences
      /\ preferences[looper.path] = looper.flag
  BY LooperFields DEF ShareInv, LooperOK, UpdateVolume
<1>r. running
  <2>1. looper # Waiting
    BY <1>0 DEF Waiting
  <2> QED
    BY <2>1, Zenon DEF ShareInv, LooperOK
<1>1. UNCHANGED <<running, preferences, volume_blist, gNextVolumeID, shares, sessionVars>> /\ Listed' = Listed
  BY DEF UpdateVolume, Listed
<1>f. First(WithPath(looper.path)) = WithPath(looper.path)
  BY PathFound DEF ShareInv
<1>o. object' = [a \in Address |->
         IF a \in WithPath(looper.path) THEN [object[a] EXCEPT !.readOnly = looper.flag] ELSE object[a]]
  BY <1>f DEF UpdateVolume
<1>2. \A a \in Listed :
        /\ object[a].path = looper.path => object'[a] = [object[a] EXCEPT !.readOnly = looper.flag]
        /\ object[a].path # looper.path => object'[a] = object[a]
  BY <1>o, ListedIsAddress DEF ShareInv, WithPath
<1>3. \A a \in Address : a \notin Listed => object'[a] = object[a]
  BY <1>o DEF WithPath
<1>4. \A a \in Listed : object[a] \in VolumeObject
  BY ListedIsAddress, LiveType DEF ShareInv, ListedAreLive
<1>5. \A a \in Listed : /\ object'[a] \in VolumeObject /\ object'[a].path = object[a].path
                        /\ object[a].path = looper.path => object'[a].readOnly = looper.flag
  <2> TAKE a \in Listed
  <2>1. object[a] \in VolumeObject
    BY <1>4
  <2>2. looper.flag \in BOOLEAN
    BY <1>0
  <2>3. [object[a] EXCEPT !.readOnly = looper.flag] \in VolumeObject
    BY <2>1, <2>2 DEF VolumeObject
  <2>4. /\ [object[a] EXCEPT !.readOnly = looper.flag].path = object[a].path
        /\ [object[a] EXCEPT !.readOnly = looper.flag].readOnly = looper.flag
    BY <2>1 DEF VolumeObject
  <2> QED
    BY <1>2, <2>1, <2>3, <2>4
<1>6. object' \in [Address -> VolumeObject \cup {Freed}]
  <2>1. object' = [a \in Address |-> object'[a]]
    BY DEF UpdateVolume
  <2>2. \A a \in Address : object'[a] \in VolumeObject \cup {Freed}
    BY <1>3, <1>5 DEF ShareInv, TypeOK
  <2> QED
    BY <2>1, <2>2
<1>7. looper' = Waiting \/ (/\ looper' \in [at : {"update", "start"}, path : Path, flag : BOOLEAN, share : BOOLEAN]
                          /\ looper'.path = looper.path /\ looper'.flag = looper.flag
                          /\ looper'.at = "start")
  BY <1>0 DEF UpdateVolume
<1>8. looper' \in LooperStates
  BY <1>7 DEF LooperStates
<1>9. TypeOK'
  BY <1>1, <1>6, <1>8, SessionsKeepType DEF ShareInv, TypeOK
<1>10. LooperOK'
  <2>1. CASE looper' = Waiting
    BY <2>1 DEF LooperOK, Waiting
  <2>2. CASE looper'.path = looper.path /\ looper'.flag = looper.flag /\ looper'.at = "start"
    BY <1>0, <1>r, <1>1, <2>2 DEF LooperOK
  <2> QED
    BY <1>7, <2>1, <2>2
<1>11. ListedAreLive'
  BY <1>1, <1>5, FreedIsNoVolume DEF ListedAreLive, Live
<1>12. \A n \in DOMAIN volume_blist : Name(volume_blist[n])' = Name(volume_blist[n])
  BY <1>1, <1>5, ListedIsAddress DEF Name, ShareInv
<1>13. SharedNamesAreUnique'
  BY <1>1, <1>12 DEF ShareInv, SharedNamesAreUnique
<1>14. SharedIsSaved'
  BY <1>0, <1>1, <1>2, <1>5 DEF ShareInv, SharedIsSaved
<1> QED
  BY <1>9, <1>10, <1>11, <1>13, <1>14 DEF ShareInv

LEMMA AddShareStartStep ==
    ASSUME ShareInv, AddShare_Start PROVE ShareInv'
<1>0. /\ looper \in [at : {"update", "start"}, path : Path, flag : BOOLEAN, share : BOOLEAN]
      /\ looper.at = "start" /\ looper.path \in DOMAIN preferences
      /\ preferences[looper.path] = looper.flag
  BY LooperFields DEF ShareInv, LooperOK, AddShare_Start
<1>1. UNCHANGED <<running, preferences, sessionVars>> /\ looper' = Waiting
      /\ StartSharingVolume(looper.path, looper.flag)
  BY DEF AddShare_Start
<1>2. looper.path \in Path /\ looper.flag \in BOOLEAN
  BY <1>0
<1>3. looper' \in LooperStates /\ LooperOK'
  BY <1>1 DEF LooperStates, LooperOK, Waiting
<1>4. TypeOK'
  BY <1>1, <1>2, <1>3, SharingType, SessionsKeepType DEF ShareInv, TypeOK
<1>5. ListedAreLive' /\ SharedNamesAreUnique' /\ SharedIsSaved'
  BY <1>0, <1>1, <1>2, SharingStep
<1> QED
  BY <1>3, <1>4, <1>5 DEF ShareInv

(* What is left of the list when a volume is deleted.                      *)
LEMMA StopSharingStep ==
    ASSUME ShareInv, running, looper = Waiting, NEW n \in DOMAIN volume_blist, StopSharingVolume(n),
           UNCHANGED <<running, preferences, gNextVolumeID, shares, sessionVars>>,
           NEW deleted \in BOOLEAN,
           looper' = [at |-> "forget", path |-> object[volume_blist[n]].path, deleted |-> deleted]
    PROVE  ShareInv'
<1> DEFINE a == volume_blist[n]
<1>1. /\ volume_blist \in Seq(Address) /\ a \in Listed /\ a \in Address
      /\ object[a] \in VolumeObject
  BY ListedIsAddress, LiveType DEF ShareInv, ListedAreLive, TypeOK
<1>2. volume_blist' = RemoveAt(volume_blist, n) /\ object' = [object EXCEPT ![a] = Freed]
  BY DEF StopSharingVolume
<1>3. \A j, k \in DOMAIN volume_blist : j # k => volume_blist[j] # volume_blist[k]
  BY ListedOnce DEF ShareInv
<1>4. Listed' \subseteq Listed /\ a \notin Listed'
  BY <1>1, <1>2, <1>3, RemoveAtRange DEF Listed
<1>5. \A b \in Listed' : object'[b] = object[b]
  BY <1>1, <1>2, <1>4, ListedIsAddress DEF ShareInv, TypeOK
<1>6. object[a].path \in Path
  BY <1>1 DEF VolumeObject
<1>7. looper' \in LooperStates
  BY <1>6 DEF LooperStates
<1>8. object' \in [Address -> VolumeObject \cup {Freed}] /\ volume_blist' \in Seq(Address)
  BY <1>1, <1>2, RemoveAtType DEF ShareInv, TypeOK
<1>9. TypeOK'
  BY <1>7, <1>8, SessionsKeepType DEF ShareInv, TypeOK
<1>10. \A b \in Listed' : object'[b].path # object[a].path
  BY <1>1, <1>4, <1>5, ListedOnce DEF ShareInv
<1>11. LooperOK'
  BY <1>10 DEF LooperOK
<1>12. ListedAreLive'
  BY <1>4, <1>5 DEF ShareInv, ListedAreLive, Live
<1>13. \A j, k \in DOMAIN volume_blist' : j # k => volume_blist'[j] # volume_blist'[k]
  BY <1>1, <1>2, <1>3, RemoveAtRange
<1>14. SharedNamesAreUnique'
  <2>1. \A j \in DOMAIN volume_blist' : volume_blist'[j] \in Listed'
    BY DEF Listed, Range
  <2>2. \A b, c \in Listed' : b # c => Leaf[object'[b].path] # Leaf[object'[c].path]
    BY <1>4, <1>5, ListedOnce DEF ShareInv, Name
  <2> QED
    BY <1>13, <2>1, <2>2 DEF SharedNamesAreUnique, Name
<1>15. SharedIsSaved'
  BY <1>4, <1>5 DEF ShareInv, SharedIsSaved, Waiting
<1> QED
  BY <1>9, <1>11, <1>12, <1>14, <1>15 DEF ShareInv

LEMMA RemoveVolumeDataStep ==
    ASSUME ShareInv, RemoveVolumeData PROVE ShareInv'
<1>0. /\ looper \in [at : {"forget"}, path : Path, deleted : BOOLEAN]
      /\ \A a \in Listed : object[a].path # looper.path
      /\ looper.at = "forget"
  BY LooperFields DEF ShareInv, LooperOK, RemoveVolumeData
<1>1. UNCHANGED <<running, volume_blist, object, gNextVolumeID, shares, sessionVars>> /\ looper' = Waiting
      /\ Listed' = Listed
  BY DEF RemoveVolumeData, Listed
<1>2. /\ preferences' \in [DOMAIN preferences' -> BOOLEAN] /\ DOMAIN preferences' \subseteq DOMAIN preferences
      /\ \A p \in DOMAIN preferences : p # looper.path =>
             p \in DOMAIN preferences' /\ preferences'[p] = preferences[p]
  BY DEF RemoveVolumeData, Without, ShareInv, TypeOK
<1>3. looper' \in LooperStates /\ LooperOK'
  BY <1>1 DEF LooperStates, LooperOK, Waiting
<1>4. TypeOK'
  BY <1>1, <1>2, <1>3, SessionsKeepType DEF ShareInv, TypeOK
<1>5. ListedAreLive' /\ SharedNamesAreUnique'
  BY <1>1 DEF ShareInv, ListedAreLive, Live, SharedNamesAreUnique, Name
<1>6. SharedIsSaved'
  BY <1>0, <1>1, <1>2 DEF ShareInv, SharedIsSaved
<1> QED
  BY <1>3, <1>4, <1>5, <1>6 DEF ShareInv

LEMMA ApplicationStep ==
    ASSUME ShareInv, Application PROVE ShareInv'
<1>1. ASSUME NEW p \in Path, RemoveShare(p) PROVE ShareInv'
  <2>1. PICK n \in DOMAIN volume_blist :
          volume_blist[n] \in First(WithPath(p)) /\ StopSharingVolume(n)
    BY <1>1 DEF RemoveShare
  <2>2. object[volume_blist[n]].path = p
    BY <2>1 DEF First, WithPath
  <2> QED
    BY <1>1, <2>1, <2>2, StopSharingStep DEF RemoveShare
<1>2. ASSUME NEW n \in DOMAIN volume_blist, NodeMonitor(n) PROVE ShareInv'
  BY <1>2, StopSharingStep DEF NodeMonitor
<1>3. ASSUME NEW p \in Path, NEW flag \in BOOLEAN, AddShare(p, flag) \/ SetVolFlags(p, flag)
      PROVE  ShareInv'
  BY <1>3, SaveStep DEF AddShare, SetVolFlags
<1> QED
  BY <1>1, <1>2, <1>3, ShareAllVolumesStep, UpdateStep, AddShareStartStep, RemoveVolumeDataStep
     DEF Application

LEMMA StartStep ==
    ASSUME ShareInv, Start PROVE ShareInv'
<1>1. /\ ~running /\ running' = TRUE /\ looper' = [at |-> "shareall", todo |-> DOMAIN preferences]
      /\ UNCHANGED <<preferences, volume_blist, object, gNextVolumeID, shares, sessionVars>>
      /\ Listed' = Listed
  BY DEF Start, Listed
<1>2. looper' \in LooperStates
  BY <1>1 DEF LooperStates, ShareInv, TypeOK
<1>3. running' \in BOOLEAN
  BY <1>1
<1>4. TypeOK'
  BY <1>1, <1>2, <1>3, SessionsKeepType DEF ShareInv, TypeOK
<1>5. LooperOK'
  BY <1>1 DEF LooperOK
<1>6. ListedAreLive' /\ SharedNamesAreUnique'
  BY <1>1 DEF ShareInv, ListedAreLive, Live, SharedNamesAreUnique, Name
<1>7. looper = Waiting
  BY <1>1, Zenon DEF ShareInv, LooperOK
<1>8. SharedIsSaved'
  BY <1>1, <1>7 DEF ShareInv, SharedIsSaved, Waiting
<1> QED
  BY <1>4, <1>5, <1>6, <1>8 DEF ShareInv

-----------------------------------------------------------------------------
(* The requests of the sessions *)

(* What the requests carry.                                                *)
LEMMA RequestFields ==
    ASSUME TypeOK, NEW s \in Session
    PROVE  /\ request[s].op = "openvol" => request[s].volume \in Address
           /\ request[s].op \in {"closevol", "openfork"} =>
                  request[s].volume \in Address /\ request[s].id \in VolumeID
           /\ request[s].op \in {"closefile", "freefile"} =>
                  request[s] \in [op : {"closefile", "freefile"}, fork : Fork, ends : BOOLEAN]
<1>1. request[s] \in Requests
  BY DEF TypeOK
<1>2. CASE request[s] = Idle
  BY <1>2 DEF Idle
<1>3. CASE request[s] \in [op : {"openvol"}, volume : Address]
  BY <1>3
<1>4. CASE request[s] \in [op : {"closevol", "openfork"}, volume : Address, id : VolumeID]
  BY <1>4
<1>5. CASE request[s] \in [op : {"closefile", "freefile"}, fork : Fork, ends : BOOLEAN]
  BY <1>5
<1>6. CASE request[s] \in [op : {"end"}]
  BY <1>6
<1> QED
  BY <1>1, <1>2, <1>3, <1>4, <1>5, <1>6 DEF Requests

LEMMA LooperKeepsType ==
    ASSUME TypeOK, UNCHANGED looperVars, object' \in [Address -> VolumeObject \cup {Freed}],
           request' \in [Session -> Requests],
           mOpenVolumes' \in [Session -> Seq(Address)],
           \A s \in Session : Len(mOpenVolumes'[s]) <= MaxOpenVolumes,
           mOpenFiles' \in [Session -> SUBSET Fork], told' \in [Session -> SUBSET VolumeID]
    PROVE  TypeOK'
BY DEF TypeOK, looperVars

(* The volume is told of a file opened or closed: nothing else about it    *)
(* changes, and nothing about the others.                                  *)
LEMMA WithOpenFilesStep ==
    ASSUME TypeOK, NEW a \in Address, NEW files, Live(a) => files \in SUBSET Fork,
           WithOpenFiles(a, files)
    PROVE  /\ object' \in [Address -> VolumeObject \cup {Freed}]
           /\ \A b \in Address : Live(b)' <=> Live(b)
           /\ \A b \in Address : Live(b) =>
                  /\ object'[b].path = object[b].path
                  /\ object'[b].id = object[b].id
                  /\ object'[b].readOnly = object[b].readOnly
                  /\ object'[b].mOpenFiles = IF b = a THEN files ELSE object[b].mOpenFiles
<1>1. CASE ~Live(a)
  BY <1>1 DEF WithOpenFiles, Live, TypeOK
<1>2. CASE Live(a)
  <2> DEFINE v == [object[a] EXCEPT !.mOpenFiles = files]
  <2>1. object' = [object EXCEPT ![a] = v]
    BY <1>2 DEF WithOpenFiles
  <2>2. object[a] \in VolumeObject
    BY <1>2, LiveType
  <2>3. /\ v \in VolumeObject /\ v.path = object[a].path /\ v.id = object[a].id
        /\ v.readOnly = object[a].readOnly /\ v.mOpenFiles = files
    BY <1>2, <2>2 DEF VolumeObject
  <2> HIDE DEF v
  <2>4. object' \in [Address -> VolumeObject \cup {Freed}]
    BY <2>1, <2>3 DEF TypeOK
  <2>5. object'[a] = v /\ \A b \in Address : b # a => object'[b] = object[b]
    BY <2>1 DEF TypeOK
  <2>6. \A b \in Address : Live(b)' <=> Live(b)
    BY <1>2, <2>3, <2>5, FreedIsNoVolume DEF Live
  <2> QED
    BY <2>3, <2>4, <2>5, <2>6
<1> QED
  BY <1>1, <1>2

(* What every step of a session leaves true of the list.                   *)
LEMMA SessionShares ==
    ASSUME ShareInv, TypeOK', UNCHANGED looperVars,
           \A b \in Address : Live(b)' <=> Live(b),
           \A b \in Address : Live(b) => /\ object'[b].path = object[b].path
                                        /\ object'[b].readOnly = object[b].readOnly
    PROVE  ShareInv'
BY SameShares, ListedIsAddress DEF ShareInv, ListedAreLive

(* A session's new request.                                                *)
LEMMA NewRequestType ==
    ASSUME TypeOK, NEW s \in Session, NEW r \in Requests, request' = [request EXCEPT ![s] = r]
    PROVE  request' \in [Session -> Requests]
BY DEF TypeOK

LEMMA RequestForms ==
    /\ Idle \in Requests
    /\ [op |-> "end"] \in Requests
    /\ \A a \in Address : [op |-> "openvol", volume |-> a] \in Requests
    /\ \A a \in Address, id \in VolumeID :
           /\ [op |-> "closevol", volume |-> a, id |-> id] \in Requests
           /\ [op |-> "openfork", volume |-> a, id |-> id] \in Requests
    /\ \A f \in Fork, b \in BOOLEAN :
           /\ [op |-> "closefile", fork |-> f, ends |-> b] \in Requests
           /\ [op |-> "freefile", fork |-> f, ends |-> b] \in Requests
BY DEF Requests

(* A step that changes only what a session is doing, to a request that is  *)
(* not for a file, or for closing one that it has open.                    *)
LEMMA RequestStep ==
    ASSUME FileInv, NEW s \in Session, NEW r \in Requests, request' = [request EXCEPT ![s] = r],
           UNCHANGED <<looperVars, object, mOpenFiles>>,
           mOpenVolumes' \in [Session -> Seq(Address)],
           \A t \in Session : Len(mOpenVolumes'[t]) <= MaxOpenVolumes,
           told' \in [Session -> SUBSET VolumeID],
           r.op # "freefile",
           r.op = "closefile" => r.fork \in mOpenFiles[s]
    PROVE  FileInv'
<1>1. TypeOK'
  BY LooperKeepsType, NewRequestType DEF FileInv, ShareInv, TypeOK
<1>2. ShareInv'
  BY <1>1, SessionShares DEF FileInv, Live
<1>3. request'[s] = r /\ \A t \in Session : t # s => request'[t] = request[t]
  BY DEF FileInv, ShareInv, TypeOK
<1>4. FilesOK'
  BY <1>3 DEF FileInv, FilesOK, Live
<1>5. ListedFilesAreOpen'
  BY DEF FileInv, ListedFilesAreOpen, Live
<1> QED
  BY <1>2, <1>4, <1>5 DEF FileInv

LEMMA StoppedFiles ==
    ASSUME FileInv, Stopped PROVE FileInv'
<1>1. TypeOK'
  BY StoppedType DEF FileInv, ShareInv
<1>2. ShareInv'
  BY <1>1, NothingShared DEF Stopped
<1>3. \A a \in Address : ~Live(a)'
  BY DEF Stopped, Live
<1>4. \A s \in Session : mOpenFiles'[s] = {} /\ request'[s] = Idle
  BY DEF Stopped
<1>5. FilesOK'
  BY <1>3, <1>4 DEF FilesOK, Idle
<1>6. ListedFilesAreOpen'
  BY <1>3 DEF ListedFilesAreOpen
<1> QED
  BY <1>2, <1>5, <1>6 DEF FileInv

(* A request is taken up: Ask.                                             *)
LEMMA AskStep ==
    ASSUME FileInv, NEW s \in Session, NEW r \in Requests, Ask(s, r),
           r.op # "freefile", r.op = "closefile" => r.fork \in mOpenFiles[s]
    PROVE  FileInv'
BY RequestStep DEF Ask, FileInv, ShareInv, TypeOK

LEMMA ClientRequestStep ==
    ASSUME FileInv, NEW s \in Session, ClientRequest(s) PROVE FileInv'
<1>0. TypeOK /\ Listed \subseteq Address
  BY ListedIsAddress DEF FileInv, ShareInv
<1>1. ASSUME NEW name, FPOpenVol(s, name) PROVE FileInv'
  <2>1. PICK a \in FindVolumeByName(name) : Ask(s, [op |-> "openvol", volume |-> a])
    BY <1>1 DEF FPOpenVol
  <2>2. a \in Address
    BY <1>0 DEF FindVolumeByName, First, WithName
  <2> QED
    BY <2>1, <2>2, AskStep, RequestForms
<1>2. ASSUME NEW id \in VolumeID, FPCloseVol(s, id) PROVE FileInv'
  <2>1. PICK a \in FindVolumeByID(id) : Ask(s, [op |-> "closevol", volume |-> a, id |-> id])
    BY <1>2 DEF FPCloseVol
  <2>2. a \in Address
    BY <1>0 DEF FindVolumeByID, First, WithID
  <2> QED
    BY <2>1, <2>2, AskStep, RequestForms
<1>3. ASSUME NEW id \in VolumeID, FPOpenFork(s, id) PROVE FileInv'
  <2>1. PICK a \in FindVolumeByID(id) : Ask(s, [op |-> "openfork", volume |-> a, id |-> id])
    BY <1>3 DEF FPOpenFork
  <2>2. a \in Address
    BY <1>0 DEF FindVolumeByID, First, WithID
  <2> QED
    BY <2>1, <2>2, AskStep, RequestForms
<1>4. ASSUME NEW f \in mOpenFiles[s], FPCloseFork(s, f) PROVE FileInv'
  <2>1. f \in Fork
    BY <1>0 DEF TypeOK
  <2> QED
    BY <1>4, <2>1, AskStep, RequestForms DEF FPCloseFork
<1>5. CASE EndSession(s)
  <2>1. /\ mOpenVolumes' \in [Session -> Seq(Address)] /\ told' \in [Session -> SUBSET VolumeID]
        /\ \A t \in Session : Len(mOpenVolumes'[t]) <= MaxOpenVolumes
    <3>1. mOpenVolumes' = [mOpenVolumes EXCEPT ![s] = <<>>] /\ told' = [told EXCEPT ![s] = {}]
      BY <1>5 DEF EndSession
    <3>2. <<>> \in Seq(Address) /\ Len(<<>>) = 0 /\ 0 <= MaxOpenVolumes
      BY LimitAssumption
    <3> QED
      BY <1>0, <3>1, <3>2 DEF TypeOK
  <2>2. request' = [request EXCEPT ![s] = [op |-> "end"]] /\ UNCHANGED <<looperVars, object, mOpenFiles>>
    BY <1>5 DEF EndSession
  <2> QED
    BY <2>1, <2>2, RequestStep, RequestForms
<1> QED
  BY <1>1, <1>2, <1>3, <1>4, <1>5 DEF ClientRequest

(* A session answers, and nothing of the files has changed.                *)
LEMMA AnswerStep ==
    ASSUME FileInv, NEW s \in Session, Answer(s), UNCHANGED <<looperVars, object, mOpenFiles>>,
           mOpenVolumes' \in [Session -> Seq(Address)],
           \A t \in Session : Len(mOpenVolumes'[t]) <= MaxOpenVolumes,
           told' \in [Session -> SUBSET VolumeID]
    PROVE  FileInv'
BY RequestStep, RequestForms DEF Answer, Idle

LEMMA OpenVolStep ==
    ASSUME FileInv, NEW s \in Session, OpenVol_Open(s) PROVE FileInv'
<1> DEFINE a == request[s].volume
<1>0. TypeOK /\ a \in Address
  BY RequestFields DEF FileInv, ShareInv, OpenVol_Open
<1>1. CASE Stopped
  BY <1>1, StoppedFiles
<1>2. CASE /\ VolumeOpened(s, a)
           /\ told' = IF Live(a) THEN [told EXCEPT ![s] = @ \cup {object[a].id}] ELSE told
           /\ Answer(s) /\ UNCHANGED <<looperVars, object, mOpenFiles>>
  <2>1. /\ mOpenVolumes' = [mOpenVolumes EXCEPT ![s] = Append(@, a)]
        /\ Len(mOpenVolumes[s]) < MaxOpenVolumes
    BY <1>2 DEF VolumeOpened
  <2>2. /\ mOpenVolumes[s] \in Seq(Address) /\ Append(mOpenVolumes[s], a) \in Seq(Address)
        /\ Len(Append(mOpenVolumes[s], a)) <= MaxOpenVolumes
    BY <1>0, <2>1, LimitAssumption, AppendRange DEF TypeOK
  <2>3. mOpenVolumes' \in [Session -> Seq(Address)] /\ \A t \in Session : Len(mOpenVolumes'[t]) <= MaxOpenVolumes
    BY <1>0, <2>1, <2>2 DEF TypeOK
  <2>4. Live(a) => object[a].id \in VolumeID
    BY <1>0, LiveType DEF VolumeObject
  <2>5. told' \in [Session -> SUBSET VolumeID]
    BY <1>0, <1>2, <2>4 DEF TypeOK
  <2> QED
    BY <1>2, <2>3, <2>5, AnswerStep
<1>3. CASE Answer(s) /\ UNCHANGED <<looperVars, object, mOpenFiles, mOpenVolumes, told>>
  BY <1>0, <1>3, AnswerStep DEF TypeOK
<1> QED
  BY <1>1, <1>2, <1>3 DEF OpenVol_Open, Used

LEMMA CloseVolStep ==
    ASSUME FileInv, NEW s \in Session, CloseVol_Close(s) PROVE FileInv'
<1> DEFINE a == request[s].volume
<1>0. TypeOK
  BY DEF FileInv, ShareInv
<1>1. CASE Stopped
  BY <1>1, StoppedFiles
<1>2. CASE /\ VolumeClosed(s, a) /\ told' = [told EXCEPT ![s] = @ \ {request[s].id}]
           /\ Answer(s) /\ UNCHANGED <<looperVars, object, mOpenFiles>>
  <2>1. PICK n \in DOMAIN mOpenVolumes[s] : mOpenVolumes' = [mOpenVolumes EXCEPT ![s] = RemoveAt(@, n)]
    BY <1>2 DEF VolumeClosed
  <2>2. mOpenVolumes[s] \in Seq(Address) /\ Len(mOpenVolumes[s]) <= MaxOpenVolumes
    BY <1>0 DEF TypeOK
  <2>3. RemoveAt(mOpenVolumes[s], n) \in Seq(Address) /\ Len(RemoveAt(mOpenVolumes[s], n)) = Len(mOpenVolumes[s]) - 1
    BY <2>2, RemoveAtType
  <2>4. Len(mOpenVolumes[s]) - 1 <= MaxOpenVolumes
    BY <2>2, LimitAssumption
  <2>5. mOpenVolumes' \in [Session -> Seq(Address)] /\ \A t \in Session : Len(mOpenVolumes'[t]) <= MaxOpenVolumes
    BY <1>0, <2>1, <2>3, <2>4 DEF TypeOK
  <2>6. told' \in [Session -> SUBSET VolumeID]
    BY <1>0, <1>2 DEF TypeOK
  <2> QED
    BY <1>2, <2>5, <2>6, AnswerStep
<1>3. CASE Answer(s) /\ UNCHANGED <<looperVars, object, mOpenFiles, mOpenVolumes, told>>
  BY <1>0, <1>3, AnswerStep DEF TypeOK
<1> QED
  BY <1>1, <1>2, <1>3 DEF CloseVol_Close, Used

(* A file is opened, and the volume is told of it.                         *)
LEMMA OpenFileStep ==
    ASSUME FileInv, NEW s \in Session, NEW f \in Fork, f.session = s, OpenFile(s, f), Answer(s),
           UNCHANGED <<looperVars, mOpenVolumes, told>>
    PROVE  FileInv'
<1> DEFINE a == f.volume
<1>0. TypeOK /\ a \in Address
  BY DEF FileInv, ShareInv, Fork
<1>1. /\ mOpenFiles' = [mOpenFiles EXCEPT ![s] = @ \cup {f}]
      /\ WithOpenFiles(a, object[a].mOpenFiles \cup {f})
      /\ request' = [request EXCEPT ![s] = Idle]
  BY DEF OpenFile, Answer
<1>2. Live(a) => object[a].mOpenFiles \cup {f} \in SUBSET Fork
  BY <1>0, LiveType DEF VolumeObject
<1>3. /\ object' \in [Address -> VolumeObject \cup {Freed}]
      /\ \A b \in Address : Live(b)' <=> Live(b)
      /\ \A b \in Address : Live(b) =>
             /\ object'[b].path = object[b].path
             /\ object'[b].id = object[b].id
             /\ object'[b].readOnly = object[b].readOnly
             /\ object'[b].mOpenFiles = IF b = a THEN object[a].mOpenFiles \cup {f} ELSE object[b].mOpenFiles
  BY <1>0, <1>1, <1>2, WithOpenFilesStep
<1>4. /\ mOpenFiles' \in [Session -> SUBSET Fork] /\ mOpenFiles'[s] = mOpenFiles[s] \cup {f}
      /\ \A t \in Session : t # s => mOpenFiles'[t] = mOpenFiles[t]
  BY <1>0, <1>1 DEF TypeOK
<1>5. /\ request' \in [Session -> Requests] /\ request'[s] = Idle
      /\ \A t \in Session : t # s => request'[t] = request[t]
  BY <1>0, <1>1, RequestForms DEF TypeOK
<1>6. TypeOK'
  BY <1>0, <1>3, <1>4, <1>5, LooperKeepsType DEF TypeOK
<1>7. ShareInv'
  BY <1>3, <1>6, SessionShares DEF FileInv
<1>8. Idle.op = "idle"
  BY DEF Idle
<1>9. \A b \in Address : Live(b)' => \A g \in object'[b].mOpenFiles :
         (g = f /\ b = a) \/ (Live(b) /\ g \in object[b].mOpenFiles)
  <2> SUFFICES ASSUME NEW b \in Address, Live(b)', NEW g \in object'[b].mOpenFiles
               PROVE  (g = f /\ b = a) \/ (Live(b) /\ g \in object[b].mOpenFiles)
    OBVIOUS
  <2>1. Live(b)
    BY <1>3
  <2>2. CASE b = a
    <3>1. object'[b].mOpenFiles = object[a].mOpenFiles \cup {f}
      BY <1>3, <2>1, <2>2
    <3>2. object[a] = object[b]
      BY <2>2
    <3>3. g \in object[b].mOpenFiles \/ g = f
      BY <3>1, <3>2
    <3> QED
      BY <2>1, <2>2, <3>3
  <2>3. CASE b # a
    BY <1>3, <2>1, <2>3
  <2> QED
    BY <2>2, <2>3
<1>10. FilesOK'
  <2>1. \A t \in Session : \A g \in mOpenFiles'[t] : g.session = t
    BY <1>4 DEF FileInv, FilesOK
  <2>2. \A t \in Session :
           request'[t].op \in {"closefile", "freefile"} => request'[t].fork \in mOpenFiles'[t]
    BY <1>4, <1>5, <1>8 DEF FileInv, FilesOK
  <2>3. \A b \in Address : Live(b)' => \A g \in object'[b].mOpenFiles : g.volume = b
    BY <1>9 DEF FileInv, FilesOK
  <2>4. ASSUME NEW t \in Session, request'[t].op = "freefile", NEW b \in Address, Live(b)'
        PROVE  request'[t].fork \notin object'[b].mOpenFiles
    <3>1. t # s /\ request'[t] = request[t]
      BY <1>5, <1>8, <2>4
    <3>2. request[t].fork \in mOpenFiles[t] /\ request[t].fork.session = t
      BY <2>4, <3>1 DEF FileInv, FilesOK
    <3>3. request[t].fork # f
      BY <3>1, <3>2
    <3> QED
      BY <1>9, <2>4, <3>1, <3>3 DEF FileInv, FilesOK
  <2> QED
    BY <2>1, <2>2, <2>3, <2>4 DEF FilesOK
<1>11. ListedFilesAreOpen'
  <2>1. \A t \in Session : mOpenFiles[t] \subseteq mOpenFiles'[t]
    BY <1>4
  <2>2. ASSUME NEW b \in Address, Live(b)', NEW g \in object'[b].mOpenFiles
        PROVE  g \in mOpenFiles'[g.session]
    <3>1. CASE g = f
      BY <1>4, <3>1
    <3>2. CASE Live(b) /\ g \in object[b].mOpenFiles
      <4>1. g \in mOpenFiles[g.session]
        BY <3>2 DEF FileInv, ListedFilesAreOpen
      <4>2. g.session \in Session
        BY <1>0, <3>2, LiveType DEF VolumeObject, Fork
      <4> QED
        BY <2>1, <4>1, <4>2
    <3> QED
      BY <1>9, <2>2, <3>1, <3>2
  <2> QED
    BY <2>2 DEF ListedFilesAreOpen
<1> QED
  BY <1>7, <1>10, <1>11 DEF FileInv

LEMMA OpenForkStep ==
    ASSUME FileInv, NEW s \in Session, OpenFork_Open(s) PROVE FileInv'
<1>1. CASE Stopped
  BY <1>1, StoppedFiles
<1>2. ASSUME NEW f \in Fork, f.session = s, OpenFile(s, f), Answer(s),
             UNCHANGED <<looperVars, mOpenVolumes, told>>
      PROVE  FileInv'
  BY <1>2, OpenFileStep
<1>3. CASE Answer(s) /\ UNCHANGED <<looperVars, object, mOpenFiles, mOpenVolumes, told>>
  BY <1>3, AnswerStep DEF TypeOK, FileInv, ShareInv
<1> QED
  BY <1>1, <1>2, <1>3 DEF OpenFork_Open, Used

(* The volume forgets the file.                                            *)
LEMMA RemoveFileStep ==
    ASSUME FileInv, NEW s \in Session, CloseFile_Remove(s) PROVE FileInv'
<1> DEFINE f == request[s].fork
           a == f.volume
<1>1. CASE Stopped
  BY <1>1, StoppedFiles
<1>2. CASE /\ WithOpenFiles(a, object[a].mOpenFiles \ {f})
           /\ request' = [request EXCEPT ![s].op = "freefile"]
           /\ UNCHANGED <<mOpenVolumes, mOpenFiles, told>> /\ UNCHANGED looperVars
  <2>0. /\ TypeOK /\ request[s].op = "closefile"
        /\ request[s] \in [op : {"closefile", "freefile"}, fork : Fork, ends : BOOLEAN]
        /\ f \in mOpenFiles[s]
    BY RequestFields DEF FileInv, ShareInv, FilesOK, CloseFile_Remove
  <2>1. f \in Fork /\ a \in Address
    BY <2>0 DEF Fork
  <2>2. Live(a) => object[a].mOpenFiles \ {f} \in SUBSET Fork
    BY <2>0, <2>1, LiveType DEF VolumeObject
  <2>3. /\ object' \in [Address -> VolumeObject \cup {Freed}]
        /\ \A b \in Address : Live(b)' <=> Live(b)
        /\ \A b \in Address : Live(b) =>
               /\ object'[b].path = object[b].path
               /\ object'[b].id = object[b].id
               /\ object'[b].readOnly = object[b].readOnly
               /\ object'[b].mOpenFiles = IF b = a THEN object[a].mOpenFiles \ {f} ELSE object[b].mOpenFiles
    BY <1>2, <2>0, <2>1, <2>2, WithOpenFilesStep
  <2>4. /\ request'[s] = [request[s] EXCEPT !.op = "freefile"]
        /\ \A t \in Session : t # s => request'[t] = request[t]
    BY <1>2, <2>0 DEF TypeOK
  <2>5. [request[s] EXCEPT !.op = "freefile"] \in Requests /\ request'[s].fork = f
    BY <2>0, <2>4 DEF Requests
  <2>6. request' \in [Session -> Requests]
    BY <1>2, <2>0, <2>5 DEF TypeOK
  <2>7. TypeOK'
    BY <1>2, <2>0, <2>3, <2>6, LooperKeepsType DEF TypeOK
  <2>8. ShareInv'
    BY <1>2, <2>3, <2>7, SessionShares DEF FileInv
  <2>9. \A b \in Address : Live(b)' =>
          Live(b) /\ object'[b].mOpenFiles \subseteq object[b].mOpenFiles
    BY <2>3
  <2>10. FilesOK'
    <3>1. \A t \in Session :
             request'[t].op \in {"closefile", "freefile"} => request'[t].fork \in mOpenFiles'[t]
      BY <1>2, <2>0, <2>4, <2>5 DEF FileInv, FilesOK
    <3>2. \A b \in Address : Live(b)' => f \notin object'[b].mOpenFiles
      BY <2>3 DEF FileInv, FilesOK
    <3>3. \A t \in Session : request'[t].op = "freefile" =>
             \A b \in Address : Live(b)' => request'[t].fork \notin object'[b].mOpenFiles
      <4> SUFFICES ASSUME NEW t \in Session, request'[t].op = "freefile", NEW b \in Address, Live(b)'
                   PROVE  request'[t].fork \notin object'[b].mOpenFiles
        OBVIOUS
      <4>1. CASE t = s
        BY <2>5, <3>2, <4>1
      <4>2. CASE t # s
        BY <2>4, <2>9, <4>2 DEF FileInv, FilesOK
      <4> QED
        BY <4>1, <4>2
    <3> QED
      BY <1>2, <2>9, <3>1, <3>3 DEF FileInv, FilesOK
  <2>11. ListedFilesAreOpen'
    BY <1>2, <2>9 DEF FileInv, ListedFilesAreOpen
  <2> QED
    BY <2>8, <2>10, <2>11 DEF FileInv
<1> QED
  BY <1>1, <1>2 DEF CloseFile_Remove, Used

(* The item is freed: it was listed nowhere any more.                      *)
LEMMA FreeFileStep ==
    ASSUME FileInv, NEW s \in Session, CloseFile_Free(s) PROVE FileInv'
<1> DEFINE f == request[s].fork
<1>0. /\ TypeOK /\ request[s].op = "freefile"
      /\ request[s] \in [op : {"closefile", "freefile"}, fork : Fork, ends : BOOLEAN]
      /\ f \in mOpenFiles[s]
  BY RequestFields DEF FileInv, ShareInv, FilesOK, CloseFile_Free
<1>1. /\ mOpenFiles' = [mOpenFiles EXCEPT ![s] = @ \ {f}]
      /\ UNCHANGED <<looperVars, object, mOpenVolumes, told>>
  BY DEF CloseFile_Free
<1>2. PICK r \in Requests : r.op \in {"end", "idle"} /\ request' = [request EXCEPT ![s] = r]
  BY <1>0, RequestForms DEF CloseFile_Free, Idle
<1>3. /\ mOpenFiles' \in [Session -> SUBSET Fork] /\ mOpenFiles'[s] = mOpenFiles[s] \ {f}
      /\ \A t \in Session : t # s => mOpenFiles'[t] = mOpenFiles[t]
  BY <1>0, <1>1 DEF TypeOK
<1>4. /\ request' \in [Session -> Requests] /\ request'[s] = r
      /\ \A t \in Session : t # s => request'[t] = request[t]
  BY <1>0, <1>2 DEF TypeOK
<1>5. TypeOK'
  BY <1>0, <1>1, <1>3, <1>4, LooperKeepsType DEF TypeOK
<1>6. ShareInv'
  BY <1>1, <1>5, SessionShares DEF FileInv, Live
<1>7. FilesOK'
  BY <1>1, <1>2, <1>3, <1>4 DEF FileInv, FilesOK, Live
<1>8. ASSUME NEW a \in Address, Live(a), NEW g \in object[a].mOpenFiles
      PROVE  g \in mOpenFiles'[g.session]
  <2>1. g \in mOpenFiles[g.session] /\ g # f
    BY <1>0, <1>8 DEF FileInv, FilesOK, ListedFilesAreOpen
  <2>2. g.session \in Session
    BY <1>0, <1>8, LiveType DEF VolumeObject, Fork
  <2> QED
    BY <1>3, <2>1, <2>2
<1>9. ListedFilesAreOpen'
  BY <1>1, <1>8 DEF ListedFilesAreOpen, Live
<1> QED
  BY <1>6, <1>7, <1>9 DEF FileInv

LEMMA SessionStepStep ==
    ASSUME FileInv, NEW s \in Session, SessionStep(s) PROVE FileInv'
<1>1. CASE Destructor_File(s)
  <2>1. PICK f \in mOpenFiles[s] :
          request' = [request EXCEPT ![s] = [op |-> "closefile", fork |-> f, ends |-> TRUE]]
    BY <1>1 DEF Destructor_File
  <2>2. f \in Fork
    BY DEF FileInv, ShareInv, TypeOK
  <2>3. [op |-> "closefile", fork |-> f, ends |-> TRUE] \in Requests
    BY <2>2, RequestForms
  <2> QED
    BY <1>1, <2>1, <2>3, RequestStep DEF Destructor_File, FileInv, ShareInv, TypeOK
<1>2. CASE Destructor_Done(s)
  BY <1>2, AnswerStep DEF Destructor_Done, TypeOK, FileInv, ShareInv
<1> QED
  BY <1>1, <1>2, OpenVolStep, CloseVolStep, OpenForkStep, RemoveFileStep, FreeFileStep DEF SessionStep

-----------------------------------------------------------------------------
(* The looper and the files *)

(* An object a step of the looper leaves is one that was there, with its   *)
(* files, or a new one without files.                                      *)
KeptOrNew == \A a \in Address : Live(a)' =>
                 object'[a].mOpenFiles = {} \/ (Live(a) /\ object'[a].mOpenFiles = object[a].mOpenFiles)

LEMMA KeptOrNewStep ==
    ASSUME FileInv, ShareInv', UNCHANGED sessionVars, KeptOrNew PROVE FileInv'
<1>1. UNCHANGED <<request, mOpenFiles>>
  BY DEF sessionVars
<1>2. \A a \in Address : Live(a)' => \A f \in object'[a].mOpenFiles :
          Live(a) /\ f \in object[a].mOpenFiles
  BY DEF KeptOrNew
<1>3. \A s \in Session : request'[s].op = "freefile" =>
          \A a \in Address : Live(a)' => request'[s].fork \notin object'[a].mOpenFiles
  BY <1>1, <1>2 DEF FileInv, FilesOK
<1>4. FilesOK'
  BY <1>1, <1>2, <1>3 DEF FileInv, FilesOK
<1>5. ListedFilesAreOpen'
  BY <1>1, <1>2 DEF FileInv, ListedFilesAreOpen
<1> QED
  BY <1>4, <1>5 DEF FileInv

LEMMA SameObjects == ASSUME UNCHANGED object PROVE KeptOrNew
BY DEF KeptOrNew, Live

LEMMA SharingKeepsFiles ==
    ASSUME TypeOK, NEW p \in Path, NEW flag \in BOOLEAN, StartSharingVolume(p, flag)
    PROVE  KeptOrNew
<1>1. CASE WithName(Leaf[p]) # {}
  BY <1>1, SameObjects DEF StartSharingVolume
<1>2. CASE WithName(Leaf[p]) = {}
  <2> DEFINE v == [path |-> p, id |-> gNextVolumeID, readOnly |-> flag, mOpenFiles |-> {}]
  <2>1. PICK a \in Address : object' = [object EXCEPT ![a] = v]
    BY <1>2 DEF StartSharingVolume, NewVolume
  <2>2. object'[a] = v /\ \A b \in Address : b # a => object'[b] = object[b]
    BY <2>1 DEF TypeOK
  <2>3. v.mOpenFiles = {}
    OBVIOUS
  <2> QED
    BY <2>2, <2>3 DEF KeptOrNew, Live
<1> QED
  BY <1>1, <1>2

LEMMA UpdateKeepsFiles == ASSUME TypeOK, UpdateVolume PROVE KeptOrNew
<1> SUFFICES ASSUME NEW a \in Address, Live(a)'
             PROVE  Live(a) /\ object'[a].mOpenFiles = object[a].mOpenFiles
  BY DEF KeptOrNew
<1>1. object'[a] = IF a \in First(WithPath(looper.path))
                   THEN [object[a] EXCEPT !.readOnly = looper.flag] ELSE object[a]
  BY DEF UpdateVolume
<1>2. CASE object[a] \in VolumeObject
  <2>1. Live(a)
    BY <1>2, FreedIsNoVolume DEF Live
  <2>2. [object[a] EXCEPT !.readOnly = looper.flag].mOpenFiles = object[a].mOpenFiles
    BY <1>2 DEF VolumeObject
  <2> QED
    BY <1>1, <2>1, <2>2
<1>3. CASE object[a] = Freed
  <2>1. [object[a] EXCEPT !.readOnly = looper.flag] = Freed
    BY <1>3 DEF Freed
  <2> QED
    BY <1>1, <1>3, <2>1 DEF Live
<1> QED
  BY <1>2, <1>3 DEF TypeOK

LEMMA StopSharingKeepsFiles ==
    ASSUME TypeOK, NEW n \in DOMAIN volume_blist, StopSharingVolume(n) PROVE KeptOrNew
<1> DEFINE a == volume_blist[n]
<1>1. a \in Address
  BY DEF TypeOK
<1>2. object'[a] = Freed /\ \A b \in Address : b # a => object'[b] = object[b]
  BY <1>1 DEF StopSharingVolume, TypeOK
<1> QED
  BY <1>2 DEF KeptOrNew, Live

LEMMA ApplicationFiles ==
    ASSUME FileInv, Application PROVE FileInv'
<1>0. ShareInv' /\ TypeOK
  BY ApplicationStep DEF FileInv, ShareInv
<1>1. UNCHANGED sessionVars
  BY DEF Application, ShareAllVolumes, UpdateVolume, AddShare_Start, RemoveVolumeData, RemoveShare,
         AddShare, SetVolFlags, SaveVolumeData, NodeMonitor
<1> SUFFICES KeptOrNew
  BY <1>0, <1>1, KeptOrNewStep
<1>2. CASE ShareAllVolumes
  <2>1. looper \in [at : {"shareall"}, todo : SUBSET Path] /\ looper.todo \subseteq DOMAIN preferences
    BY <1>2, LooperFields DEF FileInv, ShareInv, LooperOK, ShareAllVolumes
  <2>2. \A p \in looper.todo : p \in Path /\ preferences[p] \in BOOLEAN
    BY <1>0, <2>1 DEF TypeOK
  <2> QED
    BY <1>0, <1>2, <2>2, SharingKeepsFiles, SameObjects DEF ShareAllVolumes
<1>3. CASE AddShare_Start
  <2>1. looper.path \in Path /\ looper.flag \in BOOLEAN
    BY <1>0, <1>3, LooperFields DEF AddShare_Start
  <2> QED
    BY <1>0, <1>3, <2>1, SharingKeepsFiles DEF AddShare_Start
<1>4. CASE UpdateVolume
  BY <1>0, <1>4, UpdateKeepsFiles
<1>5. CASE RemoveVolumeData
  BY <1>5, SameObjects DEF RemoveVolumeData
<1>6. ASSUME NEW p \in Path, NEW flag \in BOOLEAN, AddShare(p, flag) \/ SetVolFlags(p, flag)
      PROVE  KeptOrNew
  BY <1>6, SameObjects DEF AddShare, SetVolFlags, SaveVolumeData
<1>7. ASSUME NEW p \in Path, RemoveShare(p) PROVE KeptOrNew
  BY <1>0, <1>7, StopSharingKeepsFiles DEF RemoveShare
<1>8. ASSUME NEW n \in DOMAIN volume_blist, NodeMonitor(n) PROVE KeptOrNew
  BY <1>0, <1>8, StopSharingKeepsFiles DEF NodeMonitor
<1> QED
  BY <1>2, <1>3, <1>4, <1>5, <1>6, <1>7, <1>8 DEF Application

-----------------------------------------------------------------------------
(* The theorems *)

LEMMA InitFiles == Init => FileInv
<1> SUFFICES ASSUME Init PROVE FileInv
  OBVIOUS
<1>1. TypeOK
  BY InitType
<1>2. Listed = {} /\ DOMAIN volume_blist = {}
  BY DEF Init, Listed, Range
<1>3. LooperOK
  BY <1>2 DEF Init, LooperOK, Waiting
<1>4. ShareInv
  BY <1>1, <1>2, <1>3 DEF ShareInv, ListedAreLive, SharedNamesAreUnique, SharedIsSaved
<1>5. \A a \in Address : ~Live(a)
  BY DEF Init, Live
<1>6. \A s \in Session : request[s].op = "idle" /\ mOpenFiles[s] = {}
  BY DEF Init, Idle
<1>7. FilesOK
  BY <1>5, <1>6 DEF FilesOK
<1>8. ListedFilesAreOpen
  BY <1>5 DEF ListedFilesAreOpen
<1> QED
  BY <1>4, <1>7, <1>8 DEF FileInv

LEMMA NextFiles == FileInv /\ [Next]_vars => FileInv'
<1> SUFFICES ASSUME FileInv, [Next]_vars PROVE FileInv'
  OBVIOUS
<1>1. CASE Start
  <2>1. ShareInv' /\ UNCHANGED sessionVars /\ KeptOrNew
    BY <1>1, StartStep, SameObjects DEF FileInv, Start
  <2> QED
    BY <2>1, KeptOrNewStep
<1>2. CASE Stop
  BY <1>2, StoppedFiles DEF Stop
<1>3. CASE Application
  BY <1>3, ApplicationFiles
<1>4. ASSUME NEW s \in Session, ClientRequest(s) \/ SessionStep(s) PROVE FileInv'
  BY <1>4, ClientRequestStep, SessionStepStep
<1>5. CASE UNCHANGED vars
  <2>1. UNCHANGED <<looperVars, object, sessionVars>>
    BY <1>5 DEF vars
  <2>2. TypeOK'
    BY <2>1 DEF FileInv, ShareInv, TypeOK, looperVars, sessionVars
  <2>3. ShareInv'
    BY <2>1, <2>2, SameShares DEF FileInv, ShareInv, ListedAreLive, Live
  <2> QED
    BY <2>1, <2>3, SameObjects, KeptOrNewStep
<1> QED
  BY <1>1, <1>2, <1>3, <1>4, <1>5 DEF Next

(* The invariants hold in every state.                                     *)
THEOREM Invariance == Spec => []FileInv
<1> QED
  BY InitFiles, NextFiles, PTL DEF Spec

(* Every variable has its type.                                            *)
THEOREM TypeCorrect == Spec => []TypeOK
<1>1. FileInv => TypeOK
  BY DEF FileInv, ShareInv
<1> QED
  BY Invariance, <1>1, PTL

(* StartSharingVolume never shares two volumes of one name, however shares *)
(* are saved, removed, moved away and shared again at a start.             *)
THEOREM NamesUnique == Spec => []SharedNamesAreUnique
<1>1. FileInv => SharedNamesAreUnique
  BY DEF FileInv, ShareInv
<1> QED
  BY Invariance, <1>1, PTL

(* A shared volume is in the preferences with the flag it has, outside the *)
(* two halves of SaveVolumeData: also while RemoveVolumeData still has to  *)
(* remove a path whose volume is gone.                                     *)
THEOREM SharesSaved == Spec => []SharedIsSaved
<1>1. FileInv => SharedIsSaved
  BY DEF FileInv, ShareInv
<1> QED
  BY Invariance, <1>1, PTL

(* No list of open files of a volume that is there holds a freed item,     *)
(* although volumes are deleted under open files, their addresses are used *)
(* again, and sessions end while they have files open.                     *)
THEOREM NoFreedFileListed == Spec => []ListedFilesAreOpen
<1>1. FileInv => ListedFilesAreOpen
  BY DEF FileInv
<1> QED
  BY Invariance, <1>1, PTL

-----------------------------------------------------------------------------
(* The IDs of volumes, as long as none comes again: MaxShares < IDRange    *)

Given == 1 .. shares

(* A volume's ID has not been given before, and is given to no other; an   *)
(* object that is not deleted is on the list.                              *)
NewIDs ==
    /\ shares + 1 < IDRange => gNextVolumeID = shares + 1
    /\ \A a \in Address : Live(a) => a \in Listed /\ object[a].id \in Given
    /\ \A a, b \in Address : Live(a) /\ Live(b) /\ object[a].id = object[b].id => a = b

(* A volume at the address of an open file is another one, or has it on    *)
(* its list until the session is about to free it.                         *)
Knows(s, f) ==
    \/ ~Live(f.volume)
    \/ object[f.volume].id # f.volID
    \/ f \in object[f.volume].mOpenFiles
    \/ request[s].op = "freefile" /\ request[s].fork = f

(* What a session knows of IDs is old, and right as far as it goes.        *)
Sees(s) ==
    /\ told[s] \subseteq Given
    /\ \A f \in mOpenFiles[s] : f.volID \in Given /\ Knows(s, f)
    /\ request[s].op \in {"closevol", "openfork"} => request[s].id \in Given
    /\ request[s].op = "closevol" /\ Live(request[s].volume) =>
          \/ object[request[s].volume].id = request[s].id
          \/ object[request[s].volume].id \notin told[s]
    /\ \A a \in Listed : object[a].id \in told[s] => HasVolumeOpen(s, a)

IDInv == FileInv /\ NewIDs /\ \A s \in Session : Sees(s)

(* The end of the process.                                                 *)
LEMMA StoppedIDs == ASSUME IDInv, Stopped PROVE IDInv'
<1>1. FileInv'
  BY StoppedFiles DEF IDInv
<1>2. /\ \A a \in Address : ~Live(a)'
      /\ shares' = 0 /\ gNextVolumeID' = 1
      /\ \A s \in Session : mOpenFiles'[s] = {} /\ request'[s] = Idle /\ told'[s] = {}
  BY DEF Stopped, Live
<1>3. NewIDs'
  BY <1>2 DEF NewIDs
<1>4. \A s \in Session : Sees(s)'
  BY <1>2 DEF Sees, Idle
<1> QED
  BY <1>1, <1>3, <1>4 DEF IDInv

-----------------------------------------------------------------------------
(* The steps of the looper and the IDs *)

(* An object that a step of the looper leaves was there, or has an ID that *)
(* was not given before.                                                   *)
Grows ==
    \A a \in Address : Live(a)' =>
        \/ /\ Live(a) /\ object'[a].id = object[a].id
           /\ object'[a].mOpenFiles = object[a].mOpenFiles
        \/ object'[a].id \notin Given

LEMMA LooperIDs ==
    ASSUME IDInv, FileInv', UNCHANGED sessionVars, NewIDs', Grows,
           shares' = shares \/ shares' = shares + 1
    PROVE  IDInv'
<1>1. /\ UNCHANGED <<request, mOpenVolumes, mOpenFiles, told>>
      /\ TypeOK /\ shares \in Nat
  BY LimitAssumption DEF sessionVars, IDInv, FileInv, ShareInv, TypeOK
<1>2. Given \subseteq Given'
  BY <1>1 DEF Given
<1>3. ASSUME NEW s \in Session PROVE Sees(s)'
  <2>1. Sees(s)
    BY DEF IDInv
  <2>2. told'[s] \subseteq Given' /\ told'[s] = told[s]
    BY <1>1, <1>2, <2>1 DEF Sees
  <2>3. ASSUME NEW f \in mOpenFiles'[s] PROVE f.volID \in Given' /\ Knows(s, f)'
    <3>1. f \in Fork /\ f.volume \in Address /\ f.volID \in Given /\ Knows(s, f)
      BY <1>1, <2>1, <2>3 DEF Sees, TypeOK, Fork
    <3> QED
      BY <1>1, <1>2, <3>1 DEF Knows, Grows
  <2>4. request'[s].op \in {"closevol", "openfork"} => request'[s].id \in Given'
    BY <1>1, <1>2, <2>1 DEF Sees
  <2>5. ASSUME request'[s].op = "closevol", Live(request[s].volume)'
        PROVE  \/ object'[request'[s].volume].id = request'[s].id
               \/ object'[request'[s].volume].id \notin told'[s]
    <3>1. request'[s] = request[s] /\ request[s].volume \in Address
      BY <1>1, <2>5, RequestFields
    <3>2. PICK a \in Address : a = request[s].volume
      BY <3>1
    <3>3. CASE object'[a].id \notin Given
      BY <2>1, <2>2, <3>1, <3>2, <3>3 DEF Sees
    <3>4. CASE Live(a) /\ object'[a].id = object[a].id
      BY <2>1, <2>2, <2>5, <3>1, <3>2, <3>4 DEF Sees
    <3>5. object'[a].id \notin Given \/ (Live(a) /\ object'[a].id = object[a].id)
      <4>1. Live(a)'
        BY <2>5, <3>1, <3>2
      <4> QED
        BY <4>1 DEF Grows
    <3> QED
      BY <3>3, <3>4, <3>5
  <2>6. ASSUME NEW a \in Listed', object'[a].id \in told'[s] PROVE HasVolumeOpen(s, a)'
    <3>1. a \in Address /\ Live(a)'
      BY ListedIsAddress, <2>6 DEF FileInv, ShareInv, ListedAreLive, TypeOK, Listed, Range
    <3>2. object'[a].id \in Given
      BY <2>1, <2>2, <2>6 DEF Sees
    <3>3. Live(a) /\ object'[a].id = object[a].id
      BY <3>1, <3>2 DEF Grows
    <3>4. a \in Listed
      BY <3>1, <3>3 DEF IDInv, NewIDs
    <3> QED
      BY <1>1, <2>1, <2>2, <2>6, <3>3, <3>4 DEF Sees, HasVolumeOpen
  <2> QED
    BY <2>2, <2>3, <2>4, <2>5, <2>6 DEF Sees
<1> QED
  BY <1>3 DEF IDInv

(* Sharing gives the next ID.                                              *)
LEMMA SharingIDs ==
    ASSUME MaxShares < IDRange, IDInv, NEW p \in Path, NEW flag \in BOOLEAN,
           StartSharingVolume(p, flag)
    PROVE  NewIDs' /\ Grows /\ (shares' = shares \/ shares' = shares + 1)
<1>0. TypeOK /\ NewIDs /\ shares \in 0 .. MaxShares
  BY DEF IDInv, FileInv, ShareInv, TypeOK
<1>1. CASE WithName(Leaf[p]) # {}
  <2>1. UNCHANGED <<object, volume_blist, gNextVolumeID, shares>> /\ Listed' = Listed
    BY <1>1 DEF StartSharingVolume, Listed
  <2> QED
    BY <1>0, <2>1 DEF NewIDs, Grows, Live, Given
<1>2. CASE WithName(Leaf[p]) = {}
  <2>1. PICK v : v = [path |-> p, id |-> gNextVolumeID, readOnly |-> flag, mOpenFiles |-> {}]
    OBVIOUS
  <2>2. PICK a \in Address :
          ~Live(a) /\ object' = [object EXCEPT ![a] = v] /\ volume_blist' = Append(volume_blist, a)
    BY <1>2, <2>1 DEF StartSharingVolume, NewVolume
  <2>3. /\ shares < MaxShares /\ shares' = shares + 1
        /\ gNextVolumeID' = (gNextVolumeID + 1) % IDRange
    BY <1>2 DEF StartSharingVolume, NewVolume
  <2>4. Listed' = Listed \cup {a}
    BY <1>0, <2>2, AppendRange DEF Listed, TypeOK
  <2>5. object'[a] = v /\ \A b \in Address : b # a => object'[b] = object[b]
    BY <1>0, <2>2 DEF TypeOK
  <2>6. shares \in Nat /\ MaxShares \in Nat /\ IDRange \in Nat /\ shares + 1 < IDRange
    BY <1>0, <2>3, LimitAssumption, IDAssumption
  <2>7. gNextVolumeID = shares + 1 /\ v.id = shares + 1
    BY <1>0, <2>1, <2>6 DEF NewIDs
  <2>8. shares' + 1 < IDRange => gNextVolumeID' = shares' + 1
    BY <2>3, <2>6, <2>7
  <2>9. Given' = Given \cup {shares + 1} /\ shares + 1 \notin Given
    BY <2>3, <2>6 DEF Given
  <2>10. \A b \in Address : b # a => (Live(b)' <=> Live(b))
    BY <2>5 DEF Live
  <2>11. \A b \in Address : Live(b)' => b \in Listed' /\ object'[b].id \in Given'
    BY <1>0, <2>4, <2>5, <2>7, <2>9, <2>10 DEF NewIDs
  <2>12. ASSUME NEW b \in Address, NEW c \in Address, Live(b)', Live(c)',
                object'[b].id = object'[c].id
         PROVE  b = c
    <3>1. \A d \in Address : Live(d) => object[d].id # shares + 1
      BY <1>0, <2>9 DEF NewIDs
    <3> QED
      BY <1>0, <2>5, <2>7, <2>10, <2>12, <3>1 DEF NewIDs
  <2>13. NewIDs'
    BY <2>8, <2>11, <2>12 DEF NewIDs
  <2>14. Grows
    BY <2>5, <2>7, <2>9, <2>10 DEF Grows
  <2> QED
    BY <2>3, <2>13, <2>14
<1> QED
  BY <1>1, <1>2

(* No other step of the looper gives an ID.                                *)
LEMMA NoNewIDs ==
    ASSUME IDInv, UNCHANGED <<shares, gNextVolumeID>>,
           \A a \in Address : Live(a)' =>
              /\ Live(a) /\ object'[a].id = object[a].id
              /\ object'[a].mOpenFiles = object[a].mOpenFiles
              /\ a \in Listed'
    PROVE  NewIDs' /\ Grows
BY DEF IDInv, NewIDs, Grows, Given

LEMMA UpdateIDs == ASSUME IDInv, UpdateVolume PROVE NewIDs' /\ Grows
<1>0. TypeOK /\ Listed' = Listed /\ UNCHANGED <<shares, gNextVolumeID>>
  BY DEF IDInv, FileInv, ShareInv, UpdateVolume, Listed
<1>1. ASSUME NEW a \in Address, Live(a)'
      PROVE  /\ Live(a) /\ object'[a].id = object[a].id
             /\ object'[a].mOpenFiles = object[a].mOpenFiles
  <2>1. object'[a] = IF a \in First(WithPath(looper.path))
                     THEN [object[a] EXCEPT !.readOnly = looper.flag] ELSE object[a]
    BY DEF UpdateVolume
  <2>2. CASE object[a] \in VolumeObject
    <3>1. Live(a)
      BY <2>2, FreedIsNoVolume DEF Live
    <3>2. PICK v : v = [object[a] EXCEPT !.readOnly = looper.flag]
      OBVIOUS
    <3>3. v.mOpenFiles = object[a].mOpenFiles /\ v.id = object[a].id
      BY <2>2, <3>2 DEF VolumeObject
    <3> QED
      BY <2>1, <3>1, <3>2, <3>3
  <2>3. CASE object[a] = Freed
    <3>1. [object[a] EXCEPT !.readOnly = looper.flag] = Freed
      BY <2>3 DEF Freed
    <3> QED
      BY <1>1, <2>1, <2>3, <3>1 DEF Live
  <2> QED
    BY <1>0, <2>2, <2>3 DEF TypeOK
<1>2. \A a \in Address : Live(a) => a \in Listed
  BY DEF IDInv, NewIDs
<1> QED
  BY <1>0, <1>1, <1>2, NoNewIDs

LEMMA StopSharingIDs ==
    ASSUME IDInv, NEW n \in DOMAIN volume_blist, StopSharingVolume(n),
           UNCHANGED <<shares, gNextVolumeID>>
    PROVE  NewIDs' /\ Grows
<1>0. TypeOK
  BY DEF IDInv, FileInv, ShareInv
<1>1. PICK a \in Address : a = volume_blist[n]
  BY <1>0 DEF TypeOK
<1>2. volume_blist' = RemoveAt(volume_blist, n) /\ object' = [object EXCEPT ![a] = Freed]
  BY <1>1 DEF StopSharingVolume
<1>3. object'[a] = Freed /\ \A b \in Address : b # a => object'[b] = object[b]
  BY <1>0, <1>2 DEF TypeOK
<1>4. \A b \in Listed : b # a => b \in Listed'
  BY <1>0, <1>1, <1>2, RemoveAtRange DEF TypeOK, Listed
<1>5. \A b \in Address : Live(b)' => b # a /\ Live(b) /\ b \in Listed
  BY <1>3 DEF Live, IDInv, NewIDs
<1> QED
  BY <1>3, <1>4, <1>5, NoNewIDs

LEMMA SameIDs ==
    ASSUME IDInv, UNCHANGED <<shares, gNextVolumeID, volume_blist, object>>
    PROVE  NewIDs' /\ Grows
<1>1. \A a \in Address : Live(a)' => Live(a) /\ a \in Listed'
  BY DEF IDInv, NewIDs, Listed, Live
<1> QED
  BY <1>1, NoNewIDs

LEMMA ApplicationIDs ==
    ASSUME MaxShares < IDRange, IDInv, Application PROVE IDInv'
<1>0. FileInv' /\ FileInv /\ TypeOK
  BY ApplicationFiles DEF IDInv, FileInv, ShareInv
<1>1. UNCHANGED sessionVars
  BY DEF Application, ShareAllVolumes, UpdateVolume, AddShare_Start, RemoveVolumeData, RemoveShare,
         AddShare, SetVolFlags, SaveVolumeData, NodeMonitor
<1> SUFFICES NewIDs' /\ Grows /\ (shares' = shares \/ shares' = shares + 1)
  BY <1>0, <1>1, LooperIDs
<1>2. CASE ShareAllVolumes
  <2>1. looper \in [at : {"shareall"}, todo : SUBSET Path] /\ looper.todo \subseteq DOMAIN preferences
    BY <1>0, <1>2, LooperFields DEF FileInv, ShareInv, LooperOK, ShareAllVolumes
  <2>2. \A p \in looper.todo : p \in Path /\ preferences[p] \in BOOLEAN
    BY <1>0, <2>1 DEF TypeOK
  <2> QED
    BY <1>2, <2>2, SharingIDs, SameIDs DEF ShareAllVolumes
<1>3. CASE AddShare_Start
  <2>1. looper.path \in Path /\ looper.flag \in BOOLEAN
    BY <1>0, <1>3, LooperFields DEF AddShare_Start
  <2> QED
    BY <1>3, <2>1, SharingIDs DEF AddShare_Start
<1>4. CASE UpdateVolume
  BY <1>4, UpdateIDs DEF UpdateVolume
<1>5. CASE RemoveVolumeData
  BY <1>5, SameIDs DEF RemoveVolumeData
<1>6. ASSUME NEW p \in Path, NEW flag \in BOOLEAN, AddShare(p, flag) \/ SetVolFlags(p, flag)
      PROVE  NewIDs' /\ Grows /\ (shares' = shares \/ shares' = shares + 1)
  BY <1>6, SameIDs DEF AddShare, SetVolFlags, SaveVolumeData
<1>7. ASSUME NEW p \in Path, RemoveShare(p)
      PROVE  NewIDs' /\ Grows /\ (shares' = shares \/ shares' = shares + 1)
  BY <1>7, StopSharingIDs DEF RemoveShare
<1>8. ASSUME NEW n \in DOMAIN volume_blist, NodeMonitor(n)
      PROVE  NewIDs' /\ Grows /\ (shares' = shares \/ shares' = shares + 1)
  BY <1>8, StopSharingIDs DEF NodeMonitor
<1> QED
  BY <1>2, <1>3, <1>4, <1>5, <1>6, <1>7, <1>8 DEF Application

-----------------------------------------------------------------------------
(* The steps of the sessions and the IDs *)

(* What is to be shown of a step of a session that leaves the process      *)
(* running.                                                                *)
LEMMA SessionIDs ==
    ASSUME IDInv, FileInv', NEW s \in Session, UNCHANGED looperVars,
           \A b \in Address : Live(b)' <=> Live(b),
           \A b \in Address : Live(b) => object'[b].id = object[b].id,
           \A b \in Address : Live(b) => \A f \in Fork : f.session # s =>
              (f \in object[b].mOpenFiles => f \in object'[b].mOpenFiles),
           \A t \in Session : t # s =>
              /\ request'[t] = request[t] /\ mOpenVolumes'[t] = mOpenVolumes[t]
              /\ mOpenFiles'[t] = mOpenFiles[t] /\ told'[t] = told[t],
           Sees(s)'
    PROVE  IDInv'
<1>0. TypeOK /\ UNCHANGED <<shares, gNextVolumeID, volume_blist>>
  BY DEF IDInv, FileInv, ShareInv, looperVars
<1>1. Listed' = Listed /\ Given' = Given /\ Listed \subseteq Address
  BY <1>0, ListedIsAddress DEF Listed, Given
<1>2. NewIDs'
  BY <1>0, <1>1 DEF IDInv, NewIDs
<1>3. ASSUME NEW t \in Session, t # s PROVE Sees(t)'
  <2>1. /\ Sees(t) /\ request'[t] = request[t] /\ mOpenVolumes'[t] = mOpenVolumes[t]
        /\ mOpenFiles'[t] = mOpenFiles[t] /\ told'[t] = told[t]
    BY <1>3 DEF IDInv
  <2>2. told'[t] \subseteq Given'
    BY <1>1, <2>1 DEF Sees
  <2>3. ASSUME NEW f \in mOpenFiles'[t] PROVE f.volID \in Given' /\ Knows(t, f)'
    <3>1. /\ f \in Fork /\ f.volume \in Address /\ f.volID \in Given /\ Knows(t, f)
          /\ f.session # s
      BY <1>0, <1>3, <2>1, <2>3 DEF Sees, TypeOK, Fork, IDInv, FileInv, FilesOK
    <3> QED
      BY <1>1, <2>1, <3>1 DEF Knows
  <2>4. request'[t].op \in {"closevol", "openfork"} => request'[t].id \in Given'
    BY <1>1, <2>1 DEF Sees
  <2>5. ASSUME request'[t].op = "closevol", Live(request[t].volume)'
        PROVE  \/ object'[request'[t].volume].id = request'[t].id
               \/ object'[request'[t].volume].id \notin told'[t]
    <3>1. request[t].volume \in Address /\ request[t].op = "closevol"
      BY <1>0, <2>1, <2>5, RequestFields
    <3>2. PICK a \in Address : a = request[t].volume
      BY <3>1
    <3>3. Live(a)'
      BY <2>1, <2>5, <3>2 DEF Live
    <3>4. Live(a) /\ object'[a].id = object[a].id
      BY <3>3
    <3>5. object[a].id = request[t].id \/ object[a].id \notin told[t]
      BY <2>1, <3>1, <3>2, <3>4 DEF Sees
    <3> QED
      BY <2>1, <3>2, <3>4, <3>5
  <2>6. \A a \in Listed' : object'[a].id \in told'[t] => HasVolumeOpen(t, a)'
    <3>1. \A a \in Listed : Live(a)
      BY DEF IDInv, FileInv, ShareInv, ListedAreLive
    <3> QED
      BY <1>1, <2>1, <3>1 DEF Sees, HasVolumeOpen
  <2> QED
    BY <2>1, <2>2, <2>3, <2>4, <2>5, <2>6 DEF Sees
<1> QED
  BY <1>2, <1>3 DEF IDInv

(* A step that changes no file: a session's request, what it has open, and *)
(* what its client was told.                                               *)
LEMMA RequestIDs ==
    ASSUME IDInv, FileInv', NEW s \in Session, NEW r, request' = [request EXCEPT ![s] = r],
           request[s].op # "freefile", UNCHANGED <<looperVars, object, mOpenFiles>>,
           \A t \in Session : t # s => mOpenVolumes'[t] = mOpenVolumes[t] /\ told'[t] = told[t],
           told'[s] \subseteq Given,
           \A a \in Listed : object[a].id \in told'[s] => a \in Range(mOpenVolumes'[s]),
           r.op \in {"closevol", "openfork"} => r.id \in Given,
           r.op = "closevol" => \E a \in Address :
              /\ r.volume = a
              /\ Live(a) => object[a].id = r.id \/ object[a].id \notin told'[s]
    PROVE  IDInv'
<1>0. TypeOK /\ UNCHANGED <<shares, volume_blist>> /\ Sees(s)
  BY DEF IDInv, FileInv, ShareInv, looperVars
<1>1. Listed' = Listed /\ Given' = Given
  BY <1>0 DEF Listed, Given
<1>2. request'[s] = r /\ \A t \in Session : t # s => request'[t] = request[t]
  BY <1>0 DEF TypeOK
<1>3. ASSUME NEW f \in mOpenFiles'[s] PROVE f.volID \in Given' /\ Knows(s, f)'
  <2>1. f \in mOpenFiles[s] /\ f.volID \in Given /\ Knows(s, f)
    BY <1>0, <1>3 DEF Sees
  <2> QED
    BY <1>1, <2>1 DEF Knows, Live
<1>4. ASSUME request'[s].op = "closevol", Live(request[s].volume)'
      PROVE  \/ object'[request'[s].volume].id = request'[s].id
             \/ object'[request'[s].volume].id \notin told'[s]
  <2>1. PICK a \in Address : /\ r.volume = a
                             /\ Live(a) => object[a].id = r.id \/ object[a].id \notin told'[s]
    BY <1>2, <1>4
  <2> QED
    BY <1>2, <1>4, <2>1 DEF Live
<1>5. Sees(s)'
  <2>1. told'[s] \subseteq Given'
    BY <1>1
  <2>2. request'[s].op \in {"closevol", "openfork"} => request'[s].id \in Given'
    BY <1>1, <1>2
  <2>3. \A a \in Listed' : object'[a].id \in told'[s] => HasVolumeOpen(s, a)'
    BY <1>1 DEF HasVolumeOpen
  <2> QED
    BY <1>3, <1>4, <2>1, <2>2, <2>3 DEF Sees
<1>6. /\ \A b \in Address : Live(b)' <=> Live(b)
      /\ \A b \in Address : Live(b) => object'[b].id = object[b].id
      /\ \A b \in Address : Live(b) => \A f \in Fork : f.session # s =>
              (f \in object[b].mOpenFiles => f \in object'[b].mOpenFiles)
  BY DEF Live
<1>7. \A t \in Session : t # s =>
         /\ request'[t] = request[t] /\ mOpenVolumes'[t] = mOpenVolumes[t]
         /\ mOpenFiles'[t] = mOpenFiles[t] /\ told'[t] = told[t]
  BY <1>2
<1> QED
  BY <1>5, <1>6, <1>7, SessionIDs

(* The same, when what the session has open does not change either.        *)
LEMMA NewRequestIDs ==
    ASSUME IDInv, FileInv', NEW s \in Session, NEW r, request' = [request EXCEPT ![s] = r],
           request[s].op # "freefile",
           UNCHANGED <<looperVars, object, mOpenFiles, mOpenVolumes, told>>,
           r.op \in {"closevol", "openfork"} =>
              /\ r.id \in Given
              /\ \E a \in Address : r.volume = a /\ object[a].id = r.id
    PROVE  IDInv'
<1>1. Sees(s)
  BY DEF IDInv
<1>2. \A t \in Session : t # s => mOpenVolumes'[t] = mOpenVolumes[t] /\ told'[t] = told[t]
  OBVIOUS
<1>3. \A a \in Listed : object[a].id \in told'[s] => a \in Range(mOpenVolumes'[s])
  BY <1>1 DEF Sees, HasVolumeOpen
<1>4. told'[s] \subseteq Given
  BY <1>1 DEF Sees
<1>5. r.op \in {"closevol", "openfork"} => r.id \in Given
  OBVIOUS
<1>6. r.op = "closevol" => \E a \in Address :
         /\ r.volume = a
         /\ Live(a) => object[a].id = r.id \/ object[a].id \notin told'[s]
  OBVIOUS
<1> QED
  BY <1>2, <1>3, <1>4, <1>5, <1>6, RequestIDs

LEMMA ClientRequestIDs ==
    ASSUME IDInv, NEW s \in Session, ClientRequest(s) PROVE IDInv'
<1>0. FileInv' /\ TypeOK /\ Listed \subseteq Address
  BY ClientRequestStep, ListedIsAddress DEF IDInv, FileInv, ShareInv
<1>1. ASSUME NEW id, NEW a \in FindVolumeByID(id)
      PROVE  a \in Address /\ id \in Given /\ object[a].id = id
  <2>1. a \in Listed /\ object[a].id = id
    BY <1>1 DEF FindVolumeByID, First, WithID
  <2>2. Live(a)
    BY <2>1 DEF IDInv, FileInv, ShareInv, ListedAreLive
  <2> QED
    BY <1>0, <2>1, <2>2 DEF IDInv, NewIDs
<1>2. Idle.op = "idle"
  BY DEF Idle
<1>3. ASSUME NEW r, Ask(s, r),
             r.op \in {"closevol", "openfork"} =>
              /\ r.id \in Given
              /\ \E a \in Address : r.volume = a /\ object[a].id = r.id
      PROVE  IDInv'
  <2>1. request[s].op # "freefile"
    BY <1>2, <1>3 DEF Ask
  <2> QED
    BY <1>0, <1>3, <2>1, NewRequestIDs DEF Ask
<1>4. ASSUME NEW name, FPOpenVol(s, name) PROVE IDInv'
  BY <1>3, <1>4 DEF FPOpenVol
<1>5. ASSUME NEW id, FPCloseVol(s, id) \/ FPOpenFork(s, id) PROVE IDInv'
  <2>1. PICK a \in FindVolumeByID(id), k \in {"closevol", "openfork"} :
           Ask(s, [op |-> k, volume |-> a, id |-> id])
    BY <1>5 DEF FPCloseVol, FPOpenFork
  <2> QED
    BY <1>1, <1>3, <2>1
<1>6. ASSUME NEW f, FPCloseFork(s, f) PROVE IDInv'
  BY <1>3, <1>6 DEF FPCloseFork
<1>7. CASE EndSession(s)
  <2>1. /\ told' = [told EXCEPT ![s] = {}] /\ mOpenVolumes' = [mOpenVolumes EXCEPT ![s] = <<>>]
        /\ request' = [request EXCEPT ![s] = [op |-> "end"]]
        /\ UNCHANGED <<looperVars, object, mOpenFiles>> /\ request[s].op # "freefile"
    BY <1>2, <1>7 DEF EndSession
  <2>2. /\ told'[s] = {}
        /\ \A t \in Session : t # s => mOpenVolumes'[t] = mOpenVolumes[t] /\ told'[t] = told[t]
    BY <1>0, <2>1 DEF TypeOK
  <2>3. PICK r : r = [op |-> "end"]
    OBVIOUS
  <2>4. r.op = "end"
    BY <2>3
  <2> QED
    BY <1>0, <2>1, <2>2, <2>3, <2>4, RequestIDs
<1> QED
  BY <1>4, <1>5, <1>6, <1>7 DEF ClientRequest

LEMMA OpenVolIDs ==
    ASSUME IDInv, NEW s \in Session, OpenVol_Open(s) PROVE IDInv'
<1>0. FileInv' /\ TypeOK /\ request[s].volume \in Address /\ request[s].op = "openvol"
  BY OpenVolStep, RequestFields DEF IDInv, FileInv, ShareInv, OpenVol_Open
<1>1. PICK a \in Address : a = request[s].volume
  BY <1>0
<1>2. Idle.op = "idle" /\ Sees(s)
  BY DEF Idle, IDInv
<1>3. CASE Stopped
  BY <1>3, StoppedIDs
<1>4. CASE Answer(s) /\ UNCHANGED <<looperVars, object, mOpenFiles, mOpenVolumes, told>>
  BY <1>0, <1>2, <1>4, NewRequestIDs DEF Answer
<1>5. CASE /\ VolumeOpened(s, a)
           /\ told' = IF Live(a) THEN [told EXCEPT ![s] = @ \cup {object[a].id}] ELSE told
           /\ Answer(s) /\ UNCHANGED <<looperVars, object, mOpenFiles>>
  <2>1. /\ mOpenVolumes'[s] = Append(mOpenVolumes[s], a)
        /\ \A t \in Session : t # s => mOpenVolumes'[t] = mOpenVolumes[t]
    BY <1>0, <1>5 DEF VolumeOpened, TypeOK
  <2>2. Range(mOpenVolumes'[s]) = Range(mOpenVolumes[s]) \cup {a}
    BY <1>0, <2>1, AppendRange DEF TypeOK
  <2>3. /\ told'[s] = IF Live(a) THEN told[s] \cup {object[a].id} ELSE told[s]
        /\ \A t \in Session : t # s => told'[t] = told[t]
    BY <1>0, <1>5 DEF TypeOK
  <2>4. told'[s] \subseteq Given
    BY <1>2, <2>3 DEF Sees, IDInv, NewIDs
  <2>5. ASSUME NEW b \in Listed, object[b].id \in told'[s] PROVE b \in Range(mOpenVolumes'[s])
    <3>1. CASE object[b].id \in told[s]
      BY <1>2, <2>2, <3>1 DEF Sees, HasVolumeOpen
    <3>2. CASE Live(a) /\ object[b].id = object[a].id
      <4>1. b \in Address /\ Live(b)
        BY <1>0, ListedIsAddress DEF IDInv, FileInv, ShareInv, ListedAreLive
      <4> QED
        BY <2>2, <3>2, <4>1 DEF IDInv, NewIDs
    <3> QED
      BY <2>3, <2>5, <3>1, <3>2
  <2> QED
    BY <1>0, <1>2, <1>5, <2>1, <2>3, <2>4, <2>5, RequestIDs DEF Answer
<1> QED
  BY <1>1, <1>3, <1>4, <1>5 DEF OpenVol_Open, Used

(* The client gives the ID back, and the first entry of the volume goes;   *)
(* if another volume is at its address by now, its ID was not told.        *)
LEMMA CloseVolIDs ==
    ASSUME IDInv, NEW s \in Session, CloseVol_Close(s) PROVE IDInv'
<1>0. FileInv' /\ TypeOK /\ request[s].volume \in Address /\ request[s].op = "closevol"
  BY CloseVolStep, RequestFields DEF IDInv, FileInv, ShareInv, CloseVol_Close
<1>1. PICK a \in Address : a = request[s].volume
  BY <1>0
<1>2. Idle.op = "idle" /\ Sees(s)
  BY DEF Idle, IDInv
<1>3. CASE Stopped
  BY <1>3, StoppedIDs
<1>4. CASE Answer(s) /\ UNCHANGED <<looperVars, object, mOpenFiles, mOpenVolumes, told>>
  BY <1>0, <1>2, <1>4, NewRequestIDs DEF Answer
<1>5. CASE /\ VolumeClosed(s, a) /\ told' = [told EXCEPT ![s] = @ \ {request[s].id}]
           /\ Answer(s) /\ UNCHANGED <<looperVars, object, mOpenFiles>>
  <2>1. PICK n \in DOMAIN mOpenVolumes[s] :
           mOpenVolumes[s][n] = a /\ mOpenVolumes' = [mOpenVolumes EXCEPT ![s] = RemoveAt(@, n)]
    BY <1>5 DEF VolumeClosed
  <2>2. /\ mOpenVolumes'[s] = RemoveAt(mOpenVolumes[s], n)
        /\ \A t \in Session : t # s => mOpenVolumes'[t] = mOpenVolumes[t]
    BY <1>0, <2>1 DEF TypeOK
  <2>3. \A b \in Range(mOpenVolumes[s]) : b # a => b \in Range(mOpenVolumes'[s])
    <3>1. mOpenVolumes[s] \in Seq(Address)
      BY <1>0 DEF TypeOK
    <3>2. PICK q \in Seq(Address) : q = mOpenVolumes[s]
      BY <3>1
    <3>3. n \in DOMAIN q /\ q[n] = a
      BY <2>1, <3>2
    <3>4. \A b \in Range(q) : b # q[n] => b \in Range(RemoveAt(q, n))
      BY <3>3, RemoveAtRange
    <3> QED
      BY <2>2, <3>2, <3>3, <3>4
  <2>4. /\ told'[s] = told[s] \ {request[s].id}
        /\ \A t \in Session : t # s => told'[t] = told[t]
    BY <1>0, <1>5 DEF TypeOK
  <2>5. told'[s] \subseteq Given
    BY <1>2, <2>4 DEF Sees
  <2>6. ASSUME NEW b \in Listed, object[b].id \in told'[s] PROVE b \in Range(mOpenVolumes'[s])
    <3>1. b \in Address /\ Live(b) /\ object[b].id \in told[s] /\ object[b].id # request[s].id
      BY <1>0, <2>4, <2>6, ListedIsAddress DEF IDInv, FileInv, ShareInv, ListedAreLive
    <3>2. b # a
      BY <1>0, <1>1, <1>2, <3>1 DEF Sees
    <3> QED
      BY <1>2, <2>3, <3>1, <3>2 DEF Sees, HasVolumeOpen
  <2> QED
    BY <1>0, <1>2, <1>5, <2>2, <2>4, <2>5, <2>6, RequestIDs DEF Answer
<1> QED
  BY <1>1, <1>3, <1>4, <1>5 DEF CloseVol_Close, Used

(* What is left to show when a step changes the files of a session.        *)
LEMMA FilesIDs ==
    ASSUME IDInv, FileInv', NEW s \in Session, UNCHANGED <<looperVars, mOpenVolumes, told>>,
           \A b \in Address : Live(b)' <=> Live(b),
           \A b \in Address : Live(b) => object'[b].id = object[b].id,
           \A b \in Address : Live(b) => \A f \in Fork : f.session # s =>
              (f \in object[b].mOpenFiles => f \in object'[b].mOpenFiles),
           \A t \in Session : t # s => request'[t] = request[t] /\ mOpenFiles'[t] = mOpenFiles[t],
           request'[s].op \notin {"closevol", "openfork"},
           \A f \in mOpenFiles'[s] : f.volID \in Given /\ Knows(s, f)'
    PROVE  IDInv'
<1>1. UNCHANGED <<shares, volume_blist>> /\ Sees(s)
  BY DEF looperVars, IDInv
<1>2. Listed' = Listed /\ Given' = Given
  BY <1>1 DEF Listed, Given
<1>3. told'[s] \subseteq Given' /\ \A f \in mOpenFiles'[s] : f.volID \in Given' /\ Knows(s, f)'
  BY <1>1, <1>2 DEF Sees
<1>4. \A a \in Listed' : object'[a].id \in told'[s] => HasVolumeOpen(s, a)'
  <2>1. \A a \in Listed : a \in Address /\ Live(a)
    BY ListedIsAddress DEF IDInv, FileInv, ShareInv, ListedAreLive
  <2> QED
    BY <1>1, <1>2, <2>1 DEF Sees, HasVolumeOpen
<1>5. Sees(s)'
  BY <1>3, <1>4 DEF Sees
<1>6. \A t \in Session : t # s =>
         /\ request'[t] = request[t] /\ mOpenVolumes'[t] = mOpenVolumes[t]
         /\ mOpenFiles'[t] = mOpenFiles[t] /\ told'[t] = told[t]
  OBVIOUS
<1> QED
  BY <1>5, <1>6, SessionIDs

LEMMA OpenForkIDs ==
    ASSUME IDInv, NEW s \in Session, OpenFork_Open(s) PROVE IDInv'
<1>0. /\ FileInv' /\ TypeOK /\ request[s].volume \in Address /\ request[s].op = "openfork"
      /\ Idle.op = "idle" /\ Sees(s)
  BY OpenForkStep, RequestFields DEF IDInv, FileInv, ShareInv, OpenFork_Open, Idle
<1>1. CASE Stopped
  BY <1>1, StoppedIDs
<1>2. CASE Answer(s) /\ UNCHANGED <<looperVars, object, mOpenFiles, mOpenVolumes, told>>
  BY <1>0, <1>2, NewRequestIDs DEF Answer
<1>3. ASSUME NEW f \in Fork, f.session = s, f.volID = request[s].id, OpenFile(s, f), Answer(s),
             UNCHANGED <<looperVars, mOpenVolumes, told>>
      PROVE  IDInv'
  <2>1. PICK a \in Address : a = f.volume
    BY DEF Fork
  <2>2. PICK files : files = object[a].mOpenFiles \cup {f}
    OBVIOUS
  <2>3. WithOpenFiles(a, files) /\ mOpenFiles' = [mOpenFiles EXCEPT ![s] = @ \cup {f}]
    BY <1>3, <2>1, <2>2 DEF OpenFile
  <2>4. Live(a) => files \in SUBSET Fork
    BY <1>0, <2>2, LiveType DEF VolumeObject
  <2>5. /\ \A b \in Address : Live(b)' <=> Live(b)
        /\ \A b \in Address : Live(b) =>
               /\ object'[b].id = object[b].id
               /\ object'[b].mOpenFiles = IF b = a THEN files ELSE object[b].mOpenFiles
    BY <1>0, <2>3, <2>4, WithOpenFilesStep
  <2>6. \A b \in Address : Live(b) => object[b].mOpenFiles \subseteq object'[b].mOpenFiles
    BY <2>2, <2>5
  <2>7. /\ mOpenFiles'[s] = mOpenFiles[s] \cup {f}
        /\ \A t \in Session : t # s => mOpenFiles'[t] = mOpenFiles[t]
    BY <1>0, <2>3 DEF TypeOK
  <2>8. request'[s] = Idle /\ \A t \in Session : t # s => request'[t] = request[t]
    BY <1>0, <1>3 DEF TypeOK, Answer
  <2>9. ASSUME NEW g \in mOpenFiles'[s] PROVE g.volID \in Given /\ Knows(s, g)'
    <3>1. CASE g = f
      <4>1. Live(a)' => f \in object'[a].mOpenFiles
        BY <2>2, <2>5
      <4> QED
        BY <1>0, <1>3, <2>1, <3>1, <4>1 DEF Sees, Knows, Live
    <3>2. CASE g \in mOpenFiles[s]
      <4>1. g.volID \in Given /\ Knows(s, g) /\ g.volume \in Address
        BY <1>0, <3>2 DEF Sees, TypeOK, Fork
      <4>2. PICK b \in Address : b = g.volume
        BY <4>1
      <4>3. ~Live(b) \/ object[b].id # g.volID \/ g \in object[b].mOpenFiles
        BY <1>0, <4>1, <4>2 DEF Knows
      <4>4. ~Live(b)' \/ object'[b].id # g.volID \/ g \in object'[b].mOpenFiles
        BY <2>5, <2>6, <4>3
      <4> QED
        BY <4>1, <4>2, <4>4 DEF Knows, Live
    <3> QED
      BY <2>7, <2>9, <3>1, <3>2
  <2>10. \A b \in Address : Live(b) => \A g \in Fork : g.session # s =>
            (g \in object[b].mOpenFiles => g \in object'[b].mOpenFiles)
    BY <2>6
  <2> QED
    BY <1>0, <1>3, <2>5, <2>7, <2>8, <2>9, <2>10, FilesIDs
<1> QED
  BY <1>1, <1>2, <1>3 DEF OpenFork_Open, Used

LEMMA RemoveFileIDs ==
    ASSUME IDInv, NEW s \in Session, CloseFile_Remove(s) PROVE IDInv'
<1>0. /\ FileInv' /\ TypeOK /\ request[s].op = "closefile" /\ Sees(s)
      /\ request[s] \in [op : {"closefile", "freefile"}, fork : Fork, ends : BOOLEAN]
      /\ request[s].fork \in mOpenFiles[s] /\ request[s].fork.session = s
  BY RemoveFileStep, RequestFields DEF IDInv, FileInv, ShareInv, FilesOK, CloseFile_Remove
<1>1. PICK f \in Fork : f = request[s].fork
  BY <1>0
<1>2. PICK a \in Address : a = f.volume
  BY DEF Fork
<1>3. CASE Stopped
  BY <1>3, StoppedIDs
<1>4. CASE /\ WithOpenFiles(f.volume, object[f.volume].mOpenFiles \ {f})
           /\ request' = [request EXCEPT ![s].op = "freefile"]
           /\ UNCHANGED <<mOpenVolumes, mOpenFiles, told>> /\ UNCHANGED looperVars
  <2>1. PICK files : files = object[a].mOpenFiles \ {f}
    OBVIOUS
  <2>2. WithOpenFiles(a, files) /\ (Live(a) => files \in SUBSET Fork)
    BY <1>0, <1>2, <1>4, <2>1, LiveType DEF VolumeObject
  <2>3. /\ \A b \in Address : Live(b)' <=> Live(b)
        /\ \A b \in Address : Live(b) =>
               /\ object'[b].id = object[b].id
               /\ object'[b].mOpenFiles = IF b = a THEN files ELSE object[b].mOpenFiles
    BY <1>0, <2>2, WithOpenFilesStep
  <2>4. \A b \in Address : Live(b) =>
           \A g \in object[b].mOpenFiles : g # f => g \in object'[b].mOpenFiles
    BY <2>1, <2>3
  <2>5. /\ request'[s] = [request[s] EXCEPT !.op = "freefile"]
        /\ \A t \in Session : t # s => request'[t] = request[t]
    BY <1>0, <1>4 DEF TypeOK
  <2>6. request'[s].op = "freefile" /\ request'[s].fork = f
    BY <1>0, <1>1, <2>5
  <2>7. ASSUME NEW g \in mOpenFiles'[s] PROVE g.volID \in Given /\ Knows(s, g)'
    <3>1. g.volID \in Given /\ Knows(s, g) /\ g.volume \in Address
      BY <1>0, <1>4, <2>7 DEF Sees, TypeOK, Fork
    <3>2. PICK b \in Address : b = g.volume
      BY <3>1
    <3>3. CASE g = f
      BY <2>6, <3>1, <3>3 DEF Knows
    <3>4. CASE g # f
      <4>1. ~Live(b) \/ object[b].id # g.volID \/ g \in object[b].mOpenFiles
        BY <1>0, <3>1, <3>2 DEF Knows
      <4>2. ~Live(b)' \/ object'[b].id # g.volID \/ g \in object'[b].mOpenFiles
        BY <2>3, <2>4, <3>4, <4>1
      <4> QED
        BY <3>1, <3>2, <4>2 DEF Knows, Live
    <3> QED
      BY <3>3, <3>4
  <2>8. \A b \in Address : Live(b) => \A g \in Fork : g.session # s =>
            (g \in object[b].mOpenFiles => g \in object'[b].mOpenFiles)
    BY <1>0, <1>1, <2>4
  <2>9. \A t \in Session : t # s => request'[t] = request[t] /\ mOpenFiles'[t] = mOpenFiles[t]
    BY <1>4, <2>5
  <2> QED
    BY <1>0, <1>4, <2>3, <2>6, <2>7, <2>8, <2>9, FilesIDs
<1> QED
  BY <1>0, <1>1, <1>3, <1>4 DEF CloseFile_Remove, Used

LEMMA FreeFileIDs ==
    ASSUME IDInv, NEW s \in Session, CloseFile_Free(s) PROVE IDInv'
<1>0. FileInv' /\ TypeOK /\ request[s].op = "freefile" /\ Sees(s)
  BY FreeFileStep DEF IDInv, FileInv, ShareInv, CloseFile_Free
<1>1. UNCHANGED <<looperVars, object, mOpenVolumes, told>>
  BY DEF CloseFile_Free
<1>2. /\ mOpenFiles'[s] = mOpenFiles[s] \ {request[s].fork}
      /\ \A t \in Session : t # s => mOpenFiles'[t] = mOpenFiles[t]
  BY <1>0 DEF CloseFile_Free, TypeOK
<1>3. PICK r : r = IF request[s].ends THEN [op |-> "end"] ELSE Idle
  OBVIOUS
<1>4. /\ request'[s] = r /\ r.op \in {"end", "idle"}
      /\ \A t \in Session : t # s => request'[t] = request[t]
  BY <1>0, <1>3 DEF TypeOK, CloseFile_Free, Idle
<1>5. ASSUME NEW g \in mOpenFiles'[s] PROVE g.volID \in Given /\ Knows(s, g)'
  <2>1. g \in mOpenFiles[s] /\ g # request[s].fork
    BY <1>2, <1>5
  <2> QED
    BY <1>0, <1>1, <2>1 DEF Sees, Knows, Live
<1>6. /\ \A b \in Address : Live(b)' <=> Live(b)
      /\ \A b \in Address : Live(b) => object'[b].id = object[b].id
      /\ \A b \in Address : Live(b) => \A g \in Fork : g.session # s =>
            (g \in object[b].mOpenFiles => g \in object'[b].mOpenFiles)
  BY <1>1 DEF Live
<1>7. request'[s].op \notin {"closevol", "openfork"}
  BY <1>4
<1> QED
  BY <1>0, <1>1, <1>2, <1>4, <1>5, <1>6, <1>7, FilesIDs

LEMMA SessionStepIDs ==
    ASSUME IDInv, NEW s \in Session, SessionStep(s) PROVE IDInv'
<1>0. FileInv' /\ Idle.op = "idle"
  BY SessionStepStep DEF IDInv, Idle
<1>1. CASE Destructor_File(s)
  <2>1. PICK r : r.op = "closefile" /\ request' = [request EXCEPT ![s] = r]
    BY <1>1 DEF Destructor_File
  <2> QED
    BY <1>0, <1>1, <2>1, NewRequestIDs DEF Destructor_File
<1>2. CASE Destructor_Done(s)
  BY <1>0, <1>2, NewRequestIDs DEF Destructor_Done, Answer
<1> QED
  BY <1>1, <1>2, OpenVolIDs, CloseVolIDs, OpenForkIDs, RemoveFileIDs, FreeFileIDs DEF SessionStep

-----------------------------------------------------------------------------
(* What a session has open is known *)

LEMMA InitIDs == Init => IDInv
<1> SUFFICES ASSUME Init PROVE IDInv
  OBVIOUS
<1>1. FileInv
  BY InitFiles
<1>2. \A a \in Address : ~Live(a)
  BY DEF Init, Live
<1>3. NewIDs
  BY <1>2 DEF Init, NewIDs
<1>4. \A s \in Session : Sees(s)
  BY <1>1, <1>2 DEF Init, Sees, Idle, Listed, Range
<1> QED
  BY <1>1, <1>3, <1>4 DEF IDInv

LEMMA NextIDs ==
    ASSUME MaxShares < IDRange, IDInv, [Next]_vars PROVE IDInv'
<1>0. FileInv'
  BY NextFiles DEF IDInv
<1>1. CASE Start
  BY <1>0, <1>1, SameIDs, LooperIDs DEF Start
<1>2. CASE Stop
  BY <1>2, StoppedIDs DEF Stop
<1>3. CASE Application
  BY <1>3, ApplicationIDs
<1>4. ASSUME NEW s \in Session, ClientRequest(s) \/ SessionStep(s) PROVE IDInv'
  BY <1>4, ClientRequestIDs, SessionStepIDs
<1>5. CASE UNCHANGED vars
  BY <1>0, <1>5, SameIDs, LooperIDs DEF vars, looperVars
<1> QED
  BY <1>1, <1>2, <1>3, <1>4, <1>5 DEF Next

LEMMA VolumeFound ==
    ASSUME IDInv, NEW a \in Listed, object[a].id < IDRange \div 2
    PROVE  FindVolumeByID(object[a].id) = {a}
<1>1. TypeOK /\ SharedNamesAreUnique
  BY DEF IDInv, FileInv, ShareInv
<1>2. \A b \in Listed : b \in Address /\ Live(b)
  BY <1>1, ListedIsAddress DEF IDInv, FileInv, ShareInv, ListedAreLive
<1>3. \A b \in Listed : object[b].id = object[a].id => b = a
  BY <1>2 DEF IDInv, NewIDs
<1>4. WithID(object[a].id) = {a}
  BY <1>3 DEF WithID
<1> QED
  BY <1>1, <1>4, FirstOfOne DEF FindVolumeByID

(* As long as the 16 bits of the ID have not gone round, what a session    *)
(* opened is found: a volume by the ID its client was given and did not    *)
(* close, and a file by IsFileOpen, whatever StopSharingVolume deleted in  *)
(* between and whatever was shared at the same address.                    *)
THEOREM OpenKnown ==
    ASSUME MaxShares < IDRange
    PROVE  Spec => []OpenIsKnown
<1>1. IDInv => OpenFilesAreListed
  BY DEF IDInv, Sees, Knows, OpenFilesAreListed
<1>2. IDInv => OpenVolumesAreFound
  BY VolumeFound DEF IDInv, Sees, OpenVolumesAreFound
<1>3. IDInv => OpenIsKnown
  BY <1>1, <1>2 DEF OpenIsKnown
<1>4. IDInv /\ [Next]_vars => IDInv'
  BY NextIDs
<1> QED
  BY InitIDs, <1>3, <1>4, PTL DEF Spec

=============================================================================
