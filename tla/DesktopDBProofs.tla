--------------------------- MODULE DesktopDBProofs ---------------------------
(***************************************************************************)
(* Proofs about DesktopDB for any sessions, creators, kinds, objects and   *)
(* comments, and any number of entries.                                    *)
(***************************************************************************)
EXTENDS DesktopDB, FiniteSetTheorems, SequenceTheorems, WellFoundedInduction, TLAPS

(* A set of places has a first one.                                        *)
LEMMA MinIsLeast ==
    ASSUME NEW S \in SUBSET Nat, S # {}
    PROVE  Min(S) \in S /\ \A n \in S : Min(S) <= n
<1>1. PICK m \in S : \A n \in S : ~(<<n, m>> \in OpToRel(<, Nat))
  BY NatLessThanWellFounded, WFMin
<1>2. ASSUME NEW n \in S, n < m PROVE FALSE
  <2>1. <<n, m>> \in Nat \X Nat /\ <<n, m>>[1] < <<n, m>>[2]
    BY <1>2
  <2>2. <<n, m>> \in OpToRel(<, Nat)
    BY <2>1, Zenon DEF OpToRel
  <2> QED
    BY <1>1, <2>2
<1>3. \A n \in S : m <= n
  BY <1>2
<1> QED
  BY <1>3 DEF Min

(* BList::RemoveItem or std::vector::erase yields a list of the same kind, *)
(* one shorter.                                                            *)
LEMMA RemoveAtType ==
    ASSUME NEW S, NEW q \in Seq(S), NEW i \in DOMAIN q
    PROVE  /\ RemoveAt(q, i) \in Seq(S)
           /\ Len(RemoveAt(q, i)) = Len(q) - 1
           /\ \A j \in DOMAIN RemoveAt(q, i) :
                  RemoveAt(q, i)[j] = IF j < i THEN q[j] ELSE q[j + 1]
<1> DEFINE a == SubSeq(q, 1, i - 1)
           b == SubSeq(q, i + 1, Len(q))
<1>0. Len(q) \in Nat /\ i \in 1..Len(q) /\ DOMAIN q = 1..Len(q)
  OBVIOUS
<1>1. a \in Seq(S) /\ Len(a) = i - 1 /\ \A j \in 1..i-1 : a[j] = q[j]
  BY <1>0
<1>2. b \in Seq(S) /\ Len(b) = Len(q) - i /\ \A j \in 1..Len(q)-i : b[j] = q[j + i]
  BY <1>0
<1> HIDE DEF a, b
<1>3. /\ a \o b \in Seq(S) /\ Len(a \o b) = Len(a) + Len(b)
      /\ \A j \in 1..Len(a)+Len(b) : (a \o b)[j] = IF j <= Len(a) THEN a[j] ELSE b[j - Len(a)]
  BY <1>1, <1>2, ConcatProperties
<1>4. RemoveAt(q, i) = a \o b
  BY DEF RemoveAt, a, b
<1>5. ASSUME NEW j \in 1..Len(q)-1 PROVE (a \o b)[j] = IF j < i THEN q[j] ELSE q[j + 1]
  <2>1. CASE j < i
    <3>1. j \in 1..i-1 /\ j \in 1..Len(a)+Len(b) /\ j <= Len(a)
      BY <1>0, <1>1, <1>2, <2>1
    <3>2. (a \o b)[j] = a[j]
      BY <1>3, <3>1
    <3> QED
      BY <1>1, <3>1, <3>2, <2>1
  <2>2. CASE ~(j < i)
    <3>1. Len(a) = i - 1 /\ j \in 1..Len(a)+Len(b) /\ ~(j <= Len(a))
      BY <1>0, <1>1, <1>2, <2>2
    <3>2. (a \o b)[j] = b[j - Len(a)]
      BY <1>3, <3>1
    <3>3. j - Len(a) \in 1..Len(q)-i /\ j - Len(a) + i = j + 1
      BY <1>0, <3>1, <2>2
    <3> QED
      BY <1>2, <3>2, <3>3, <2>2
  <2> QED
    BY <2>1, <2>2
<1>6. Len(a) + Len(b) = Len(q) - 1
  BY <1>0, <1>1, <1>2
<1>7. a \o b \in Seq(S) /\ Len(a \o b) = Len(q) - 1
  BY <1>3, <1>6
<1>8. DOMAIN (a \o b) = 1..Len(q)-1
  BY <1>7
<1> QED
  BY <1>4, <1>5, <1>7, <1>8

(* What remains of a list when one item is removed: every other item, and  *)
(* nothing new; of a list without repetitions, not the item.               *)
LEMMA RemoveAtRange ==
    ASSUME NEW S, NEW q \in Seq(S), NEW i \in DOMAIN q
    PROVE  /\ \A x \in Range(q) : x # q[i] => x \in Range(RemoveAt(q, i))
           /\ Range(RemoveAt(q, i)) \subseteq Range(q)
           /\ (\A j, k \in DOMAIN q : j # k => q[j] # q[k])
                  => /\ q[i] \notin Range(RemoveAt(q, i))
                     /\ \A j, k \in DOMAIN RemoveAt(q, i) :
                            j # k => RemoveAt(q, i)[j] # RemoveAt(q, i)[k]
<1> DEFINE p == RemoveAt(q, i)
<1>0. Len(q) \in Nat /\ i \in 1..Len(q) /\ DOMAIN q = 1..Len(q)
  OBVIOUS
<1>1. /\ DOMAIN p = 1..Len(q)-1
      /\ \A j \in 1..Len(q)-1 : p[j] = IF j < i THEN q[j] ELSE q[j + 1]
  <2>1. /\ p \in Seq(S) /\ Len(p) = Len(q) - 1
        /\ \A j \in DOMAIN p : p[j] = IF j < i THEN q[j] ELSE q[j + 1]
    BY RemoveAtType
  <2> HIDE DEF p
  <2>2. DOMAIN p = 1..Len(q)-1
    BY <2>1
  <2> QED
    BY <2>1, <2>2
<1> HIDE DEF p
<1>2. \A x \in Range(q) : x # q[i] => x \in Range(p)
  <2> SUFFICES ASSUME NEW j \in 1..Len(q), q[j] # q[i] PROVE q[j] \in Range(p)
    BY <1>0 DEF Range
  <2>1. CASE j < i
    <3>1. j \in 1..Len(q)-1 /\ p[j] = q[j]
      BY <1>0, <1>1, <2>1
    <3> QED
      BY <1>1, <3>1 DEF Range
  <2>2. CASE ~(j < i)
    <3>1. j # i
      OBVIOUS
    <3>2. j - 1 \in 1..Len(q)-1 /\ ~(j - 1 < i) /\ j - 1 + 1 = j
      BY <1>0, <2>2, <3>1
    <3>3. p[j - 1] = q[j]
      BY <1>1, <3>2
    <3> QED
      BY <1>1, <3>2, <3>3 DEF Range
  <2> QED
    BY <2>1, <2>2
<1>3. Range(p) \subseteq Range(q)
  <2> SUFFICES ASSUME NEW j \in 1..Len(q)-1 PROVE p[j] \in Range(q)
    BY <1>1 DEF Range
  <2>1. j \in DOMAIN q /\ j + 1 \in DOMAIN q
    BY <1>0
  <2> QED
    BY <1>1, <2>1 DEF Range
<1>4. ASSUME \A j, k \in DOMAIN q : j # k => q[j] # q[k]
      PROVE  /\ q[i] \notin Range(p)
             /\ \A j, k \in DOMAIN p : j # k => p[j] # p[k]
  <2>1. \A j \in 1..Len(q)-1 : p[j] # q[i]
    BY <1>0, <1>1, <1>4
  <2>2. \A j, k \in 1..Len(q)-1 : j # k => p[j] # p[k]
    BY <1>0, <1>1, <1>4
  <2> QED
    BY <1>1, <2>1, <2>2 DEF Range
<1> QED
  BY <1>2, <1>3, <1>4 DEF p

(* Appending adds one item.                                                *)
LEMMA AppendRange ==
    ASSUME NEW S, NEW q \in Seq(S), NEW x \in S
    PROVE  /\ Append(q, x) \in Seq(S) /\ Len(Append(q, x)) = Len(q) + 1
           /\ Range(Append(q, x)) = Range(q) \cup {x}
           /\ \A j \in DOMAIN q : Append(q, x)[j] = q[j]
           /\ DOMAIN Append(q, x) = DOMAIN q \cup {Len(q) + 1}
           /\ Append(q, x)[Len(q) + 1] = x
<1>0. Len(q) \in Nat /\ DOMAIN q = 1..Len(q)
  OBVIOUS
<1>1. /\ Append(q, x) \in Seq(S) /\ Len(Append(q, x)) = Len(q) + 1
      /\ DOMAIN Append(q, x) = 1..Len(q)+1
      /\ \A j \in 1..Len(q) : Append(q, x)[j] = q[j]
      /\ Append(q, x)[Len(q) + 1] = x
  OBVIOUS
<1>2. \A j \in 1..Len(q)+1 : j \in 1..Len(q) \/ j = Len(q) + 1
  BY <1>0
<1>3. \A j \in 1..Len(q) : j \in 1..Len(q)+1
  BY <1>0
<1>4. Len(q) + 1 \in 1..Len(q)+1
  BY <1>0
<1>5. \A y \in Range(Append(q, x)) : y \in Range(q) \cup {x}
  BY <1>0, <1>1, <1>2 DEF Range
<1>6. \A y \in Range(q) \cup {x} : y \in Range(Append(q, x))
  BY <1>0, <1>1, <1>3, <1>4 DEF Range
<1>7. 1..Len(q)+1 = (1..Len(q)) \cup {Len(q) + 1}
  BY <1>0
<1> QED
  BY <1>0, <1>1, <1>5, <1>6, <1>7

-----------------------------------------------------------------------------
(* The inductive invariant *)

Entry == DesktopEntry \cup Garbled
Header == {NoHeader} \cup [iconCount : 0 .. MaxEntries, applCount : 0 .. MaxEntries]
File == [there : {TRUE}, header : Header, entries : Seq(Entry)]

Step == {"header", "entries", "resize"}
Passing == [at : {"idle", "create", "zero", "open"}]
Commenting == [at : {"comment"}, object : Object, text : Comment \cup {Blank, None}]
Rewriting == [at : Step, image : Seq(Entry), entry : DesktopEntry, removes : BOOLEAN,
              old : Seq(Entry)]

Typed ==
    /\ file \in {NoFile} \cup File
    /\ file.there => Len(file.entries) <= MaxEntries
    /\ comment \in [Object -> Comment \cup {Blank, None}]
    /\ request \in [Session -> Passing \cup Commenting \cup Rewriting]
    /\ mNextDeskRef \in [Session -> 1 .. MaxDeskRefs + 1]
    /\ mOpenDesks \in [Session -> SUBSET Nat]
    /\ counted \in BOOLEAN /\ sound \in BOOLEAN

(* A desktop that is open, or about to be, has a file and a number.        *)
Opened(s) ==
    /\ mOpenDesks[s] \subseteq 1 .. mNextDeskRef[s] - 1
    /\ request[s].at \in {"create", "zero", "open"} => mNextDeskRef[s] <= MaxDeskRefs
    /\ request[s].at \in {"zero", "open"} \cup Step \/ mOpenDesks[s] # {} => file.there

(* The array of an operation is the old one with one entry added, replaced *)
(* or removed.                                                             *)
FirstOf(list, e, p) ==
    /\ p \in DOMAIN list /\ KeyOf(list[p]) = KeyOf(e)
    /\ \A i \in DOMAIN list : KeyOf(list[i]) = KeyOf(e) => p <= i

Made(list, r) ==
    \/ /\ ~r.removes /\ r.image = Append(list, r.entry)
       /\ \A i \in DOMAIN list : KeyOf(list[i]) # KeyOf(r.entry)
    \/ \E p \in DOMAIN list :
          /\ FirstOf(list, r.entry, p)
          /\ \/ ~r.removes /\ r.image = [list EXCEPT ![p] = r.entry]
             \/ r.removes /\ list[p] = r.entry /\ r.image = RemoveAt(list, p)

(* Every entry is one, and no other has its key.                           *)
Keyed(list) ==
    /\ list \in Seq(DesktopEntry)
    /\ \A i, j \in DOMAIN list : KeyOf(list[i]) = KeyOf(list[j]) => i = j

(* The array is in the file, and at most what was behind it.               *)
Begins(r) ==
    /\ Len(r.image) <= Len(file.entries) /\ Len(file.entries) <= Len(r.image) + 1
    /\ counted \/ sound => \A i \in DOMAIN r.image : file.entries[i] = r.image[i]

(* What is true of an operation between its writes.                        *)
Fits(r) ==
    /\ r.at \in Step => Len(r.image) <= MaxEntries
    /\ r.at = "header" => Made(file.entries, r)
    /\ r.at = "entries" =>
          /\ Made(r.old, r) /\ Len(r.old) <= MaxEntries
          /\ file.entries = r.old \/ Len(file.entries) = Len(r.old) - 1
          /\ counted => file.header = Counts(r.image)
          /\ sound => Keyed(r.old)
    /\ r.at = "resize" =>
          /\ r.removes /\ Begins(r)
          /\ counted => file.header = Counts(r.image)
          /\ sound =>
                /\ Keyed(r.image) /\ r.entry \notin Range(r.image)
                /\ \A i \in DOMAIN r.image : KeyOf(r.image[i]) # KeyOf(r.entry)
                /\ Range(file.entries) \subseteq Range(r.image) \cup {r.entry}

(* The file when no entries are being written.                             *)
Resting == \A s \in Session : request[s].at \notin {"entries", "resize"}
FileFits ==
    Resting /\ file.there =>
        /\ counted => file.header \in {NoHeader, Counts(file.entries)}
        /\ sound => Keyed(file.entries)

OneWriter == \A s, t \in Session : Writing(s) /\ Writing(t) => s = t

IInv ==
    /\ Typed /\ OneWriter /\ FileFits
    /\ \A s \in Session : Opened(s) /\ Fits(request[s])

-----------------------------------------------------------------------------
(* Lemmas about entries and keys *)

LEMMA EntryFields ==
    ASSUME NEW e \in DesktopEntry
    PROVE  /\ e \in Entry /\ e.fileCreator \in Creator /\ e.fileCreator # None
           /\ e.entryType = "ICON" \/ (e.entryType = "APPL" /\ e.kind = None)
           /\ e.entryType = "ICON" => e \in Icon /\ e.dataSize # 0
           /\ e.entryType = "APPL" => e \in Appl
BY NoneAssumption, SizeAssumption DEF DesktopEntry, Entry, Icon, Appl

(* What is read where no entry begins has no key of an entry.              *)
LEMMA GarbledFields ==
    ASSUME NEW e \in Garbled
    PROVE  e.fileCreator = None /\ e \in Entry
BY DEF Garbled, Entry

LEMMA KeyEquality ==
    ASSUME NEW e, NEW x
    PROVE  KeyOf(x) = KeyOf(e) <=> /\ x.entryType = e.entryType
                                   /\ x.fileCreator = e.fileCreator /\ x.kind = e.kind
BY DEF KeyOf

(* The comparisons of the search compare keys.                             *)
LEMMA MatchIsKey ==
    ASSUME NEW e \in DesktopEntry, NEW x \in Entry, NEW i \in Nat \ {0}
    PROVE  Matches(e, 0, x, i) <=> KeyOf(x) = KeyOf(e)
<1>1. i # 0
  OBVIOUS
<1>2. CASE e.entryType = "ICON"
  BY <1>1, <1>2, EntryFields, KeyEquality DEF Matches, EqualIcon
<1>3. CASE e.entryType = "APPL"
  <2>1. CASE x \in DesktopEntry
    BY <1>3, <2>1, EntryFields, KeyEquality DEF Matches, EqualAppl
  <2>2. CASE x \in Garbled
    BY <1>3, <2>2, EntryFields, GarbledFields, KeyEquality DEF Matches, EqualAppl
  <2> QED
    BY <2>1, <2>2 DEF Entry
<1> QED
  BY <1>2, <1>3, EntryFields

-----------------------------------------------------------------------------
(* Lemmas about the counts and the search *)

LEMMA NumberType ==
    ASSUME NEW list \in Seq(Entry), NEW type
    PROVE  /\ Number(list, type) \in Nat /\ Number(list, type) <= Len(list)
           /\ \A S \in SUBSET DOMAIN list :
                 (\A i \in S : list[i].entryType = type) => Cardinality(S) <= Number(list, type)
<1> DEFINE T == {i \in DOMAIN list : list[i].entryType = type}
<1>1. Len(list) \in Nat /\ DOMAIN list = 1..Len(list)
  OBVIOUS
<1>2. IsFiniteSet(DOMAIN list) /\ Cardinality(DOMAIN list) = Len(list)
  BY <1>1, FS_Interval
<1>3. T \subseteq DOMAIN list
  OBVIOUS
<1>4. IsFiniteSet(T) /\ Cardinality(T) \in Nat /\ Cardinality(T) <= Len(list)
  BY <1>2, <1>3, FS_Subset, FS_CardinalityType
<1>5. ASSUME NEW S \in SUBSET DOMAIN list, \A i \in S : list[i].entryType = type
      PROVE  Cardinality(S) <= Cardinality(T)
  <2>1. S \subseteq T
    BY <1>5
  <2> QED
    BY <1>4, <2>1, FS_Subset
<1> QED
  BY <1>4, <1>5 DEF Number

LEMMA CountsType ==
    ASSUME NEW list \in Seq(Entry), Len(list) <= MaxEntries
    PROVE  Counts(list) \in Header
<1>1. Number(list, "ICON") \in 0..MaxEntries /\ Number(list, "APPL") \in 0..MaxEntries
  BY NumberType, BoundAssumption
<1> QED
  BY <1>1 DEF Counts, Header

LEMMA ZerosType ==
    /\ Zeros \in Header /\ NoHeader \in Header
    /\ Zeros = Counts(<<>>)
<1>1. 0 \in 0..MaxEntries
  BY BoundAssumption
<1>2. \A type : Number(<<>>, type) = 0
  BY FS_EmptySet DEF Number
<1> QED
  BY <1>1, <1>2 DEF Zeros, NoHeader, Header, Counts

(* The counts of the search are never negative.                            *)
LEMMA SearchCounts ==
    ASSUME NEW db \in File
    PROVE  LET c == afp_CountDesktopItems(db) IN c.iconCount \in Nat /\ c.applCount \in Nat
<1>1. db.header \in Header /\ db.entries \in Seq(Entry)
  BY DEF File
<1>2. Counts(db.entries).iconCount \in Nat /\ Counts(db.entries).applCount \in Nat
  BY <1>1, NumberType DEF Counts
<1> QED
  BY <1>1, <1>2 DEF afp_CountDesktopItems, Header

(* The loop of afp_FindDTEntry stops at the first match.                   *)
LEMMA FirstMatch ==
    ASSUME NEW S \in SUBSET Nat, S # {}
    PROVE  LET p == CHOOSE i \in S : \A j \in S : i <= j IN p \in S /\ \A j \in S : p <= j
BY MinIsLeast DEF Min

(* afp_FindDTEntry, told an entry, finds the first with its key.           *)
LEMMA FindsKey ==
    ASSUME NEW db \in File, NEW e \in DesktopEntry
    PROVE  LET p == afp_FindDTEntry(db, e, 0) IN
           \/ p = 0 /\ \A i \in DOMAIN db.entries : KeyOf(db.entries[i]) # KeyOf(e)
           \/ p # 0 /\ FirstOf(db.entries, e, p)
<1> DEFINE list == db.entries
           found == {i \in DOMAIN list : Matches(e, 0, list[i], i)}
           counts == afp_CountDesktopItems(db)
           count == IF e.entryType = "ICON" THEN counts.iconCount ELSE counts.applCount
<1>1. list \in Seq(Entry)
  BY DEF File
<1>2. DOMAIN list = 1..Len(list) /\ Len(list) \in Nat
  BY <1>1
<1>3. ~(0 > count)
  BY SearchCounts
<1>4. \A i \in DOMAIN list : Matches(e, 0, list[i], i) <=> KeyOf(list[i]) = KeyOf(e)
  BY <1>1, <1>2, MatchIsKey
<1>5. afp_FindDTEntry(db, e, 0) =
         IF found = {} THEN 0 ELSE CHOOSE i \in found : \A j \in found : i <= j
  BY <1>3 DEF afp_FindDTEntry
<1> HIDE DEF found, count, list
<1>6. CASE found = {}
  BY <1>4, <1>5, <1>6 DEF found, list
<1>7. CASE found # {}
  <2>1. found \in SUBSET Nat /\ 0 \notin found
    BY <1>2 DEF found
  <2>2. PICK p : p = CHOOSE i \in found : \A j \in found : i <= j
    OBVIOUS
  <2>3. p \in found /\ \A j \in found : p <= j
    BY <1>7, <2>1, <2>2, FirstMatch
  <2>4. FirstOf(list, e, p) /\ p # 0
    BY <1>4, <2>1, <2>3 DEF found, FirstOf
  <2> QED
    BY <1>5, <1>7, <2>2, <2>4 DEF list
<1> QED
  BY <1>6, <1>7

(* The entry that FPRemoveAPPL finds is one, and the first with its key.   *)
LEMMA FindsAppl ==
    ASSUME NEW db \in File, NEW creator \in Creator, FPGetAPPL(db, creator, 0) # 0
    PROVE  LET p == FPGetAPPL(db, creator, 0) IN
           p \in DOMAIN db.entries /\ db.entries[p] \in DesktopEntry
           /\ FirstOf(db.entries, db.entries[p], p)
<1> DEFINE list == db.entries
           s == [entryType |-> "APPL", fileCreator |-> creator, kind |-> None, dataSize |-> 0]
           found == {i \in DOMAIN list : Matches(s, 0, list[i], i)}
           counts == afp_CountDesktopItems(db)
           count == IF s.entryType = "ICON" THEN counts.iconCount ELSE counts.applCount
<1>1. list \in Seq(Entry)
  BY DEF File
<1>2. DOMAIN list = 1..Len(list) /\ Len(list) \in Nat
  BY <1>1
<1>3. \A x \in Entry, i \in Nat : Matches(s, 0, x, i) <=>
         x \in DesktopEntry /\ x.entryType = "APPL" /\ x.fileCreator = creator
  <2> SUFFICES ASSUME NEW x \in Entry, NEW i \in Nat
               PROVE  Matches(s, 0, x, i) <=>
                        x \in DesktopEntry /\ x.entryType = "APPL" /\ x.fileCreator = creator
    OBVIOUS
  <2>1. Matches(s, 0, x, i) <=> x.entryType = "APPL" /\ x.fileCreator = creator
    BY DEF Matches, EqualAppl
  <2>2. x.fileCreator = creator => x \in DesktopEntry
    BY GarbledFields, NoneAssumption DEF Entry
  <2> QED
    BY <2>1, <2>2
<1>4. FPGetAPPL(db, creator, 0) = CHOOSE i \in found : \A j \in found : i <= j
  BY DEF FPGetAPPL, afp_FindDTEntry
<1>5. found # {}
  BY DEF FPGetAPPL, afp_FindDTEntry
<1> HIDE DEF s, list
<1>6. found \in SUBSET Nat
  BY <1>2
<1>7. PICK p : p = FPGetAPPL(db, creator, 0)
  OBVIOUS
<1>8. p \in found /\ \A j \in found : p <= j
  BY <1>4, <1>5, <1>6, <1>7, FirstMatch
<1>9. /\ p \in DOMAIN list /\ list[p] \in DesktopEntry
      /\ list[p].entryType = "APPL" /\ list[p].fileCreator = creator
  BY <1>1, <1>2, <1>3, <1>8
<1>10. ASSUME NEW i \in DOMAIN list, KeyOf(list[i]) = KeyOf(list[p]) PROVE p <= i
  <2>1. list[i].entryType = "APPL" /\ list[i].fileCreator = creator /\ list[i] \in Entry
    BY <1>1, <1>9, <1>10, KeyEquality
  <2>2. list[i] \in DesktopEntry
    BY <2>1, GarbledFields, NoneAssumption DEF Entry
  <2> QED
    BY <1>1, <1>2, <1>3, <1>8, <2>1, <2>2
<1> QED
  BY <1>7, <1>9, <1>10 DEF FirstOf, list

-----------------------------------------------------------------------------
(* Lemmas about the arrays of the operations *)

LEMMA RewritingFields ==
    ASSUME NEW r \in Rewriting
    PROVE  /\ r.at \in Step /\ r.image \in Seq(Entry) /\ r.entry \in DesktopEntry
           /\ r.removes \in BOOLEAN /\ r.old \in Seq(Entry)
BY DEF Rewriting

(* The array of an operation has the length to be expected; of an array of *)
(* entries with different keys it is one, too.                             *)
LEMMA MadeAppended ==
    ASSUME NEW list \in Seq(Entry), NEW e \in DesktopEntry,
           \A i \in DOMAIN list : KeyOf(list[i]) # KeyOf(e)
    PROVE  /\ Len(Append(list, e)) = Len(list) + 1
           /\ Keyed(list) => /\ Keyed(Append(list, e))
                             /\ Range(Append(list, e)) =
                                  {v \in Range(list) : KeyOf(v) # KeyOf(e)} \cup {e}
<1> DEFINE image == Append(list, e)
           n == Len(list)
<1>1. n \in Nat /\ DOMAIN list = 1..n /\ e \in Entry
  BY EntryFields
<1>2. /\ Len(image) = n + 1 /\ Range(image) = Range(list) \cup {e}
      /\ \A j \in DOMAIN list : image[j] = list[j]
      /\ DOMAIN image = DOMAIN list \cup {n + 1} /\ image[n + 1] = e
  BY <1>1, AppendRange
<1>3. ASSUME Keyed(list) PROVE image \in Seq(DesktopEntry)
  BY <1>3, AppendRange DEF Keyed
<1> HIDE DEF image, n
<1>4. ASSUME Keyed(list) PROVE Keyed(image)
  BY <1>2, <1>3, <1>4 DEF Keyed
<1>5. \A v \in Range(list) : KeyOf(v) # KeyOf(e)
  BY DEF Range
<1> QED
  BY <1>2, <1>4, <1>5 DEF image, n

LEMMA MadeReplaced ==
    ASSUME NEW list \in Seq(Entry), NEW e \in DesktopEntry, NEW p, FirstOf(list, e, p)
    PROVE  LET image == [list EXCEPT ![p] = e] IN
           /\ Len(image) = Len(list)
           /\ Keyed(list) => /\ Keyed(image)
                             /\ Range(image) =
                                  {v \in Range(list) : KeyOf(v) # KeyOf(e)} \cup {e}
<1> DEFINE image == [list EXCEPT ![p] = e]
           n == Len(list)
<1>1. n \in Nat /\ DOMAIN list = 1..n /\ e \in Entry /\ p \in 1..n /\ KeyOf(list[p]) = KeyOf(e)
  BY EntryFields DEF FirstOf
<1>2. /\ Len(image) = n /\ DOMAIN image = 1..n /\ image[p] = e
      /\ \A j \in 1..n : j # p => image[j] = list[j]
  BY <1>1
<1>3. ASSUME Keyed(list) PROVE image \in Seq(DesktopEntry)
  BY <1>1, <1>3 DEF Keyed
<1> HIDE DEF image, n
<1>4. ASSUME Keyed(list) PROVE Keyed(image)
  BY <1>1, <1>2, <1>3, <1>4 DEF Keyed
<1>5. ASSUME Keyed(list)
      PROVE  Range(image) = {v \in Range(list) : KeyOf(v) # KeyOf(e)} \cup {e}
  <2>1. \A v \in Range(image) : v \in {w \in Range(list) : KeyOf(w) # KeyOf(e)} \cup {e}
    <3> SUFFICES ASSUME NEW j \in 1..n
                 PROVE  image[j] \in {w \in Range(list) : KeyOf(w) # KeyOf(e)} \cup {e}
      BY <1>2 DEF Range
    <3>1. CASE j = p
      BY <1>2, <3>1
    <3>2. CASE j # p
      BY <1>1, <1>2, <1>5, <3>2 DEF Keyed, Range
    <3> QED
      BY <3>1, <3>2
  <2>2. \A v \in Range(list) : KeyOf(v) # KeyOf(e) => v \in Range(image)
    BY <1>1, <1>2 DEF Range
  <2>3. e \in Range(image)
    BY <1>1, <1>2 DEF Range
  <2> QED
    BY <2>1, <2>2, <2>3
<1> QED
  BY <1>2, <1>4, <1>5 DEF image, n

LEMMA MadeRemoved ==
    ASSUME NEW list \in Seq(Entry), NEW p \in DOMAIN list
    PROVE  LET image == RemoveAt(list, p) IN
           /\ image \in Seq(Entry) /\ Len(image) = Len(list) - 1
           /\ Keyed(list) => /\ Keyed(image)
                             /\ Range(image) =
                                  {v \in Range(list) : KeyOf(v) # KeyOf(list[p])}
                             /\ \A i \in DOMAIN image : KeyOf(image[i]) # KeyOf(list[p])
<1> DEFINE image == RemoveAt(list, p)
           n == Len(list)
<1>1. n \in Nat /\ DOMAIN list = 1..n /\ p \in 1..n
  OBVIOUS
<1>2. /\ image \in Seq(Entry) /\ Len(image) = n - 1
      /\ \A j \in DOMAIN image : image[j] = IF j < p THEN list[j] ELSE list[j + 1]
  BY RemoveAtType
<1>3. DOMAIN image = 1..n-1
  BY <1>1, <1>2
<1>4. ASSUME Keyed(list) PROVE image \in Seq(DesktopEntry)
  BY <1>4, RemoveAtType DEF Keyed
<1>5. \A v \in Range(list) : v # list[p] => v \in Range(image)
  BY RemoveAtRange
<1> HIDE DEF image, n
<1> DEFINE to(j) == IF j < p THEN j ELSE j + 1
<1>6. \A j \in 1..n-1 : to(j) \in 1..n /\ to(j) # p /\ image[j] = list[to(j)]
  BY <1>1, <1>2, <1>3
<1>7. \A i, j \in 1..n-1 : to(i) = to(j) => i = j
  BY <1>1
<1> HIDE DEF to
<1>8. ASSUME Keyed(list)
      PROVE  /\ Keyed(image)
             /\ \A i \in DOMAIN image : KeyOf(image[i]) # KeyOf(list[p])
             /\ Range(image) = {v \in Range(list) : KeyOf(v) # KeyOf(list[p])}
  <2>1. Keyed(image)
    BY <1>1, <1>3, <1>4, <1>6, <1>7, <1>8 DEF Keyed
  <2>2. \A i \in DOMAIN image : KeyOf(image[i]) # KeyOf(list[p])
    BY <1>1, <1>3, <1>6, <1>8 DEF Keyed
  <2>3. \A v \in Range(image) : v \in Range(list) /\ KeyOf(v) # KeyOf(list[p])
    BY <1>1, <1>3, <1>6, <2>2 DEF Range
  <2> QED
    BY <1>5, <2>1, <2>2, <2>3
<1> QED
  BY <1>2, <1>8 DEF image, n

LEMMA MadeFacts ==
    ASSUME NEW list \in Seq(Entry), NEW r \in Rewriting, Made(list, r)
    PROVE  /\ r.removes => Len(r.image) = Len(list) - 1 /\ r.entry \in Range(list)
           /\ ~r.removes => Len(r.image) \in {Len(list), Len(list) + 1}
           /\ Keyed(list) =>
                /\ Keyed(r.image)
                /\ Range(r.image) = {v \in Range(list) : KeyOf(v) # KeyOf(r.entry)}
                                       \cup (IF r.removes THEN {} ELSE {r.entry})
                /\ r.removes => \A i \in DOMAIN r.image : KeyOf(r.image[i]) # KeyOf(r.entry)
<1>1. r.entry \in DesktopEntry
  BY RewritingFields
<1>2. CASE ~r.removes /\ r.image = Append(list, r.entry)
           /\ \A i \in DOMAIN list : KeyOf(list[i]) # KeyOf(r.entry)
  BY <1>1, <1>2, MadeAppended
<1>3. CASE \E p \in DOMAIN list : FirstOf(list, r.entry, p) /\ ~r.removes
                                  /\ r.image = [list EXCEPT ![p] = r.entry]
  <2>1. PICK p \in DOMAIN list : FirstOf(list, r.entry, p) /\ ~r.removes
                                  /\ r.image = [list EXCEPT ![p] = r.entry]
    BY <1>3
  <2>2. PICK e \in DesktopEntry : e = r.entry
    BY <1>1
  <2>3. PICK image : image = [list EXCEPT ![p] = e]
    OBVIOUS
  <2>4. /\ Len(image) = Len(list)
        /\ Keyed(list) => /\ Keyed(image)
                          /\ Range(image) = {v \in Range(list) : KeyOf(v) # KeyOf(e)} \cup {e}
    BY <2>1, <2>2, <2>3, MadeReplaced
  <2> QED
    BY <2>1, <2>2, <2>3, <2>4
<1>4. CASE \E p \in DOMAIN list : r.removes /\ list[p] = r.entry /\ r.image = RemoveAt(list, p)
  <2>1. PICK p \in DOMAIN list : list[p] = r.entry /\ r.image = RemoveAt(list, p)
    BY <1>4
  <2>2. r.entry \in Range(list)
    BY <2>1 DEF Range
  <2> QED
    BY <1>4, <2>1, <2>2, MadeRemoved
<1> QED
  BY <1>2, <1>3, <1>4 DEF Made

(* A write of the array over the entries.                                  *)
LEMMA Overwritten ==
    ASSUME NEW a \in Seq(Entry), NEW b \in Seq(Entry), Len(b) <= Len(a) + 1
    PROVE  LET c == a \o SubSeq(b, Len(a) + 1, Len(b)) IN
           /\ c \in Seq(Entry)
           /\ Len(b) <= Len(a) => c = a
           /\ Len(b) = Len(a) + 1 => Len(c) = Len(a) + 1 /\ c[Len(a) + 1] = b[Len(b)]
           /\ \A i \in 1..Len(a) : c[i] = a[i]
<1> DEFINE t == SubSeq(b, Len(a) + 1, Len(b))
<1>1. Len(a) \in Nat /\ Len(b) \in Nat
  OBVIOUS
<1>2. CASE Len(b) <= Len(a)
  <2>1. t = <<>>
    BY <1>1, <1>2
  <2>2. a \o <<>> = a
    OBVIOUS
  <2> QED
    BY <1>1, <1>2, <2>1, <2>2
<1>3. CASE Len(b) = Len(a) + 1
  <2>1. b[Len(b)] \in Entry
    BY <1>1, <1>3
  <2>2. t \in Seq(Entry) /\ Len(t) = 1 /\ t[1] = b[Len(b)]
    BY <1>1, <1>3
  <2> HIDE DEF t
  <2>3. /\ a \o t \in Seq(Entry) /\ Len(a \o t) = Len(a) + Len(t)
        /\ \A i \in 1..Len(a)+Len(t) :
              (a \o t)[i] = IF i <= Len(a) THEN a[i] ELSE t[i - Len(a)]
    BY <2>2, ConcatProperties
  <2>4. (a \o t)[Len(a) + 1] = t[1]
    BY <1>1, <2>2, <2>3
  <2>5. \A i \in 1..Len(a) : (a \o t)[i] = a[i]
    BY <1>1, <2>2, <2>3
  <2> QED
    BY <1>3, <2>2, <2>3, <2>4, <2>5 DEF t
<1> QED
  BY <1>1, <1>2, <1>3

-----------------------------------------------------------------------------
(* The steps *)

Request == Passing \cup Commenting \cup Rewriting

LEMMA RequestOf ==
    ASSUME IInv, NEW s \in Session
    PROVE  /\ request[s] \in Request /\ Opened(s) /\ Fits(request[s])
           /\ Writing(s) => request[s] \in Rewriting /\ file \in File /\ file.there
           /\ request[s].at \in {"zero", "open"} => file \in File /\ file.there
           /\ mOpenDesks[s] # {} => file \in File /\ file.there
           /\ request[s].at = "comment" => request[s] \in Commenting
           /\ request[s].at = "idle" => ~Writing(s)
<1>1. request[s] \in Request /\ Opened(s) /\ Fits(request[s])
  BY DEF IInv, Typed, Request
<1>2. Writing(s) <=> request[s].at \in Step
  BY DEF Writing, Step
<1>3. file.there => file \in File
  BY DEF IInv, Typed, NoFile
<1>4. Writing(s) => request[s] \in Rewriting
  BY <1>1, <1>2 DEF Request, Passing, Commenting, Step
<1>5. request[s].at = "comment" => request[s] \in Commenting
  BY <1>1 DEF Request, Passing, Rewriting, Step
<1>6. request[s].at = "idle" => ~Writing(s)
  BY DEF Writing
<1> QED
  BY <1>1, <1>2, <1>3, <1>4, <1>5, <1>6 DEF Opened

OthersFit(s) == \A t \in Session \ {s} : Fits(request[t])

(* What is to be shown of a step of a session.                             *)
LEMMA StepKeeps ==
    ASSUME IInv, NEW s \in Session, NEW q \in Request,
           request' = [request EXCEPT ![s] = q], Typed', Opened(s)', FileFits',
           Fits(q)', OthersFit(s)',
           \A t \in Session \ {s} :
              mOpenDesks'[t] = mOpenDesks[t] /\ mNextDeskRef'[t] = mNextDeskRef[t],
           file.there => file'.there,
           q.at \in Step => Writing(s) \/ deskMutexFree
    PROVE  IInv'
<1>1. /\ DOMAIN request = Session /\ request'[s] = q
      /\ \A t \in Session \ {s} : request'[t] = request[t]
  BY DEF IInv, Typed
<1>2. Fits(request[s])'
  BY <1>1
<1>3. ASSUME NEW t \in Session \ {s} PROVE Opened(t)' /\ Fits(request[t])'
  <2>1. request'[t] = request[t] /\ mOpenDesks'[t] = mOpenDesks[t]
        /\ mNextDeskRef'[t] = mNextDeskRef[t]
    BY <1>1
  <2>2. Opened(t)
    BY DEF IInv
  <2> QED
    BY <2>1, <2>2 DEF Opened, OthersFit
<1>4. OneWriter'
  <2>1. \A t \in Session \ {s} : Writing(t)' => Writing(t)
    BY <1>1 DEF Writing
  <2>2. Writing(s)' => Writing(s) \/ deskMutexFree
    BY <1>1 DEF Writing, Step
  <2> QED
    BY <2>1, <2>2 DEF IInv, OneWriter, deskMutexFree
<1> QED
  BY <1>2, <1>3, <1>4 DEF IInv

(* Nobody else writes while one does.                                      *)
LEMMA OthersAlone ==
    ASSUME IInv, NEW s \in Session, NEW q, Writing(s), request' = [request EXCEPT ![s] = q]
    PROVE  OthersFit(s)'
<1>1. \A t \in Session \ {s} : ~Writing(t) /\ request'[t] = request[t]
  BY DEF IInv, OneWriter, Typed
<1>2. \A t \in Session \ {s} : request'[t].at \notin Step
  BY <1>1 DEF Writing, Step
<1> QED
  BY <1>2 DEF OthersFit, Fits, Step

(* What is to be shown of a step that leaves the file alone, and is not    *)
(* one of a write.                                                         *)
LEMMA QuietStep ==
    ASSUME IInv, NEW s \in Session, ~Writing(s), NEW q \in Passing \cup Commenting,
           request' = [request EXCEPT ![s] = q], Opened(s)',
           UNCHANGED <<file, counted, sound>>,
           comment' \in [Object -> Comment \cup {Blank, None}],
           mNextDeskRef' \in [Session -> 1 .. MaxDeskRefs + 1],
           mOpenDesks' \in [Session -> SUBSET Nat],
           \A t \in Session \ {s} :
              mOpenDesks'[t] = mOpenDesks[t] /\ mNextDeskRef'[t] = mNextDeskRef[t]
    PROVE  IInv'
<1>1. q.at \notin Step /\ q \in Request
  BY DEF Passing, Commenting, Step, Request
<1>2. /\ DOMAIN request = Session /\ request'[s] = q
      /\ \A t \in Session \ {s} : request'[t] = request[t]
      /\ request' \in [Session -> Request]
  BY <1>1 DEF IInv, Typed, Request
<1>3. Typed'
  BY <1>2 DEF IInv, Typed, Request
<1>4. Fits(q)'
  BY <1>1 DEF Fits, Step
<1>5. OthersFit(s)'
  <2> SUFFICES ASSUME NEW t \in Session \ {s} PROVE Fits(request[t])'
    BY DEF OthersFit
  <2>1. PICK r : r = request[t]
    OBVIOUS
  <2>2. Fits(r)
    BY <2>1 DEF IInv
  <2>3. Fits(r)'
    BY <2>2 DEF Fits, Begins
  <2> QED
    BY <1>2, <2>1, <2>3
<1>6. FileFits'
  <2>1. Resting' => Resting
    BY <1>1, <1>2 DEF Resting, Writing, Step
  <2> QED
    BY <2>1 DEF IInv, FileFits
<1> QED
  BY <1>1, <1>3, <1>4, <1>5, <1>6, StepKeeps

LEMMA IdleAt == Idle \in Passing /\ Idle.at = "idle"
BY DEF Idle, Passing

(* The requests that open and close a desktop, and the end of a session.   *)
LEMMA OpenStep ==
    ASSUME IInv, NEW s \in Session,
           \/ FPOpenDT(s) \/ FPOpenDT_OpenDesktop(s) \/ EndSession(s)
           \/ \E refnum \in 1 .. MaxDeskRefs : FPCloseDT(s, refnum)
    PROVE  IInv'
<1>0. /\ comment \in [Object -> Comment \cup {Blank, None}]
      /\ mNextDeskRef \in [Session -> 1 .. MaxDeskRefs + 1]
      /\ mOpenDesks \in [Session -> SUBSET Nat]
      /\ request \in [Session -> Request] /\ MaxDeskRefs \in Nat
  BY BoundAssumption DEF IInv, Typed, Request
<1>1. Opened(s)
  BY RequestOf
<1>2. CASE FPOpenDT(s)
  <2> DEFINE q == [at |-> IF file.there THEN "open" ELSE "create"]
  <2>1. q \in Passing /\ q.at = IF file.there THEN "open" ELSE "create"
    BY DEF Passing
  <2>2. /\ request' = [request EXCEPT ![s] = q] /\ mNextDeskRef[s] <= MaxDeskRefs
        /\ request[s] = Idle
        /\ UNCHANGED <<file, comment, mOpenDesks, mNextDeskRef, counted, sound>>
    BY <1>2 DEF FPOpenDT
  <2> HIDE DEF q
  <2>3. ~Writing(s) /\ request'[s] = q
    BY <1>0, <2>2, IdleAt, RequestOf
  <2>4. Opened(s)'
    BY <1>1, <2>1, <2>2, <2>3, IdleAt DEF Opened, Step
  <2> QED
    BY <1>0, <2>1, <2>2, <2>3, <2>4, QuietStep
<1>3. CASE FPOpenDT_OpenDesktop(s)
  <2>1. /\ request' = [request EXCEPT ![s] = Idle] /\ request[s].at = "open"
        /\ OpenDesktop(s) \/ UNCHANGED <<mOpenDesks, mNextDeskRef>>
        /\ UNCHANGED <<file, comment, counted, sound>>
    BY <1>3 DEF FPOpenDT_OpenDesktop
  <2>2. ~Writing(s) /\ request'[s] = Idle
    BY <1>0, <2>1 DEF Writing
  <2>3. mNextDeskRef[s] <= MaxDeskRefs /\ file.there
    BY <1>1, <2>1 DEF Opened
  <2>4. CASE OpenDesktop(s)
    <3>1. /\ mNextDeskRef'[s] = mNextDeskRef[s] + 1
          /\ mOpenDesks'[s] = mOpenDesks[s] \cup {mNextDeskRef[s]}
          /\ \A t \in Session \ {s} :
                mOpenDesks'[t] = mOpenDesks[t] /\ mNextDeskRef'[t] = mNextDeskRef[t]
          /\ mNextDeskRef' \in [Session -> 1 .. MaxDeskRefs + 1]
          /\ mOpenDesks' \in [Session -> SUBSET Nat]
      BY <1>0, <2>3, <2>4 DEF OpenDesktop
    <3>2. Opened(s)'
      BY <1>0, <1>1, <2>1, <2>2, <2>3, <3>1, IdleAt DEF Opened, Step
    <3> QED
      BY <1>0, <2>1, <2>2, <3>1, <3>2, IdleAt, QuietStep
  <2>5. CASE UNCHANGED <<mOpenDesks, mNextDeskRef>>
    <3>1. Opened(s)'
      BY <1>1, <2>1, <2>2, <2>3, <2>5, IdleAt DEF Opened, Step
    <3> QED
      BY <1>0, <2>1, <2>2, <2>5, <3>1, IdleAt, QuietStep
  <2> QED
    BY <2>1, <2>4, <2>5
<1>4. ASSUME request[s] = Idle, NEW open \in SUBSET mOpenDesks[s],
             mOpenDesks' = [mOpenDesks EXCEPT ![s] = open],
             \/ mNextDeskRef' = mNextDeskRef
             \/ mNextDeskRef' = [mNextDeskRef EXCEPT ![s] = 1] /\ open = {},
             UNCHANGED <<file, comment, request, counted, sound>>
      PROVE  IInv'
  <2>1. /\ mOpenDesks'[s] = open
        /\ \A t \in Session \ {s} :
              mOpenDesks'[t] = mOpenDesks[t] /\ mNextDeskRef'[t] = mNextDeskRef[t]
        /\ mOpenDesks' \in [Session -> SUBSET Nat]
        /\ mNextDeskRef' \in [Session -> 1 .. MaxDeskRefs + 1]
    BY <1>0, <1>4
  <2>2. request' = [request EXCEPT ![s] = Idle] /\ ~Writing(s) /\ request'[s] = Idle
    BY <1>0, <1>4, IdleAt, RequestOf
  <2>3. Opened(s)'
    BY <1>1, <1>4, <2>1, <2>2, IdleAt DEF Opened, Step
  <2> QED
    BY <1>0, <1>4, <2>1, <2>2, <2>3, IdleAt, QuietStep
<1>5. CASE EndSession(s)
  BY <1>4, <1>5 DEF EndSession
<1>6. CASE \E refnum \in 1 .. MaxDeskRefs : FPCloseDT(s, refnum)
  BY <1>4, <1>6 DEF FPCloseDT, CloseDesktop
<1> QED
  BY <1>2, <1>3, <1>5, <1>6

LEMMA CommentStep ==
    ASSUME IInv, NEW s \in Session,
           \/ \E refnum \in 1 .. MaxDeskRefs : FPAddComment(s, refnum) \/ FPRemoveComment(s, refnum)
           \/ WriteComment(s)
    PROVE  IInv'
<1>0. /\ comment \in [Object -> Comment \cup {Blank, None}]
      /\ mNextDeskRef \in [Session -> 1 .. MaxDeskRefs + 1]
      /\ mOpenDesks \in [Session -> SUBSET Nat] /\ request \in [Session -> Request]
  BY DEF IInv, Typed, Request
<1>1. Opened(s)
  BY RequestOf
<1>2. ASSUME NEW q \in Passing \cup Commenting, request' = [request EXCEPT ![s] = q],
             q.at \in {"idle", "comment"}, ~Writing(s),
             comment' \in [Object -> Comment \cup {Blank, None}],
             UNCHANGED <<file, mOpenDesks, mNextDeskRef, counted, sound>>
      PROVE  IInv'
  <2>1. request'[s] = q
    BY <1>0, <1>2
  <2>2. Opened(s)'
    BY <1>1, <1>2, <2>1 DEF Opened, Step
  <2> QED
    BY <1>0, <1>2, <2>2, QuietStep
<1>3. ASSUME NEW n \in Object, NEW text \in Comment \cup {Blank, None}, request[s] = Idle,
             request' = [request EXCEPT ![s] = [at |-> "comment", object |-> n, text |-> text]],
             UNCHANGED <<file, comment, mOpenDesks, mNextDeskRef, counted, sound>>
      PROVE  IInv'
  <2> DEFINE q == [at |-> "comment", object |-> n, text |-> text]
  <2>1. q \in Commenting /\ q.at = "comment"
    BY DEF Commenting
  <2> HIDE DEF q
  <2>2. ~Writing(s)
    BY <1>3, IdleAt, RequestOf
  <2> QED
    BY <1>0, <1>2, <1>3, <2>1, <2>2 DEF q
<1>4. CASE \E refnum \in 1 .. MaxDeskRefs : FPAddComment(s, refnum)
  BY <1>3, <1>4 DEF FPAddComment
<1>5. CASE \E refnum \in 1 .. MaxDeskRefs : FPRemoveComment(s, refnum)
  BY <1>3, <1>5 DEF FPRemoveComment
<1>6. CASE WriteComment(s)
  <2>1. request[s] \in Commenting /\ request[s].at = "comment"
    BY <1>6, RequestOf DEF WriteComment
  <2>2. comment' \in [Object -> Comment \cup {Blank, None}]
    BY <1>0, <1>6, <2>1 DEF WriteComment, Commenting
  <2>3. ~Writing(s)
    BY <2>1 DEF Writing
  <2> QED
    BY <1>2, <1>6, <2>2, <2>3, IdleAt DEF WriteComment
<1> QED
  BY <1>4, <1>5, <1>6

(* The two steps of FPOpenDT that make the file.                           *)
LEMMA CreateStep ==
    ASSUME IInv, NEW s \in Session, FPOpenDT_CreateFile(s)
    PROVE  IInv'
<1> DEFINE q == [at |-> "zero"]
<1>1. q \in Passing /\ q.at = "zero"
  BY DEF Passing
<1>2. /\ request' = [request EXCEPT ![s] = q] /\ request[s].at = "create"
      /\ file' = IF file.there THEN file ELSE DesktopFile(NoHeader, <<>>)
      /\ UNCHANGED <<comment, mOpenDesks, mNextDeskRef, counted, sound>>
  BY DEF FPOpenDT_CreateFile
<1> HIDE DEF q
<1>3. Opened(s) /\ ~Writing(s)
  BY <1>2, RequestOf DEF Writing
<1>4. file'.there /\ file' \in {NoFile} \cup File
  <2>1. DesktopFile(NoHeader, <<>>) \in File /\ DesktopFile(NoHeader, <<>>).there
    BY DEF DesktopFile, File, Header
  <2> QED
    BY <1>2, <2>1 DEF IInv, Typed
<1>5. request'[s] = q /\ request' \in [Session -> Request]
      /\ \A t \in Session \ {s} : request'[t] = request[t]
  BY <1>1, <1>2 DEF IInv, Typed, Request
<1>6. Opened(s)'
  BY <1>1, <1>2, <1>3, <1>4, <1>5 DEF Opened, Step
<1>7. CASE file.there
  BY <1>1, <1>2, <1>3, <1>6, <1>7, QuietStep DEF IInv, Typed
<1>8. CASE ~file.there
  <2>1. file' = DesktopFile(NoHeader, <<>>)
    BY <1>2, <1>8
  <2>2. file'.header = NoHeader /\ file'.entries = <<>>
    BY <2>1 DEF DesktopFile
  <2>3. Typed'
    BY <1>2, <1>4, <1>5, <2>2, BoundAssumption DEF IInv, Typed, Request
  <2>4. Keyed(<<>>)
    BY DEF Keyed
  <2>5. FileFits'
    BY <2>2, <2>4 DEF FileFits
  <2>6. \A t \in Session : request[t].at \notin Step
    BY <1>8, RequestOf DEF Opened
  <2>7. OthersFit(s)'
    BY <1>5, <2>6 DEF OthersFit, Fits, Step
  <2>8. Fits(q)' /\ q.at \notin Step
    BY <1>1 DEF Fits, Step
  <2> QED
    BY <1>1, <1>2, <1>4, <1>6, <2>3, <2>5, <2>7, <2>8, StepKeeps DEF Request
<1> QED
  BY <1>7, <1>8

LEMMA FirstHeaderStep ==
    ASSUME IInv, NEW s \in Session, FPOpenDT_WriteHeader(s)
    PROVE  IInv'
<1> DEFINE q == [at |-> "open"]
<1>1. q \in Passing /\ q.at = "open"
  BY DEF Passing
<1>2. /\ request' = [request EXCEPT ![s] = q] /\ request[s].at = "zero"
      /\ \/ UNCHANGED <<file, counted>>
         \/ /\ file' = [file EXCEPT !.header = Zeros]
            /\ counted' = (counted /\ file.entries = <<>> /\ deskMutexFree)
      /\ UNCHANGED <<comment, mOpenDesks, mNextDeskRef, sound>>
  BY DEF FPOpenDT_WriteHeader
<1> HIDE DEF q
<1>3. Opened(s) /\ ~Writing(s) /\ file \in File /\ file.there
  BY <1>2, RequestOf DEF Writing
<1>4. request'[s] = q /\ request' \in [Session -> Request]
      /\ \A t \in Session \ {s} : request'[t] = request[t]
  BY <1>1, <1>2 DEF IInv, Typed, Request
<1>5. CASE UNCHANGED <<file, counted>>
  <2>1. Opened(s)'
    BY <1>1, <1>2, <1>3, <1>4, <1>5 DEF Opened, Step
  <2> QED
    BY <1>1, <1>2, <1>3, <1>5, <2>1, QuietStep DEF IInv, Typed
<1>6. CASE /\ file' = [file EXCEPT !.header = Zeros]
           /\ counted' = (counted /\ file.entries = <<>> /\ deskMutexFree)
  <2>1. /\ file' \in File /\ file'.there /\ file'.header = Zeros
        /\ file'.entries = file.entries
    BY <1>3, <1>6, ZerosType DEF File
  <2>2. Opened(s)'
    BY <1>1, <1>2, <1>3, <1>4, <2>1 DEF Opened, Step
  <2>3. Typed'
    <3>1. counted' \in BOOLEAN
      BY <1>6 DEF deskMutexFree, IInv, Typed
    <3> QED
      BY <1>2, <1>3, <1>4, <2>1, <3>1 DEF IInv, Typed, Request
  <2>4. FileFits'
    <3>1. Resting' => Resting
      BY <1>2, <1>4 DEF Resting
    <3>2. counted' => file'.header = Counts(file'.entries)
      BY <1>6, <2>1, ZerosType
    <3> QED
      BY <1>2, <1>3, <2>1, <3>1, <3>2 DEF IInv, FileFits
  <2>5. OthersFit(s)'
    <3> SUFFICES ASSUME NEW t \in Session \ {s} PROVE Fits(request[t])'
      BY DEF OthersFit
    <3>1. PICK r : r = request[t]
      OBVIOUS
    <3>2. CASE r.at \notin Step
      BY <1>4, <3>1, <3>2 DEF Fits, Step
    <3>3. CASE r.at \in Step
      <4>1. Writing(t)
        BY <3>1, <3>3 DEF Writing, Step
      <4>2. ~counted'
        BY <1>6, <4>1 DEF deskMutexFree
      <4>3. Fits(r)
        BY <3>1 DEF IInv
      <4>4. Fits(r)'
        BY <1>2, <2>1, <4>2, <4>3 DEF Fits, Begins
      <4> QED
        BY <1>4, <3>1, <4>4
    <3> QED
      BY <3>2, <3>3
  <2>6. Fits(q)' /\ q.at \notin Step
    BY <1>1 DEF Fits, Step
  <2> QED
    BY <1>1, <1>2, <1>3, <2>1, <2>2, <2>3, <2>4, <2>5, <2>6, StepKeeps DEF Request
<1> QED
  BY <1>2, <1>5, <1>6

(* An addition or removal begins: its array is made.                       *)
LEMMA BeginStep ==
    ASSUME IInv, NEW s \in Session, deskMutexFree, file \in File, NEW r \in Rewriting,
           r.at = "header", Made(file.entries, r), Len(r.image) <= MaxEntries,
           request' = [request EXCEPT ![s] = r],
           UNCHANGED <<file, comment, mOpenDesks, mNextDeskRef, counted, sound>>
    PROVE  IInv'
<1>1. r \in Request /\ r.at \in Step
  BY DEF Request, Step
<1>2. request'[s] = r /\ request' \in [Session -> Request]
      /\ \A t \in Session \ {s} : request'[t] = request[t]
  BY <1>1 DEF IInv, Typed, Request
<1>3. Typed'
  BY <1>2 DEF IInv, Typed, Request
<1>4. file.there
  BY DEF File
<1>5. Opened(s)'
  <2>1. Opened(s)
    BY RequestOf
  <2> QED
    BY <1>2, <1>4, <2>1 DEF Opened, Step
<1>6. FileFits'
  <2>1. Resting
    BY DEF Resting, deskMutexFree, Writing
  <2> QED
    BY <2>1 DEF IInv, FileFits
<1>7. Fits(r)'
  BY DEF Fits
<1>8. OthersFit(s)'
  <2>1. \A t \in Session : request[t].at \notin Step
    BY DEF deskMutexFree, Writing, Step
  <2> QED
    BY <1>2, <2>1 DEF OthersFit, Fits, Step
<1> QED
  BY <1>1, <1>3, <1>5, <1>6, <1>7, <1>8, StepKeeps

(* The array of the operation, as a record.                                *)
Array(image, entry, removes) ==
    [at |-> "header", image |-> image, entry |-> entry, removes |-> removes, old |-> <<>>]

LEMMA ArrayFields ==
    ASSUME NEW image \in Seq(Entry), NEW entry \in DesktopEntry, NEW removes \in BOOLEAN
    PROVE  LET r == Array(image, entry, removes) IN
           /\ r \in Rewriting /\ r.at = "header" /\ r.image = image /\ r.entry = entry
           /\ r.removes = removes
BY DEF Array, Rewriting, Step

(* What is made of the file by an operation that begins.                   *)
LEMMA AddMakes ==
    ASSUME IInv, NEW s \in Session, NEW refnum, NEW e \in DesktopEntry,
           afp_AddEntry(s, refnum, e)
    PROVE  \E r \in Rewriting :
              /\ r.at = "header" /\ r.entry = e /\ ~r.removes
              /\ Made(file.entries, r) /\ Len(r.image) <= MaxEntries
              /\ request' = [request EXCEPT ![s] = r]
              /\ UNCHANGED <<file, comment, mOpenDesks, mNextDeskRef, counted, sound>>
              /\ deskMutexFree /\ file \in File /\ request[s] = Idle
<1> DEFINE list == file.entries
           place == afp_FindDTEntry(file, e, 0)
<1>1. /\ request[s] = Idle /\ deskMutexFree /\ mOpenDesks[s] # {}
  BY DEF afp_AddEntry, GetDeskItem
<1>2. file \in File /\ list \in Seq(Entry) /\ Len(list) <= MaxEntries /\ e \in Entry
  BY <1>1, RequestOf, EntryFields DEF File, IInv, Typed
<1>3. \/ place = 0 /\ \A i \in DOMAIN list : KeyOf(list[i]) # KeyOf(e)
      \/ place # 0 /\ FirstOf(list, e, place)
  BY <1>2, FindsKey
<1>4. \/ /\ place = 0 /\ Len(list) < MaxEntries
         /\ BeginWrite(s, Append(list, e), e, FALSE)
      \/ place # 0 /\ BeginWrite(s, [list EXCEPT ![place] = e], e, FALSE)
  BY DEF afp_AddEntry
<1> HIDE DEF list, place
<1>5. PICK image : /\ BeginWrite(s, image, e, FALSE)
                   /\ \/ /\ image = Append(list, e) /\ Len(list) < MaxEntries
                         /\ \A i \in DOMAIN list : KeyOf(list[i]) # KeyOf(e)
                      \/ image = [list EXCEPT ![place] = e] /\ FirstOf(list, e, place)
  BY <1>3, <1>4
<1>6. image \in Seq(Entry) /\ Len(image) <= MaxEntries
  BY <1>2, <1>5, BoundAssumption DEF FirstOf
<1>7. PICK r : r = Array(image, e, FALSE)
  OBVIOUS
<1>8. r \in Rewriting /\ r.at = "header" /\ r.image = image /\ r.entry = e /\ r.removes = FALSE
  BY <1>6, <1>7, ArrayFields
<1>9. Made(list, r)
  BY <1>5, <1>8 DEF Made, FirstOf
<1>10. /\ request' = [request EXCEPT ![s] = r]
       /\ UNCHANGED <<file, comment, mOpenDesks, mNextDeskRef, counted, sound>>
  BY <1>5, <1>7 DEF BeginWrite, Array
<1> QED
  BY <1>1, <1>2, <1>6, <1>8, <1>9, <1>10 DEF list

LEMMA RemoveMakes ==
    ASSUME IInv, NEW s \in Session, NEW refnum, NEW creator \in Creator,
           afp_RemoveEntry(s, refnum, creator)
    PROVE  \E r \in Rewriting :
              /\ r.at = "header" /\ r.removes
              /\ Made(file.entries, r) /\ Len(r.image) <= MaxEntries
              /\ request' = [request EXCEPT ![s] = r]
              /\ UNCHANGED <<file, comment, mOpenDesks, mNextDeskRef, counted, sound>>
              /\ deskMutexFree /\ file \in File /\ request[s] = Idle
<1> DEFINE list == file.entries
           place == FPGetAPPL(file, creator, 0)
<1>1. /\ request[s] = Idle /\ deskMutexFree /\ mOpenDesks[s] # {}
  BY DEF afp_RemoveEntry, GetDeskItem
<1>2. file \in File /\ list \in Seq(Entry) /\ Len(list) <= MaxEntries
  BY <1>1, RequestOf DEF File, IInv, Typed
<1>3. place # 0 /\ BeginWrite(s, RemoveAt(list, place), list[place], TRUE)
  BY DEF afp_RemoveEntry
<1>4. /\ place \in DOMAIN list /\ list[place] \in DesktopEntry
      /\ FirstOf(list, list[place], place)
  BY <1>2, <1>3, FindsAppl
<1> HIDE DEF list, place
<1>5. PICK image : image = RemoveAt(list, place)
  OBVIOUS
<1>6. image \in Seq(Entry) /\ Len(image) = Len(list) - 1
  BY <1>2, <1>4, <1>5, RemoveAtType
<1>7. Len(image) <= MaxEntries
  BY <1>2, <1>6, BoundAssumption
<1>8. PICK r : r = Array(image, list[place], TRUE)
  OBVIOUS
<1>9. /\ r \in Rewriting /\ r.at = "header" /\ r.image = image /\ r.entry = list[place]
      /\ r.removes = TRUE
  BY <1>4, <1>6, <1>8, ArrayFields
<1>10. Made(list, r)
  BY <1>4, <1>5, <1>9 DEF Made
<1>11. /\ request' = [request EXCEPT ![s] = r]
       /\ UNCHANGED <<file, comment, mOpenDesks, mNextDeskRef, counted, sound>>
  BY <1>3, <1>5, <1>8 DEF BeginWrite, Array
<1> QED
  BY <1>1, <1>2, <1>7, <1>9, <1>10, <1>11 DEF list

LEMMA EntryStep ==
    ASSUME IInv, NEW s \in Session, NEW refnum,
           FPAddIcon(s, refnum) \/ FPAddAPPL(s, refnum) \/ FPRemoveAPPL(s, refnum)
    PROVE  IInv'
<1>1. CASE \E e \in DesktopEntry : afp_AddEntry(s, refnum, e)
  BY <1>1, AddMakes, BeginStep
<1>2. CASE \E creator \in Creator : afp_RemoveEntry(s, refnum, creator)
  BY <1>2, RemoveMakes, BeginStep
<1> QED
  BY <1>1, <1>2 DEF FPAddIcon, FPAddAPPL, FPRemoveAPPL, DesktopEntry

-----------------------------------------------------------------------------
(* The writes *)

(* What is to be shown of a step of the one who writes.                    *)
LEMMA WriterStep ==
    ASSUME IInv, NEW s \in Session, Writing(s), NEW q \in Request,
           request' = [request EXCEPT ![s] = q], Fits(q)', FileFits',
           file' \in File, Len(file'.entries) <= MaxEntries,
           counted' \in BOOLEAN, sound' \in BOOLEAN,
           UNCHANGED <<comment, mOpenDesks, mNextDeskRef>>,
           q.at \in Step \cup {"idle"}
    PROVE  IInv'
<1>1. request'[s] = q /\ request' \in [Session -> Request] /\ file'.there
  BY DEF IInv, Typed, Request, File
<1>2. Typed'
  BY <1>1 DEF IInv, Typed, Request
<1>3. Opened(s)'
  <2>1. Opened(s)
    BY RequestOf
  <2> QED
    BY <1>1, <2>1 DEF Opened, Step
<1>4. OthersFit(s)'
  BY OthersAlone
<1> QED
  BY <1>1, <1>2, <1>3, <1>4, StepKeeps

(* Nobody but the writer is between its writes.                            *)
LEMMA WriterAlone ==
    ASSUME IInv, NEW s \in Session, Writing(s)
    PROVE  /\ request[s].at = "header" => Resting
           /\ \A q : request' = [request EXCEPT ![s] = q] /\ q.at \in {"entries", "resize"}
                        => ~Resting'
<1>1. \A t \in Session : t # s => ~Writing(t)
  BY DEF IInv, OneWriter
<1>2. request[s].at = "header" => Resting
  BY <1>1 DEF Resting, Writing
<1>3. ASSUME NEW q, request' = [request EXCEPT ![s] = q], q.at \in {"entries", "resize"}
      PROVE  ~Resting'
  <2>1. request'[s] = q
    BY <1>3 DEF IInv, Typed
  <2> QED
    BY <1>3, <2>1 DEF Resting
<1> QED
  BY <1>2, <1>3

LEMMA WriteHeaderStep ==
    ASSUME IInv, NEW s \in Session, WriteHeader(s)
    PROVE  IInv'
<1>0. PICK r, list, q, n : /\ r = request[s] /\ list = file.entries /\ n = Len(list)
                           /\ q = [r EXCEPT !.at = "entries", !.old = list]
  OBVIOUS
<1>1. Writing(s) /\ r.at = "header"
  BY <1>0 DEF WriteHeader, Writing
<1>2. r \in Rewriting /\ file \in File /\ Fits(r) /\ file.there
  BY <1>0, <1>1, RequestOf
<1>3. list \in Seq(Entry) /\ n \in Nat /\ n <= MaxEntries
  BY <1>0, <1>2 DEF File, IInv, Typed
<1>4. PICK entries \in IF file.header = NoHeader /\ n > 0 THEN [1 .. n - 1 -> Garbled]
                                                          ELSE {list} :
         file' = DesktopFile(Counts(r.image), entries)
  BY <1>0 DEF WriteHeader
<1>5. /\ request' = [request EXCEPT ![s] = q] /\ counted' = TRUE
      /\ UNCHANGED <<comment, mOpenDesks, mNextDeskRef, sound>>
  BY <1>0, <1>2 DEF WriteHeader, IInv, Typed
<1>6. Resting
  BY <1>0, <1>1, WriterAlone
<1>7. Made(list, r) /\ Len(r.image) <= MaxEntries
  BY <1>0, <1>1, <1>2 DEF Fits, Step
<1>8. sound => Keyed(list)
  BY <1>0, <1>2, <1>6 DEF IInv, FileFits
<1>9. /\ entries \in Seq(Entry) /\ Len(entries) <= MaxEntries
      /\ (entries = list \/ Len(entries) = n - 1)
  <2>1. CASE entries = list
    BY <1>0, <1>3, <2>1
  <2>2. CASE entries \in [1 .. n - 1 -> Garbled] /\ n > 0
    <3>1. entries \in [1 .. n - 1 -> Entry] /\ n - 1 \in Nat
      BY <1>3, <2>2 DEF Entry
    <3>2. entries \in Seq(Entry) /\ Len(entries) = n - 1
      BY <3>1, SeqDef
    <3> QED
      BY <1>3, <2>2, <3>1, <3>2, BoundAssumption
  <2> QED
    BY <1>4, <2>1, <2>2
<1>10. r.image \in Seq(Entry)
  BY <1>2, RewritingFields
<1>11. /\ file' \in File /\ file'.entries = entries /\ file'.header = Counts(r.image)
  BY <1>4, <1>7, <1>9, <1>10, CountsType DEF DesktopFile, File
<1>12. /\ q \in Rewriting /\ q.at = "entries" /\ q.old = list /\ q.image = r.image
       /\ q.entry = r.entry /\ q.removes = r.removes
  BY <1>0, <1>2, <1>3 DEF Rewriting, Step
<1>13. Fits(q)'
  <2>1. Made(q.old, q)
    BY <1>7, <1>12 DEF Made
  <2> QED
    BY <1>3, <1>5, <1>7, <1>8, <1>9, <1>11, <1>0, <1>12, <2>1 DEF Fits
<1>14. ~Resting'
  BY <1>1, <1>5, <1>12, WriterAlone
<1>15. FileFits'
  BY <1>14 DEF FileFits
<1>16. q \in Request /\ q.at \in Step
  BY <1>12 DEF Request, Step
<1> QED
  BY <1>1, <1>5, <1>9, <1>11, <1>13, <1>15, <1>16, WriterStep DEF IInv, Typed

(* What the write of the entries leaves in the file.                       *)
LEMMA EntriesWritten ==
    ASSUME IInv, NEW s \in Session, request[s].at = "entries"
    PROVE  LET r == request[s]
               c == r.image \o SubSeq(file.entries, Len(r.image) + 1, Len(file.entries))
           IN  /\ c \in Seq(Entry) /\ Len(c) <= MaxEntries
               /\ ~r.removes => c = r.image
               /\ r.removes => Len(r.image) <= Len(c) /\ Len(c) <= Len(r.image) + 1
               /\ \A i \in DOMAIN r.image : c[i] = r.image[i]
               /\ Range(c) \subseteq Range(r.image) \cup Range(r.old)
<1>1. PICK r : r = request[s]
  OBVIOUS
<1>2. PICK b : b = file.entries
  OBVIOUS
<1>3. PICK c : c = r.image \o SubSeq(b, Len(r.image) + 1, Len(b))
  OBVIOUS
<1>4. r \in Rewriting /\ b \in Seq(Entry) /\ Fits(r) /\ r.at = "entries"
      /\ Len(b) <= MaxEntries /\ file.entries = b
  BY <1>1, <1>2, RequestOf DEF Writing, File, IInv, Typed
<1>5. r.image \in Seq(Entry) /\ r.old \in Seq(Entry) /\ r.removes \in BOOLEAN
  BY <1>4, RewritingFields
<1>6. /\ Made(r.old, r) /\ Len(r.image) <= MaxEntries
      /\ (b = r.old \/ Len(b) = Len(r.old) - 1)
  BY <1>4 DEF Fits, Step
<1>7. /\ r.removes => Len(r.image) = Len(r.old) - 1
      /\ ~r.removes => Len(r.image) \in {Len(r.old), Len(r.old) + 1}
  BY <1>4, <1>5, <1>6, MadeFacts
<1>8. Len(b) \in Nat /\ Len(r.image) \in Nat /\ Len(r.old) \in Nat
  BY <1>4, <1>5
<1>9. /\ Len(b) <= Len(r.image) + 1
      /\ ~r.removes => Len(b) <= Len(r.image)
  BY <1>6, <1>7, <1>8
<1>10. /\ c \in Seq(Entry)
       /\ Len(b) <= Len(r.image) => c = r.image
       /\ Len(b) = Len(r.image) + 1 =>
             Len(c) = Len(r.image) + 1 /\ c[Len(r.image) + 1] = b[Len(b)]
       /\ \A i \in 1..Len(r.image) : c[i] = r.image[i]
  <2>1. PICK a \in Seq(Entry) : a = r.image
    BY <1>5
  <2>2. c = a \o SubSeq(b, Len(a) + 1, Len(b)) /\ Len(b) <= Len(a) + 1
    BY <1>3, <1>9, <2>1
  <2>3. /\ c \in Seq(Entry)
        /\ Len(b) <= Len(a) => c = a
        /\ Len(b) = Len(a) + 1 => Len(c) = Len(a) + 1 /\ c[Len(a) + 1] = b[Len(b)]
        /\ \A i \in 1..Len(a) : c[i] = a[i]
    BY <1>4, <2>2, Overwritten
  <2> QED
    BY <2>1, <2>3
<1>11. Len(b) <= Len(r.image) \/ Len(b) = Len(r.image) + 1
  BY <1>8, <1>9
<1>12. ~r.removes => c = r.image
  BY <1>9, <1>10
<1>13. Len(c) <= MaxEntries
  BY <1>4, <1>6, <1>10, <1>11
<1>14. r.removes => Len(r.image) <= Len(c) /\ Len(c) <= Len(r.image) + 1
  BY <1>8, <1>10, <1>11
<1>15. DOMAIN r.image = 1..Len(r.image)
  BY <1>5
<1>16. Range(c) \subseteq Range(r.image) \cup Range(r.old)
  <2>1. CASE c = r.image
    BY <2>1
  <2>2. CASE Len(b) = Len(r.image) + 1
    <3>1. b = r.old
      BY <1>6, <1>7, <1>8, <2>2
    <3>2. Len(c) = Len(r.image) + 1 /\ DOMAIN c = 1..Len(c)
      BY <1>10, <2>2
    <3>3. b[Len(b)] \in Range(r.old)
      <4>1. Len(b) \in DOMAIN b
        BY <1>4, <1>8, <2>2
      <4> QED
        BY <3>1, <4>1 DEF Range
    <3>4. ASSUME NEW i \in 1..Len(r.image)+1
          PROVE  c[i] \in Range(r.image) \cup Range(r.old)
      <4>1. CASE i = Len(r.image) + 1
        BY <1>10, <2>2, <3>3, <4>1
      <4>2. CASE i # Len(r.image) + 1
        <5>1. i \in 1..Len(r.image)
          BY <1>8, <4>2
        <5> QED
          BY <1>10, <1>15, <5>1 DEF Range
      <4> QED
        BY <4>1, <4>2
    <3> QED
      BY <3>2, <3>4 DEF Range
  <2> QED
    BY <1>10, <1>11, <2>1, <2>2
<1> QED
  BY <1>1, <1>2, <1>3, <1>10, <1>12, <1>13, <1>14, <1>15, <1>16

LEMMA WriteEntriesStep ==
    ASSUME IInv, NEW s \in Session, WriteEntries(s)
    PROVE  IInv'
<1>0. PICK r, b, c, q : /\ r = request[s] /\ b = file.entries
                        /\ c = r.image \o SubSeq(b, Len(r.image) + 1, Len(b))
                        /\ q = IF r.removes THEN [r EXCEPT !.at = "resize", !.old = <<>>]
                                            ELSE Idle
  OBVIOUS
<1>1. Writing(s) /\ r.at = "entries"
  BY <1>0 DEF WriteEntries, Writing
<1>2. r \in Rewriting /\ file \in File /\ Fits(r)
  BY <1>0, <1>1, RequestOf
<1>3. /\ b \in Seq(Entry) /\ Len(b) <= MaxEntries /\ file.entries = b
  BY <1>0, <1>2 DEF File, IInv, Typed
<1>4. /\ \/ /\ file' = [file EXCEPT !.entries = c]
            /\ UNCHANGED <<counted, sound>>
         \/ /\ counted' = FALSE
            /\ sound' = (sound /\ ~(r.removes \/ b # r.old))
            /\ UNCHANGED file
      /\ request' = [request EXCEPT ![s] = q]
      /\ UNCHANGED <<comment, mOpenDesks, mNextDeskRef>>
  <2>1. /\ \/ /\ file' = [file EXCEPT !.entries =
                    r.image \o SubSeq(@, Len(r.image) + 1, Len(@))]
              /\ UNCHANGED <<counted, sound>>
           \/ /\ counted' = FALSE
              /\ sound' = (sound /\ ~(r.removes \/ b # r.old))
              /\ UNCHANGED file
        /\ UNCHANGED <<comment, mOpenDesks, mNextDeskRef>>
    BY <1>0 DEF WriteEntries
  <2>2. request' = [request EXCEPT ![s] = q]
    BY <1>0 DEF WriteEntries, IInv, Typed
  <2>3. file' = [file EXCEPT !.entries = r.image \o SubSeq(@, Len(r.image) + 1, Len(@))]
        => file' = [file EXCEPT !.entries = c]
    BY <1>0, <1>2 DEF File
  <2> QED
    BY <2>1, <2>2, <2>3
<1>5. /\ c \in Seq(Entry) /\ Len(c) <= MaxEntries
      /\ ~r.removes => c = r.image
      /\ r.removes => Len(r.image) <= Len(c) /\ Len(c) <= Len(r.image) + 1
      /\ \A i \in DOMAIN r.image : c[i] = r.image[i]
      /\ Range(c) \subseteq Range(r.image) \cup Range(r.old)
  BY <1>0, <1>1, EntriesWritten
<1>6. /\ r.image \in Seq(Entry) /\ r.old \in Seq(Entry) /\ r.removes \in BOOLEAN
      /\ r.entry \in DesktopEntry
  BY <1>2, RewritingFields
<1>7. /\ Made(r.old, r) /\ Len(r.image) <= MaxEntries
      /\ (b = r.old \/ Len(b) = Len(r.old) - 1)
      /\ counted => file.header = Counts(r.image)
      /\ sound => Keyed(r.old)
  BY <1>1, <1>2, <1>3 DEF Fits, Step
<1>8. /\ r.removes => Len(r.image) = Len(r.old) - 1
      /\ sound => Keyed(r.image)
      /\ sound => Range(r.image) = {v \in Range(r.old) : KeyOf(v) # KeyOf(r.entry)}
                                      \cup (IF r.removes THEN {} ELSE {r.entry})
      /\ sound /\ r.removes => \A i \in DOMAIN r.image : KeyOf(r.image[i]) # KeyOf(r.entry)
  BY <1>2, <1>6, <1>7, MadeFacts
<1>9. sound /\ r.removes => \A v \in Range(r.old) : v \in Range(r.image) \cup {r.entry}
  <2> SUFFICES ASSUME sound, r.removes, NEW v \in Range(r.old), KeyOf(v) = KeyOf(r.entry)
               PROVE  v = r.entry
    BY <1>8
  <2>1. r.entry \in Range(r.old)
    BY <1>2, <1>6, <1>7, MadeFacts
  <2> QED
    BY <1>7, <2>1 DEF Keyed, Range
<1>10. /\ file' \in File /\ file'.header = file.header
       /\ file'.entries \in {b, c} /\ Len(file'.entries) <= MaxEntries
       /\ counted' \in BOOLEAN /\ sound' \in BOOLEAN
  BY <1>2, <1>3, <1>4, <1>5 DEF File, IInv, Typed
<1>11. counted' \/ (r.removes /\ sound') => file'.entries = c /\ UNCHANGED <<counted, sound>>
  <2>1. file' = [file EXCEPT !.entries = c] => file'.entries = c
    BY <1>2 DEF File
  <2> QED
    BY <1>4, <2>1
<1>12. q \in Request /\ q.at \in Step \cup {"idle"} /\ (q.at \in Step <=> r.removes)
       /\ (r.removes => /\ q.at = "resize" /\ q.image = r.image /\ q.entry = r.entry
                        /\ q.removes = r.removes)
  <2>1. CASE r.removes
    <3>1. <<>> \in Seq(Entry) /\ "resize" \in Step
      BY DEF Step
    <3>2. q = [r EXCEPT !.at = "resize", !.old = <<>>]
      BY <1>0, <2>1
    <3>3. /\ q \in Rewriting /\ q.at = "resize" /\ q.image = r.image /\ q.entry = r.entry
          /\ q.removes = r.removes
      BY <1>2, <3>1, <3>2 DEF Rewriting
    <3> QED
      BY <2>1, <3>1, <3>3 DEF Request
  <2>2. CASE ~r.removes
    BY <1>0, <2>2, IdleAt DEF Request, Step
  <2> QED
    BY <2>1, <2>2
<1>13. Fits(q)'
  <2>1. CASE ~r.removes
    BY <1>12, <2>1 DEF Fits, Step
  <2>2. CASE r.removes
    <3>1. /\ q.at = "resize" /\ q.image = r.image /\ q.entry = r.entry /\ q.removes
      BY <1>12, <2>2
    <3>2. Begins(q)'
      <4>1. Len(r.image) <= Len(b) /\ Len(b) <= Len(r.image) + 1
        BY <1>3, <1>6, <1>7, <1>8, <2>2
      <4> QED
        BY <1>5, <1>10, <1>11, <2>2, <3>1, <4>1 DEF Begins
    <3>3. counted' => file'.header = Counts(q.image)
      BY <1>7, <1>10, <1>11, <3>1
    <3>4. sound' => /\ Keyed(q.image)
                    /\ \A i \in DOMAIN q.image : KeyOf(q.image[i]) # KeyOf(q.entry)
                    /\ Range(file'.entries) \subseteq Range(q.image) \cup {q.entry}
      BY <1>5, <1>8, <1>9, <1>11, <2>2, <3>1
    <3>5. sound' => q.entry \notin Range(q.image)
      BY <3>4 DEF Range
    <3> QED
      BY <1>7, <3>1, <3>2, <3>3, <3>4, <3>5 DEF Fits
  <2> QED
    BY <2>1, <2>2
<1>14. FileFits'
  <2>1. CASE r.removes
    <3>1. ~Resting'
      BY <1>1, <1>4, <1>12, <2>1, WriterAlone
    <3> QED
      BY <3>1 DEF FileFits
  <2>2. CASE ~r.removes
    <3>1. counted' => file'.header = Counts(file'.entries)
      BY <1>5, <1>7, <1>10, <1>11, <2>2
    <3>2. sound' => Keyed(file'.entries)
      <4>1. CASE file'.entries = c /\ UNCHANGED sound
        BY <1>5, <1>8, <2>2, <4>1
      <4>2. CASE UNCHANGED file /\ sound' = (sound /\ ~(r.removes \/ b # r.old))
        BY <1>3, <1>7, <4>2
      <4>3. file' = [file EXCEPT !.entries = c] => file'.entries = c
        BY <1>2 DEF File
      <4> QED
        BY <1>4, <4>1, <4>2, <4>3
    <3> QED
      BY <3>1, <3>2 DEF FileFits
  <2> QED
    BY <2>1, <2>2
<1> QED
  BY <1>1, <1>4, <1>10, <1>12, <1>13, <1>14, WriterStep

(* The file is cut to the array, if that is what it begins with.           *)
LEMMA CutIsArray ==
    ASSUME NEW a \in Seq(Entry), NEW b \in Seq(Entry), Len(a) <= Len(b)
    PROVE  /\ SubSeq(b, 1, Len(a)) \in Seq(Entry) /\ Len(SubSeq(b, 1, Len(a))) = Len(a)
           /\ (\A i \in DOMAIN a : b[i] = a[i]) => SubSeq(b, 1, Len(a)) = a
<1> DEFINE c == SubSeq(b, 1, Len(a))
<1>1. Len(a) \in Nat /\ Len(b) \in Nat /\ DOMAIN a = 1..Len(a)
  OBVIOUS
<1>2. c \in Seq(Entry) /\ Len(c) = Len(a) /\ \A i \in 1..Len(a) : c[i] = b[i]
  BY <1>1
<1> HIDE DEF c
<1>3. ASSUME \A i \in DOMAIN a : b[i] = a[i] PROVE c = a
  BY <1>1, <1>2, <1>3
<1> QED
  BY <1>2, <1>3 DEF c

LEMMA SetSizeStep ==
    ASSUME IInv, NEW s \in Session, SetSize(s)
    PROVE  IInv'
<1>0. PICK r, b, c : r = request[s] /\ b = file.entries /\ c = SubSeq(b, 1, Len(r.image))
  OBVIOUS
<1>1. Writing(s) /\ r.at = "resize"
  BY <1>0 DEF SetSize, Writing
<1>2. r \in Rewriting /\ file \in File /\ Fits(r)
  BY <1>0, <1>1, RequestOf
<1>3. b \in Seq(Entry) /\ Len(b) <= MaxEntries /\ file.entries = b /\ r.image \in Seq(Entry)
  BY <1>0, <1>2, RewritingFields DEF File, IInv, Typed
<1>4. /\ file' = [file EXCEPT !.entries = c] /\ request' = [request EXCEPT ![s] = Idle]
      /\ UNCHANGED <<comment, mOpenDesks, mNextDeskRef, counted, sound>>
  BY <1>0, <1>2 DEF SetSize, File
<1>5. /\ Len(r.image) <= Len(b) /\ Len(r.image) <= MaxEntries
      /\ counted \/ sound => \A i \in DOMAIN r.image : b[i] = r.image[i]
      /\ counted => file.header = Counts(r.image)
      /\ sound => Keyed(r.image)
  BY <1>1, <1>2, <1>3 DEF Fits, Begins, Step
<1>6. PICK a \in Seq(Entry) : a = r.image
  BY <1>3
<1>7. /\ c \in Seq(Entry) /\ Len(c) = Len(a)
      /\ counted \/ sound => c = a
  BY <1>0, <1>3, <1>5, <1>6, CutIsArray
<1>8. file' \in File /\ file'.header = file.header /\ file'.entries = c
  BY <1>2, <1>4, <1>7 DEF File
<1>9. FileFits'
  BY <1>4, <1>5, <1>6, <1>7, <1>8 DEF FileFits
<1>10. Fits(Idle)' /\ Idle \in Request /\ Idle.at = "idle"
  BY IdleAt DEF Fits, Step, Request
<1> QED
  BY <1>1, <1>4, <1>5, <1>6, <1>7, <1>8, <1>9, <1>10, WriterStep DEF IInv, Typed

LEMMA StopStep ==
    ASSUME IInv, ServerStops
    PROVE  IInv'
<1> DEFINE torn(s) == \/ request[s].at = "entries"
                      \/ request[s].at = "resize" /\ Len(file.entries) > Len(request[s].image)
           harmed(s) == \/ request[s].at = "entries" /\ file.entries # request[s].old
                        \/ request[s].at = "resize" /\ torn(s)
<1>1. /\ request' = [s \in Session |-> Idle] /\ mOpenDesks' = [s \in Session |-> {}]
      /\ mNextDeskRef' = [s \in Session |-> 1]
      /\ counted' = (counted /\ \A s \in Session : ~torn(s))
      /\ sound' = (sound /\ \A s \in Session : ~harmed(s))
      /\ UNCHANGED <<file, comment>>
  BY DEF ServerStops
<1>2. counted' \in BOOLEAN /\ sound' \in BOOLEAN
  BY <1>1
<1>3. Typed'
  <2>1. 1 \in 1 .. MaxDeskRefs + 1
    BY BoundAssumption
  <2> QED
    BY <1>1, <1>2, <2>1, IdleAt DEF IInv, Typed
<1>4. OneWriter' /\ \A s \in Session : Opened(s)' /\ Fits(request[s])'
  <2>1. \A s \in Session : request'[s].at = "idle" /\ mOpenDesks'[s] = {}
    BY <1>1, IdleAt
  <2> QED
    BY <2>1 DEF OneWriter, Writing, Opened, Fits, Step
<1>5. FileFits'
  <2>1. CASE Resting \/ ~file.there
    BY <1>1, <2>1 DEF IInv, FileFits
  <2>2. CASE ~Resting /\ file.there
    <3>1. PICK s \in Session : request[s].at \in {"entries", "resize"}
      BY <2>2 DEF Resting
    <3>2. PICK r, b : r = request[s] /\ b = file.entries
      OBVIOUS
    <3>3. r \in Rewriting /\ file \in File /\ Fits(r) /\ r.image \in Seq(Entry)
      BY <3>1, <3>2, RequestOf, RewritingFields DEF Writing
    <3>4. b \in Seq(Entry)
      BY <3>2, <3>3 DEF File
    <3>5. CASE r.at = "entries"
      <4>1. ~counted'
        BY <1>1, <3>2, <3>5
      <4>2. sound' => b = r.old /\ Keyed(r.old)
        BY <1>1, <3>2, <3>3, <3>5 DEF Fits
      <4> QED
        BY <1>1, <3>2, <4>1, <4>2 DEF FileFits
    <3>6. CASE r.at = "resize"
      <4>1. counted' \/ sound' => Len(b) <= Len(r.image)
        <5>1. counted' \/ sound' => ~torn(s)
          BY <1>1, <3>2, <3>6
        <5>2. Len(b) \in Nat /\ Len(r.image) \in Nat
          BY <3>3, <3>4
        <5>3. torn(s) <=> Len(b) > Len(r.image)
          BY <3>2, <3>6
        <5> QED
          BY <5>1, <5>2, <5>3
      <4>2. /\ Len(r.image) <= Len(b)
            /\ counted \/ sound => \A i \in DOMAIN r.image : b[i] = r.image[i]
            /\ counted => file.header = Counts(r.image)
            /\ sound => Keyed(r.image)
        BY <3>2, <3>3, <3>6 DEF Fits, Begins
      <4>3. counted' \/ sound' => b = r.image
        <5> SUFFICES ASSUME counted' \/ sound' PROVE b = r.image
          OBVIOUS
        <5>0. counted \/ sound
          BY <1>1
        <5>1. Len(b) = Len(r.image) /\ \A i \in DOMAIN r.image : b[i] = r.image[i]
          <6>1. Len(b) \in Nat /\ Len(r.image) \in Nat
            BY <3>3, <3>4
          <6> QED
            BY <4>1, <4>2, <5>0, <6>1
        <5> QED
          BY <3>3, <3>4, <5>1
      <4> QED
        BY <1>1, <3>2, <4>2, <4>3 DEF FileFits
    <3> QED
      BY <3>1, <3>2, <3>5, <3>6
  <2> QED
    BY <2>1, <2>2
<1> QED
  BY <1>3, <1>4, <1>5 DEF IInv

-----------------------------------------------------------------------------
(* The invariant *)

LEMMA InitHolds ==
    ASSUME Init
    PROVE  IInv
<1>1. CASE file = NoFile
  <2>1. Typed
    <3>1. 1 \in 1 .. MaxDeskRefs + 1
      BY BoundAssumption
    <3> QED
      BY <1>1, <3>1, IdleAt DEF Init, Typed, NoFile
  <2>2. ~file.there
    BY <1>1 DEF NoFile
  <2>3. \A s \in Session : request[s].at = "idle" /\ mOpenDesks[s] = {}
    BY IdleAt DEF Init
  <2> QED
    BY <2>1, <2>2, <2>3 DEF IInv, OneWriter, Writing, FileFits, Opened, Fits, Step
<1>2. CASE \E e \in DesktopEntry : file = DesktopFile(NoHeader, <<e>>)
  <2>1. PICK e \in DesktopEntry : file = DesktopFile(NoHeader, <<e>>)
    BY <1>2
  <2>2. PICK list : list = <<e>>
    OBVIOUS
  <2>3. list \in Seq(Entry) /\ Len(list) = 1 /\ Keyed(list)
    BY <2>2, EntryFields DEF Keyed
  <2>4. /\ file \in File /\ file.header = NoHeader /\ file.entries = list
    BY <2>1, <2>2, <2>3, ZerosType DEF DesktopFile, File
  <2>5. Typed
    <3>1. 1 \in 1 .. MaxDeskRefs + 1 /\ 1 <= MaxEntries
      BY BoundAssumption
    <3> QED
      BY <2>3, <2>4, <3>1, IdleAt DEF Init, Typed
  <2>6. \A s \in Session : request[s].at = "idle" /\ mOpenDesks[s] = {}
    BY IdleAt DEF Init
  <2>7. FileFits
    BY <2>3, <2>4 DEF FileFits
  <2> QED
    BY <2>5, <2>6, <2>7 DEF IInv, OneWriter, Writing, Opened, Fits, Step
<1> QED
  BY <1>1, <1>2 DEF Init

LEMMA NextKeeps ==
    ASSUME IInv, [Next]_vars
    PROVE  IInv'
<1>1. CASE UNCHANGED vars
  <2>1. \A r : Fits(r) => Fits(r)'
    BY <1>1 DEF vars, Fits, Begins, Made
  <2>2. \A s \in Session : Opened(s)' /\ Fits(request[s])'
    <3> SUFFICES ASSUME NEW s \in Session PROVE Opened(s)' /\ Fits(request[s])'
      OBVIOUS
    <3>1. Opened(s)'
      BY <1>1 DEF vars, IInv, Opened
    <3>2. PICK r : r = request[s]
      OBVIOUS
    <3>3. Fits(r) /\ request'[s] = r
      BY <1>1, <3>2 DEF vars, IInv
    <3>4. Fits(r)'
      BY <1>1, <3>3 DEF vars, Fits, Begins
    <3> QED
      BY <3>1, <3>3, <3>4
  <2>3. Typed' /\ OneWriter' /\ FileFits'
    BY <1>1 DEF vars, IInv, Typed, OneWriter, Writing, FileFits, Resting
  <2> QED
    BY <2>2, <2>3 DEF IInv
<1>2. CASE ServerStops
  BY <1>2, StopStep
<1>3. ASSUME NEW s \in Session,
             \/ FPOpenDT(s) \/ FPOpenDT_CreateFile(s) \/ FPOpenDT_WriteHeader(s)
             \/ FPOpenDT_OpenDesktop(s) \/ EndSession(s)
             \/ \E refnum \in 1 .. MaxDeskRefs :
                 \/ FPCloseDT(s, refnum)
                 \/ FPAddIcon(s, refnum) \/ FPAddAPPL(s, refnum) \/ FPRemoveAPPL(s, refnum)
                 \/ FPAddComment(s, refnum) \/ FPRemoveComment(s, refnum)
             \/ WriteHeader(s) \/ WriteEntries(s) \/ SetSize(s) \/ WriteComment(s)
      PROVE  IInv'
  BY <1>3, OpenStep, CreateStep, FirstHeaderStep, CommentStep, EntryStep, WriteHeaderStep,
     WriteEntriesStep, SetSizeStep
<1> QED
  BY <1>1, <1>2, <1>3 DEF Next

(* The invariant holds for any number of sessions and entries.             *)
THEOREM Invariance == Spec => []IInv
<1>1. Init => IInv
  BY InitHolds
<1>2. IInv /\ [Next]_vars => IInv'
  BY NextKeeps
<1> QED
  BY <1>1, <1>2, PTL DEF Spec

(* Every variable keeps its type; no two sessions write at once, and none  *)
(* is ever at a write to a file that is not there.                         *)
THEOREM TypeCorrect == Spec => []TypeOK
<1>1. ASSUME IInv PROVE TypeOK
  <2>1. /\ comment \in [Object -> Comment \cup {Blank, None}]
        /\ counted \in BOOLEAN /\ sound \in BOOLEAN
    BY <1>1 DEF IInv, Typed
  <2>2. file = NoFile \/
          /\ DOMAIN file = {"there", "header", "entries"}
          /\ file.header \in [iconCount : -1 .. MaxEntries, applCount : -1 .. MaxEntries]
          /\ file.entries \in Seq(DesktopEntry \cup Garbled)
          /\ Len(file.entries) <= MaxEntries
    <3> SUFFICES ASSUME file # NoFile
                 PROVE  /\ DOMAIN file = {"there", "header", "entries"}
                        /\ file.header \in [iconCount : -1..MaxEntries, applCount : -1..MaxEntries]
                        /\ file.entries \in Seq(DesktopEntry \cup Garbled)
                        /\ Len(file.entries) <= MaxEntries
      OBVIOUS
    <3>1. file \in File /\ file.there /\ Len(file.entries) <= MaxEntries
      BY <1>1 DEF IInv, Typed, File
    <3>2. DOMAIN file = {"there", "header", "entries"}
      BY <3>1 DEF File
    <3>3. \A h \in Header : h \in [iconCount : -1..MaxEntries, applCount : -1..MaxEntries]
      <4>1. -1 \in -1..MaxEntries /\ 0..MaxEntries \subseteq -1..MaxEntries
        BY BoundAssumption
      <4> QED
        BY <4>1 DEF Header, NoHeader
    <3> QED
      BY <3>1, <3>2, <3>3 DEF File, Entry
  <2>3. \A s \in Session :
            /\ request[s].at \in {"idle", "create", "zero", "open", "header", "entries",
                                  "resize", "comment"}
            /\ Writing(s) => /\ Len(request[s].image) <= MaxEntries
                             /\ request[s].entry \in DesktopEntry
                             /\ request[s].removes \in BOOLEAN
                             /\ file.there
            /\ mNextDeskRef[s] \in 1 .. MaxDeskRefs + 1
            /\ mOpenDesks[s] \subseteq 1 .. mNextDeskRef[s] - 1
    <3> SUFFICES ASSUME NEW s \in Session
                 PROVE  /\ request[s].at \in {"idle", "create", "zero", "open", "header",
                                              "entries", "resize", "comment"}
                        /\ Writing(s) => /\ Len(request[s].image) <= MaxEntries
                                         /\ request[s].entry \in DesktopEntry
                                         /\ request[s].removes \in BOOLEAN
                                         /\ file.there
                        /\ mNextDeskRef[s] \in 1 .. MaxDeskRefs + 1
                        /\ mOpenDesks[s] \subseteq 1 .. mNextDeskRef[s] - 1
      OBVIOUS
    <3>1. request[s] \in Request /\ Opened(s) /\ Fits(request[s])
      BY <1>1, RequestOf
    <3>2. request[s].at \in {"idle", "create", "zero", "open", "header", "entries", "resize",
                             "comment"}
      BY <3>1 DEF Request, Passing, Commenting, Rewriting, Step
    <3>3. ASSUME Writing(s)
          PROVE  /\ Len(request[s].image) <= MaxEntries
                 /\ request[s].entry \in DesktopEntry /\ request[s].removes \in BOOLEAN
                 /\ file.there
      BY <1>1, <3>3, RequestOf, RewritingFields DEF Fits
    <3>4. mNextDeskRef[s] \in 1 .. MaxDeskRefs + 1
      BY <1>1 DEF IInv, Typed
    <3> QED
      BY <3>1, <3>2, <3>3, <3>4 DEF Opened
  <2>4. Cardinality({s \in Session : Writing(s)}) <= 1
    <3> DEFINE W == {s \in Session : Writing(s)}
    <3>1. CASE W = {}
      BY <3>1, FS_EmptySet
    <3>2. CASE W # {}
      <4>1. PICK s \in W : TRUE
        BY <3>2
      <4>2. W = {s}
        BY <1>1, <4>1 DEF IInv, OneWriter
      <4> QED
        BY <4>2, FS_Singleton
    <3> QED
      BY <3>1, <3>2
  <2> QED
    BY <2>1, <2>2, <2>3, <2>4 DEF TypeOK
<1> QED
  BY <1>1, Invariance, PTL

(* When nobody writes, the counts of the header are those of the entries   *)
(* behind it, unless a fault or the race of FPOpenDT has come between.     *)
THEOREM HeaderCounts == Spec => []CountsAreRight
<1>1. IInv => CountsAreRight
  <2> SUFFICES ASSUME IInv, deskMutexFree, file.there, counted
               PROVE  \/ file.header = NoHeader
                      \/ /\ file.header.iconCount = Number(file.entries, "ICON")
                         /\ file.header.applCount = Number(file.entries, "APPL")
    BY DEF CountsAreRight
  <2>1. Resting
    BY DEF Resting, deskMutexFree, Writing
  <2> QED
    BY <2>1 DEF IInv, FileFits, Counts
<1> QED
  BY <1>1, Invariance, PTL

(* A search whose counts are right finds the first match.                  *)
LEMMA SearchFinds ==
    ASSUME NEW db \in File, NEW search, NEW index \in Nat,
           afp_CountDesktopItems(db) = Counts(db.entries),
           index <= Number(db.entries, search.entryType), search.entryType \in {"ICON", "APPL"},
           NEW i \in DOMAIN db.entries, Matches(search, index, db.entries[i], i)
    PROVE  LET p == afp_FindDTEntry(db, search, index) IN
           p \in DOMAIN db.entries /\ p # 0 /\ Matches(search, index, db.entries[p], p)
<1> DEFINE list == db.entries
           found == {j \in DOMAIN list : Matches(search, index, list[j], j)}
           counts == afp_CountDesktopItems(db)
           count == IF search.entryType = "ICON" THEN counts.iconCount ELSE counts.applCount
<1>1. list \in Seq(Entry)
  BY DEF File
<1>2. DOMAIN list = 1..Len(list) /\ Len(list) \in Nat
  BY <1>1
<1>3. count = Number(list, search.entryType) /\ Number(list, search.entryType) \in Nat
  BY <1>1, NumberType DEF Counts
<1>4. ~(index > count)
  BY <1>3
<1>5. i \in found /\ found \in SUBSET Nat /\ 0 \notin found
  BY <1>2
<1>6. afp_FindDTEntry(db, search, index) = CHOOSE j \in found : \A k \in found : j <= k
  BY <1>4, <1>5 DEF afp_FindDTEntry
<1>7. PICK p : p = afp_FindDTEntry(db, search, index)
  OBVIOUS
<1> HIDE DEF found
<1>8. p \in found
  BY <1>5, <1>6, <1>7, FirstMatch
<1> QED
  BY <1>5, <1>7, <1>8 DEF found

(* What is in a file with right counts is found.                           *)
THEOREM EntriesFound == Spec => []CountedEntriesAreFound
<1>1. ASSUME IInv, deskMutexFree, file.there, counted
      PROVE  /\ file \in File /\ file.entries \in Seq(Entry)
             /\ afp_CountDesktopItems(file) = Counts(file.entries)
  <2>1. Resting
    BY <1>1 DEF Resting, deskMutexFree, Writing
  <2>2. file \in File
    BY <1>1 DEF IInv, Typed, NoFile
  <2>3. file.header \in {NoHeader, Counts(file.entries)}
    BY <1>1, <2>1 DEF IInv, FileFits
  <2> QED
    BY <2>2, <2>3 DEF afp_CountDesktopItems, File
<1>2. ASSUME NEW db \in File, afp_CountDesktopItems(db) = Counts(db.entries),
             NEW i \in DOMAIN db.entries, db.entries[i] \in Icon
      PROVE  LET place == FPGetIcon(db, db.entries[i].fileCreator, db.entries[i].kind)
             IN  place # 0 /\ EqualIcon(db.entries[i], db.entries[place])
  <2>1. PICK e \in Icon : e = db.entries[i]
    BY <1>2
  <2>2. PICK search : search = [entryType |-> "ICON", fileCreator |-> e.fileCreator,
                                kind |-> e.kind, dataSize |-> 1]
    OBVIOUS
  <2>3. /\ search.entryType = "ICON" /\ search.fileCreator = e.fileCreator
        /\ search.kind = e.kind /\ search.dataSize = 1 /\ e.entryType = "ICON"
    BY <2>1, <2>2 DEF Icon
  <2>4. /\ i # 0 /\ i \in Nat /\ Number(db.entries, "ICON") \in Nat
        /\ db.entries \in Seq(Entry)
    BY <1>2, NumberType DEF File
  <2>5. \A x, j : Matches(search, 0, x, j) <=>
                    \/ EqualIcon(search, x)
                    \/ 0 = j /\ x.fileCreator = search.fileCreator
    BY <2>3 DEF Matches
  <2>6. Matches(search, 0, e, i)
    BY <2>3, <2>5 DEF EqualIcon
  <2>7. 0 <= Number(db.entries, search.entryType) /\ search.entryType \in {"ICON", "APPL"}
    BY <2>3, <2>4
  <2>8. PICK p : p = afp_FindDTEntry(db, search, 0)
    OBVIOUS
  <2>9. p \in DOMAIN db.entries /\ p # 0 /\ Matches(search, 0, db.entries[p], p)
    BY <1>2, <2>1, <2>6, <2>7, <2>8, SearchFinds
  <2>10. EqualIcon(e, db.entries[p])
    BY <2>3, <2>5, <2>9 DEF EqualIcon
  <2>11. FPGetIcon(db, e.fileCreator, e.kind) = p
    BY <2>2, <2>8 DEF FPGetIcon
  <2> QED
    BY <2>1, <2>9, <2>10, <2>11
<1>3. ASSUME NEW db \in File, afp_CountDesktopItems(db) = Counts(db.entries),
             NEW i \in DOMAIN db.entries, db.entries[i] \in Appl
      PROVE  LET place == FPGetAPPL(db, db.entries[i].fileCreator, 1)
             IN  place # 0 /\ EqualAppl(db.entries[i], db.entries[place])
  <2>1. PICK e \in Appl : e = db.entries[i]
    BY <1>3
  <2>2. PICK search : search = [entryType |-> "APPL", fileCreator |-> e.fileCreator,
                                kind |-> None, dataSize |-> 0]
    OBVIOUS
  <2>3. /\ search.entryType = "APPL" /\ search.fileCreator = e.fileCreator
        /\ e.entryType = "APPL"
    BY <2>1, <2>2 DEF Appl
  <2>4. /\ db.entries \in Seq(Entry) /\ Number(db.entries, "APPL") \in Nat
        /\ 1 <= Number(db.entries, "APPL")
    <3>1. db.entries \in Seq(Entry)
      BY DEF File
    <3>2. Cardinality({i}) <= Number(db.entries, "APPL") /\ Number(db.entries, "APPL") \in Nat
      BY <1>3, <2>1, <2>3, <3>1, NumberType
    <3> QED
      BY <3>1, <3>2, FS_Singleton
  <2>5. \A x, j : Matches(search, 1, x, j) <=> EqualAppl(search, x)
    BY <2>3 DEF Matches
  <2>6. Matches(search, 1, e, i)
    BY <2>3, <2>5 DEF EqualAppl
  <2>7. 1 <= Number(db.entries, search.entryType) /\ search.entryType \in {"ICON", "APPL"}
    BY <2>3, <2>4
  <2>8. PICK p : p = afp_FindDTEntry(db, search, 1)
    OBVIOUS
  <2>9. p \in DOMAIN db.entries /\ p # 0 /\ Matches(search, 1, db.entries[p], p)
    BY <1>3, <2>1, <2>6, <2>7, <2>8, SearchFinds
  <2>10. EqualAppl(e, db.entries[p])
    BY <2>3, <2>5, <2>9 DEF EqualAppl
  <2>11. FPGetAPPL(db, e.fileCreator, 1) = p
    BY <2>2, <2>8 DEF FPGetAPPL
  <2> QED
    BY <2>1, <2>9, <2>10, <2>11
<1>4. ASSUME NEW db \in File, afp_CountDesktopItems(db) = Counts(db.entries),
             NEW i \in DOMAIN db.entries,
             \A j \in 1 .. i : /\ db.entries[j] \in Icon
                               /\ db.entries[j].fileCreator = db.entries[i].fileCreator
      PROVE  FPGetIconInfo(db, db.entries[i].fileCreator, i) = i
  <2>1. PICK creator : creator = db.entries[i].fileCreator
    OBVIOUS
  <2>2. PICK search : search = [entryType |-> "ICON", fileCreator |-> creator,
                                kind |-> None, dataSize |-> 0]
    OBVIOUS
  <2>3. search.entryType = "ICON" /\ search.fileCreator = creator /\ search.dataSize = 0
    BY <2>2
  <2>4. /\ db.entries \in Seq(Entry) /\ i \in Nat /\ i # 0
        /\ Number(db.entries, "ICON") \in Nat /\ i <= Number(db.entries, "ICON")
    <3>1. db.entries \in Seq(Entry)
      BY DEF File
    <3>2. i \in Nat \ {0} /\ 1..i \subseteq DOMAIN db.entries
      BY <3>1
    <3>3. \A j \in 1..i : db.entries[j].entryType = "ICON"
      BY <1>4 DEF Icon
    <3>4. Cardinality(1..i) <= Number(db.entries, "ICON") /\ Number(db.entries, "ICON") \in Nat
      BY <3>1, <3>2, <3>3, NumberType
    <3>5. Cardinality(1..i) = i
      BY <3>2, FS_Interval
    <3> QED
      BY <3>1, <3>2, <3>4, <3>5
  <2>5. \A x, j : Matches(search, i, x, j) <=> i = j /\ x.fileCreator = creator
    BY <2>3 DEF Matches
  <2>6. Matches(search, i, db.entries[i], i)
    BY <2>1, <2>5
  <2>7. i <= Number(db.entries, search.entryType) /\ search.entryType \in {"ICON", "APPL"}
    BY <2>3, <2>4
  <2>8. PICK p : p = afp_FindDTEntry(db, search, i)
    OBVIOUS
  <2>9. p \in DOMAIN db.entries /\ Matches(search, i, db.entries[p], p)
    BY <1>4, <2>4, <2>6, <2>7, <2>8, SearchFinds
  <2>10. p = i
    BY <2>5, <2>9
  <2>11. FPGetIconInfo(db, creator, i) = p
    BY <2>2, <2>8 DEF FPGetIconInfo
  <2> QED
    BY <2>1, <2>10, <2>11
<1>5. IInv => CountedEntriesAreFound
  <2> SUFFICES ASSUME IInv, deskMutexFree, file.there, counted, NEW i \in DOMAIN file.entries
               PROVE  /\ file.entries[i] \in Icon =>
                            LET place == FPGetIcon(file, file.entries[i].fileCreator,
                                                   file.entries[i].kind)
                            IN  place # 0 /\ EqualIcon(file.entries[i], file.entries[place])
                      /\ file.entries[i] \in Appl =>
                            LET place == FPGetAPPL(file, file.entries[i].fileCreator, 1)
                            IN  place # 0 /\ EqualAppl(file.entries[i], file.entries[place])
                      /\ (\A j \in 1 .. i :
                             /\ file.entries[j] \in Icon
                             /\ file.entries[j].fileCreator = file.entries[i].fileCreator)
                         => FPGetIconInfo(file, file.entries[i].fileCreator, i) = i
    BY DEF CountedEntriesAreFound
  <2>1. file \in File /\ afp_CountDesktopItems(file) = Counts(file.entries)
    BY <1>1
  <2> QED
    BY <2>1, <1>2, <1>3, <1>4
<1> QED
  BY <1>5, Invariance, PTL

-----------------------------------------------------------------------------
(* The database implements a dictionary: what it holds *)

(* What a list holds under a key: the first entry that has it.             *)
Held(list, k) ==
    LET place == SelectInSeq(list, LAMBDA e : KeyOf(e) = k)
    IN  IF place = 0 THEN None ELSE list[place]

(* What the dictionary holds, and the operation of a request in it.        *)
Dict(list, comments) ==
    [k \in Keys \cup Object |->
        IF k \in Object THEN IF comments[k] = Blank THEN None ELSE comments[k]
        ELSE Held(list, k)]
Rest == [key |-> None, value |-> None, done |-> TRUE]
Change(list, r) ==
    IF r.at = "comment"
    THEN [key |-> r.object, value |-> IF r.text = Blank THEN None ELSE r.text, done |-> FALSE]
    ELSE IF r.at \notin Step THEN Rest
    ELSE [key |-> KeyOf(r.entry), value |-> IF r.removes THEN None ELSE r.entry,
          done |-> r.at = "resize" /\ Held(list, KeyOf(r.entry)) = None]
Changes == [s \in Session |-> Change(View, request[s])]

LEMMA HeldUnfold ==
    /\ \A k : Stored(k) = Held(View, k)
    /\ \A k : Stored(k)' = Held(View', k)
BY DEF Stored, Held, SelectInSeq

LEMMA FirstHeld ==
    ASSUME NEW list \in Seq(Entry), NEW k
    PROVE  /\ (\A i \in DOMAIN list : KeyOf(list[i]) # k) => Held(list, k) = None
           /\ (\E i \in DOMAIN list : KeyOf(list[i]) = k) =>
                 \E i \in DOMAIN list : KeyOf(list[i]) = k /\ Held(list, k) = list[i]
<1> DEFINE I == {i \in 1..Len(list) : KeyOf(list[i]) = k}
           place == SelectInSeq(list, LAMBDA e : KeyOf(e) = k)
<1>0. Len(list) \in Nat /\ DOMAIN list = 1..Len(list)
  OBVIOUS
<1>1. place = IF I = {} THEN 0 ELSE Min(I)
  BY DEF SelectInSeq
<1>2. I \in SUBSET Nat /\ 0 \notin I
  BY <1>0
<1>3. Held(list, k) = IF place = 0 THEN None ELSE list[place]
  BY DEF Held
<1> HIDE DEF place
<1>4. CASE I = {}
  BY <1>0, <1>1, <1>3, <1>4
<1>5. CASE I # {}
  <2>1. Min(I) \in I
    BY <1>2, <1>5, MinIsLeast
  <2>2. place \in I /\ place # 0
    BY <1>1, <1>2, <1>5, <2>1
  <2> QED
    BY <1>0, <1>3, <2>2
<1> QED
  BY <1>4, <1>5

(* If all the entries of a list that have a key are the same one, that is  *)
(* what the list holds under the key.                                      *)
LEMMA HeldByRange ==
    ASSUME NEW list \in Seq(Entry), NEW k
    PROVE  /\ (\A x \in Range(list) : KeyOf(x) # k) => Held(list, k) = None
           /\ \A v \in Range(list) :
                 KeyOf(v) = k /\ (\A x \in Range(list) : KeyOf(x) = k => x = v)
                    => Held(list, k) = v
           /\ Held(list, k) # None => Held(list, k) \in Range(list)
                                      /\ KeyOf(Held(list, k)) = k
<1>1. \A i \in DOMAIN list : list[i] \in Range(list)
  BY DEF Range
<1>2. \A v \in Range(list) : \E i \in DOMAIN list : v = list[i]
  BY DEF Range
<1> QED
  BY <1>1, <1>2, FirstHeld

(* So two lists with the same entries for a key hold the same under it.    *)
LEMMA HeldAlike ==
    ASSUME NEW old \in Seq(Entry), NEW new \in Seq(Entry), NEW k,
           \A x, y \in Range(old) : KeyOf(x) = k /\ KeyOf(y) = k => x = y,
           \A x : KeyOf(x) = k => (x \in Range(old) <=> x \in Range(new))
    PROVE  Held(new, k) = Held(old, k)
<1>1. CASE \A x \in Range(old) : KeyOf(x) # k
  <2>1. \A x \in Range(new) : KeyOf(x) # k
    BY <1>1
  <2> QED
    BY <1>1, <2>1, HeldByRange
<1>2. CASE \E x \in Range(old) : KeyOf(x) = k
  <2>1. PICK v \in Range(old) : KeyOf(v) = k
    BY <1>2
  <2>2. v \in Range(new) /\ \A x \in Range(new) : KeyOf(x) = k => x = v
    BY <2>1
  <2>3. \A x \in Range(old) : KeyOf(x) = k => x = v
    BY <2>1
  <2> QED
    BY <2>1, <2>2, <2>3, HeldByRange
<1> QED
  BY <1>1, <1>2

LEMMA KeyedAgree ==
    ASSUME NEW list, Keyed(list)
    PROVE  /\ \A x, y \in Range(list) : KeyOf(x) = KeyOf(y) => x = y
           /\ list \in Seq(Entry) /\ Range(list) \subseteq DesktopEntry
<1>1. list \in Seq(DesktopEntry) /\ DesktopEntry \subseteq Entry
  BY DEF Keyed, Entry
<1>2. list \in Seq(Entry)
  BY <1>1
<1> QED
  BY <1>1, <1>2 DEF Keyed, Range

(* What the list in the middle of an operation is.                         *)
LEMMA ViewIs ==
    ASSUME IInv
    PROVE  /\ \A s \in Session : request[s].at = "entries" => View = request[s].old
           /\ (\A s \in Session : request[s].at # "entries") =>
                 View = IF file.there THEN file.entries ELSE <<>>
<1>1. ASSUME NEW s \in Session, request[s].at = "entries" PROVE View = request[s].old
  <2>1. \A t \in Session : request[t].at = "entries" => t = s
    BY <1>1 DEF IInv, OneWriter, Writing
  <2>2. (CHOOSE t \in Session : request[t].at = "entries") = s
    BY <1>1, <2>1
  <2> QED
    BY <1>1, <2>2 DEF View
<1> QED
  BY <1>1 DEF View

-----------------------------------------------------------------------------
(* Each step in the terms of the dictionary *)

LEMMA Mapped ==
    /\ Contents = Dict(View, comment) /\ Contents' = Dict(View', comment')
    /\ Operations = Changes /\ Operations' = Changes'
BY HeldUnfold DEF Contents, Operations, Dict, FPGetComment, Changes, Change, Rest, Writing, Step

(* The beginning of an operation, its effect and its end, a stop, and      *)
(* nothing at all.                                                         *)
LEMMA BeginsThere ==
    ASSUME sound, sound', NEW s \in Session, NEW k \in Keys \cup Object,
           NEW v \in DesktopEntry \cup Comment \cup {None},
           Operations[s] = Rest, Contents' = Contents,
           Operations' = [Operations EXCEPT ![s] = [key |-> k, value |-> v, done |-> FALSE]],
           sound' = sound
    PROVE  Store!Next
BY DEF Store!Next, Store!Begin, Store!Resting, Rest

LEMMA AppliesThere ==
    ASSUME sound, sound' = sound, NEW s \in Session, ~Operations[s].done,
           Contents' = [Contents EXCEPT ![Operations[s].key] = Operations[s].value],
           \/ Operations' = [Operations EXCEPT ![s].done = TRUE]
           \/ Operations' = [Operations EXCEPT ![s] = Rest]
    PROVE  Store!Next
BY DEF Store!Next, Store!Apply, Store!Resting, Rest

LEMMA FinishesThere ==
    ASSUME sound, sound' = sound, NEW s \in Session, Contents' = Contents,
           Operations' = [Operations EXCEPT ![s] = Rest]
    PROVE  Store!Next
BY DEF Store!Next, Store!Finish, Store!Resting, Rest

LEMMA StopsThere ==
    ASSUME sound, sound' = sound, Contents' = Contents, Operations' = [s \in Session |-> Rest]
    PROVE  Store!Next
BY DEF Store!Next, Store!Stop, Store!Resting, Rest

LEMMA StuttersThere ==
    ASSUME sound' = sound, Contents' = Contents, Operations' = Operations
    PROVE  UNCHANGED Store!vars
BY DEF Store!vars

LEMMA FaultThere ==
    ASSUME sound' = FALSE
    PROVE  Store!Next
BY DEF Store!Next, Store!Fault

(* How the operations there change with the request of one session.        *)
LEMMA OneChange ==
    ASSUME IInv, NEW s \in Session, NEW q, request' = [request EXCEPT ![s] = q],
           Writing(s) \/ View' = View
    PROVE  /\ Operations' = [Operations EXCEPT ![s] = Change(View', q)]
           /\ Operations[s] = Change(View, request[s])
<1>1. ASSUME NEW t \in Session, t # s PROVE Change(View', request'[t]) = Change(View, request[t])
  <2>1. request'[t] = request[t]
    BY <1>1
  <2>2. CASE View' = View
    BY <2>1, <2>2
  <2>3. CASE Writing(s)
    <3>1. request[t].at # "resize"
      BY <1>1, <2>3 DEF IInv, OneWriter, Writing
    <3> QED
      BY <2>1, <3>1 DEF Change
  <2> QED
    BY <2>2, <2>3
<1>2. request'[s] = q
  BY DEF IInv, Typed
<1>3. PICK old : old = Changes
  OBVIOUS
<1>4. PICK new : new = Changes'
  OBVIOUS
<1>5. PICK c : c = Change(View', q)
  OBVIOUS
<1>6. old = [t \in Session |-> Change(View, request[t])]
  BY <1>3 DEF Changes
<1>7. new = [t \in Session |-> Change(View', request'[t])]
  BY <1>4 DEF Changes
<1>8. \A t \in Session : new[t] = IF t = s THEN c ELSE old[t]
  BY <1>1, <1>2, <1>5, <1>6, <1>7
<1>9. DOMAIN old = Session /\ DOMAIN new = Session
  BY <1>6, <1>7
<1>10. new = [t \in Session |-> new[t]] /\ [old EXCEPT ![s] = c] = [t \in Session |-> IF t = s THEN c ELSE old[t]]
  BY <1>6, <1>7
<1>11. new = [old EXCEPT ![s] = c]
  BY <1>8, <1>10
<1> QED
  BY <1>3, <1>4, <1>5, <1>6, <1>11, Mapped

-----------------------------------------------------------------------------
(* The step here and the step there *)

(* The entries that the file has to show.                                  *)
Seen == IF file.there THEN file.entries ELSE <<>>

(* What the list is after a step.                                          *)
LEMMA ViewThen ==
    ASSUME IInv'
    PROVE  /\ \A s \in Session : request'[s].at = "entries" => View' = request'[s].old
           /\ (\A s \in Session : request'[s].at # "entries") => View' = Seen'
<1>1. ASSUME NEW s \in Session, request'[s].at = "entries" PROVE View' = request'[s].old
  <2>1. \A t \in Session : request'[t].at = "entries" => t = s
    BY <1>1 DEF IInv, OneWriter, Writing
  <2>2. (CHOOSE t \in Session : request'[t].at = "entries") = s
    BY <1>1, <2>1
  <2> QED
    BY <1>1, <2>2 DEF View
<1> QED
  BY <1>1 DEF View, Seen

(* It is the same if what the file shows is, and the step is not one       *)
(* between the header and the entries.                                     *)
LEMMA ViewStays ==
    ASSUME IInv, IInv', NEW s \in Session, NEW q, request' = [request EXCEPT ![s] = q],
           request[s].at # "entries", q.at # "entries", Seen' = Seen
    PROVE  View' = View
<1>1. \A t \in Session : request'[t] = IF t = s THEN q ELSE request[t]
  BY DEF IInv, Typed
<1>2. CASE \E t \in Session : request[t].at = "entries"
  <2>1. PICK t \in Session : request[t].at = "entries"
    BY <1>2
  <2>2. View = request[t].old
    BY <2>1, ViewIs
  <2>3. request'[t] = request[t]
    BY <1>1, <2>1
  <2>4. View' = request'[t].old
    BY <2>1, <2>3, ViewThen
  <2> QED
    BY <2>2, <2>3, <2>4
<1>3. CASE \A t \in Session : request[t].at # "entries"
  <2>1. View = Seen
    BY <1>3, ViewIs DEF Seen
  <2>2. \A t \in Session : request'[t].at # "entries"
    BY <1>1, <1>3
  <2>3. View' = Seen'
    BY <2>2, ViewThen
  <2> QED
    BY <2>1, <2>3
<1> QED
  BY <1>2, <1>3

(* The dictionary is the same if list and comments are.                    *)
LEMMA ContentsStay ==
    ASSUME View' = View, comment' = comment
    PROVE  Contents' = Contents
<1>1. PICK v, c : v = View /\ c = comment
  OBVIOUS
<1>2. Dict(View', comment') = Dict(v, c) /\ Dict(View, comment) = Dict(v, c)
  BY <1>1
<1> QED
  BY <1>2, Mapped

(* A request that neither writes nor is about to write a comment rests.    *)
LEMMA PassingRests ==
    ASSUME NEW r \in Passing, NEW list
    PROVE  Change(list, r) = Rest
BY DEF Passing, Change, Step

LEMMA QuietStutters ==
    ASSUME IInv, IInv', NEW s \in Session, NEW q \in Passing, request[s] \in Passing,
           request' = [request EXCEPT ![s] = q], Seen' = Seen,
           comment' = comment, sound' = sound
    PROVE  UNCHANGED Store!vars
<1>1. request[s].at # "entries" /\ q.at # "entries"
  BY DEF Passing
<1>2. View' = View
  BY <1>1, ViewStays
<1>3. /\ Operations' = [Operations EXCEPT ![s] = Change(View', q)]
      /\ Operations[s] = Change(View, request[s])
  BY <1>2, OneChange
<1>4. Operations' = [Operations EXCEPT ![s] = Rest] /\ Operations[s] = Rest
  BY <1>3, PassingRests
<1>5. Operations = [t \in Session |-> Operations[t]]
  BY DEF Operations
<1>6. Operations' = Operations
  BY <1>4, <1>5
<1> QED
  BY <1>2, <1>6, ContentsStay, StuttersThere

(* FPOpenDT, FPCloseDT and the end of a session are nothing to it.         *)
LEMMA OpenThere ==
    ASSUME IInv, IInv', NEW s \in Session, NEW refnum,
           \/ FPOpenDT(s) \/ FPOpenDT_OpenDesktop(s) \/ EndSession(s) \/ FPCloseDT(s, refnum)
    PROVE  UNCHANGED Store!vars
<1>1. file' = file /\ comment' = comment /\ sound' = sound
  BY DEF FPOpenDT, FPOpenDT_OpenDesktop, EndSession, FPCloseDT
<1>2. Seen' = Seen
  BY <1>1 DEF Seen
<1>3. request[s] \in Request /\ Idle \in Passing
  BY RequestOf, IdleAt
<1>4. request[s].at \in {"idle", "open"}
  BY IdleAt DEF FPOpenDT, FPOpenDT_OpenDesktop, EndSession, FPCloseDT
<1>5. request[s] \in Passing
  BY <1>3, <1>4 DEF Request, Passing, Commenting, Rewriting, Step
<1>6. \E q \in Passing : request' = [request EXCEPT ![s] = q]
  <2>1. CASE FPOpenDT(s)
    <3>1. [at |-> IF file.there THEN "open" ELSE "create"] \in Passing
      BY DEF Passing
    <3> QED
      BY <2>1, <3>1 DEF FPOpenDT
  <2>2. CASE FPOpenDT_OpenDesktop(s)
    BY <1>3, <2>2 DEF FPOpenDT_OpenDesktop
  <2>3. CASE EndSession(s) \/ FPCloseDT(s, refnum)
    <3>1. request' = request
      BY <2>3 DEF EndSession, FPCloseDT
    <3>2. request = [request EXCEPT ![s] = request[s]]
      BY DEF IInv, Typed
    <3> QED
      BY <1>5, <3>1, <3>2
  <2> QED
    BY <2>1, <2>2, <2>3
<1> QED
  BY <1>1, <1>2, <1>5, <1>6, QuietStutters

(* Nor are the new file and its first header, which cover no entry.        *)
LEMMA CreateThere ==
    ASSUME IInv, IInv', NEW s \in Session, FPOpenDT_CreateFile(s) \/ FPOpenDT_WriteHeader(s)
    PROVE  UNCHANGED Store!vars
<1>1. comment' = comment /\ sound' = sound
  BY DEF FPOpenDT_CreateFile, FPOpenDT_WriteHeader
<1>2. Seen' = Seen
  <2>1. CASE FPOpenDT_CreateFile(s)
    <3>1. file' = file \/ (~file.there /\ file' = DesktopFile(NoHeader, <<>>))
      BY <2>1 DEF FPOpenDT_CreateFile
    <3> QED
      BY <3>1 DEF Seen, DesktopFile
  <2>2. CASE FPOpenDT_WriteHeader(s)
    <3>1. file \in File
      BY <2>2, RequestOf DEF FPOpenDT_WriteHeader
    <3>2. file' = file \/ file' = [file EXCEPT !.header = Zeros]
      BY <2>2 DEF FPOpenDT_WriteHeader
    <3> QED
      BY <3>1, <3>2 DEF Seen, File
  <2> QED
    BY <2>1, <2>2
<1>3. request[s] \in Request /\ request[s].at \in {"create", "zero"}
  BY RequestOf DEF FPOpenDT_CreateFile, FPOpenDT_WriteHeader
<1>4. request[s] \in Passing
  BY <1>3 DEF Request, Passing, Commenting, Rewriting, Step
<1>5. [at |-> "zero"] \in Passing /\ [at |-> "open"] \in Passing
  BY DEF Passing
<1>6. \E q \in Passing : request' = [request EXCEPT ![s] = q]
  BY <1>5 DEF FPOpenDT_CreateFile, FPOpenDT_WriteHeader
<1> QED
  BY <1>1, <1>2, <1>4, <1>6, QuietStutters

(* An operation that begins here begins there.                             *)
LEMMA IdleRests ==
    ASSUME IInv, NEW s \in Session, NEW q, request[s] = Idle, q.at # "entries",
           request' = [request EXCEPT ![s] = q], IInv',
           UNCHANGED <<file, comment, sound>>
    PROVE  /\ View' = View /\ Contents' = Contents /\ Operations[s] = Rest
           /\ Operations' = [Operations EXCEPT ![s] = Change(View', q)]
<1>1. request[s].at # "entries" /\ request[s] \in Passing
  BY IdleAt
<1>2. Seen' = Seen
  BY DEF Seen
<1>3. View' = View
  BY <1>1, <1>2, ViewStays
<1>4. Operations' = [Operations EXCEPT ![s] = Change(View', q)]
      /\ Operations[s] = Change(View, request[s])
  BY <1>3, OneChange
<1> QED
  BY <1>1, <1>3, <1>4, PassingRests, ContentsStay

LEMMA BeginThere ==
    ASSUME IInv, IInv', sound, NEW s \in Session, request[s] = Idle, NEW r \in Rewriting,
           r.at = "header", request' = [request EXCEPT ![s] = r],
           UNCHANGED <<file, comment, sound>>
    PROVE  Store!Next
<1>1. PICK k, v : k = KeyOf(r.entry) /\ v = IF r.removes THEN None ELSE r.entry
  OBVIOUS
<1>2. k \in Keys /\ v \in DesktopEntry \cup {None}
  BY <1>1, RewritingFields DEF Keys
<1>3. \A list : Change(list, r) = [key |-> k, value |-> v, done |-> FALSE]
  BY <1>1 DEF Change, Step
<1>4. /\ Contents' = Contents /\ Operations[s] = Rest
      /\ Operations' = [Operations EXCEPT ![s] = Change(View', r)]
  BY IdleRests
<1>5. Operations' = [Operations EXCEPT ![s] = [key |-> k, value |-> v, done |-> FALSE]]
  BY <1>3, <1>4
<1>6. sound' = sound /\ sound' /\ v \in DesktopEntry \cup Comment \cup {None}
  BY <1>2
<1> QED
  BY <1>2, <1>4, <1>5, <1>6, BeginsThere

LEMMA EntryThere ==
    ASSUME IInv, IInv', sound, NEW s \in Session, NEW refnum,
           FPAddIcon(s, refnum) \/ FPAddAPPL(s, refnum) \/ FPRemoveAPPL(s, refnum)
    PROVE  Store!Next
<1>1. CASE \E e \in DesktopEntry : afp_AddEntry(s, refnum, e)
  BY <1>1, AddMakes, BeginThere
<1>2. CASE \E creator \in Creator : afp_RemoveEntry(s, refnum, creator)
  BY <1>2, RemoveMakes, BeginThere
<1> QED
  BY <1>1, <1>2 DEF FPAddIcon, FPAddAPPL, FPRemoveAPPL, DesktopEntry

LEMMA CommentThere ==
    ASSUME IInv, IInv', sound, NEW s \in Session, NEW refnum,
           FPAddComment(s, refnum) \/ FPRemoveComment(s, refnum)
    PROVE  Store!Next
<1>1. PICK n \in Object, text \in Comment \cup {Blank, None} :
         request' = [request EXCEPT ![s] = [at |-> "comment", object |-> n, text |-> text]]
  BY DEF FPAddComment, FPRemoveComment
<1>2. PICK q : q = [at |-> "comment", object |-> n, text |-> text]
  OBVIOUS
<1>3. PICK v : v = IF text = Blank THEN None ELSE text
  OBVIOUS
<1>4. v \in DesktopEntry \cup Comment \cup {None} /\ n \in Keys \cup Object
  BY <1>3
<1>5. \A list : Change(list, q) = [key |-> n, value |-> v, done |-> FALSE]
  BY <1>2, <1>3 DEF Change
<1>6. /\ request[s] = Idle /\ UNCHANGED <<file, comment, sound>> /\ q.at # "entries"
      /\ request' = [request EXCEPT ![s] = q]
  BY <1>1, <1>2 DEF FPAddComment, FPRemoveComment
<1>7. /\ Contents' = Contents /\ Operations[s] = Rest
      /\ Operations' = [Operations EXCEPT ![s] = Change(View', q)]
  BY <1>6, IdleRests
<1>8. Operations' = [Operations EXCEPT ![s] = [key |-> n, value |-> v, done |-> FALSE]]
  BY <1>5, <1>7
<1>9. sound' = sound /\ sound'
  BY <1>6
<1> QED
  BY <1>4, <1>7, <1>8, <1>9, BeginsThere

(* What a list holds under one key is one value there.                     *)
LEMMA DictEntry ==
    ASSUME NEW old, NEW new, NEW comments, NEW key \in Keys, NEW v,
           \A k \in Keys : Held(new, k) = IF k = key THEN v ELSE Held(old, k)
    PROVE  \A k \in Keys \cup Object :
              Dict(new, comments)[k] = IF k = key THEN v ELSE Dict(old, comments)[k]
BY ObjectAssumption DEF Dict

(* A comment that is written is the effect of its operation.               *)
LEMMA WriteCommentThere ==
    ASSUME IInv, IInv', sound, NEW s \in Session, WriteComment(s)
    PROVE  Store!Next
<1>1. PICK r : r = request[s]
  OBVIOUS
<1>2. /\ r.at = "comment" /\ UNCHANGED <<file, sound>>
      /\ request' = [request EXCEPT ![s] = Idle]
      /\ comment' = [comment EXCEPT ![r.object] = r.text] \/ comment' = comment
  BY <1>1 DEF WriteComment
<1>3. r \in Commenting /\ comment \in [Object -> Comment \cup {Blank, None}]
  BY <1>1, <1>2, RequestOf DEF IInv, Typed
<1>4. PICK o, text : o = r.object /\ text = r.text
  OBVIOUS
<1>5. PICK v : v = IF text = Blank THEN None ELSE text
  OBVIOUS
<1>6. o \in Object
  BY <1>3, <1>4 DEF Commenting
<1>7. Seen' = Seen
  BY <1>2 DEF Seen
<1>8. View' = View
  BY <1>1, <1>2, <1>7, IdleAt, ViewStays
<1>9. /\ Operations' = [Operations EXCEPT ![s] = Change(View', Idle)]
      /\ Operations[s] = Change(View, request[s])
  BY <1>2, <1>8, OneChange
<1>10. Operations' = [Operations EXCEPT ![s] = Rest]
  BY <1>9, IdleAt, PassingRests
<1>11. Operations[s] = [key |-> o, value |-> v, done |-> FALSE]
  BY <1>1, <1>2, <1>4, <1>5, <1>9 DEF Change
<1>12. CASE comment' = comment
  BY <1>2, <1>8, <1>10, <1>12, ContentsStay, FinishesThere
<1>13. CASE comment' = [comment EXCEPT ![r.object] = r.text]
  <2>1. PICK list, old, new : list = View /\ old = comment /\ new = comment'
    OBVIOUS
  <2>2. View' = list /\ new = [old EXCEPT ![o] = text] /\ old \in [Object -> Comment \cup {Blank, None}]
    BY <1>3, <1>4, <1>8, <1>13, <2>1
  <2>3. Contents' = Dict(list, new) /\ Contents = Dict(list, old)
    BY <2>1, <2>2, Mapped
  <2>4. Contents' = [Contents EXCEPT ![o] = v]
    <3>1. PICK a, b : a = Dict(list, new) /\ b = Dict(list, old)
      OBVIOUS
    <3>2. a = [b EXCEPT ![o] = v]
      <4>1. \A n \in Object : new[n] = IF n = o THEN text ELSE old[n]
        BY <2>2
      <4>2. /\ a = [k \in Keys \cup Object |-> a[k]]
            /\ [b EXCEPT ![o] = v] = [k \in Keys \cup Object |-> IF k = o THEN v ELSE b[k]]
        BY <3>1 DEF Dict
      <4>3. \A k \in Keys \cup Object : a[k] = IF k = o THEN v ELSE b[k]
        BY <1>5, <1>6, <3>1, <4>1 DEF Dict
      <4> QED
        BY <4>2, <4>3
    <3> QED
      BY <2>3, <3>1, <3>2
  <2>5. /\ Contents' = [Contents EXCEPT ![Operations[s].key] = Operations[s].value]
        /\ ~Operations[s].done
    BY <1>11, <2>4
  <2> QED
    BY <1>2, <1>10, <2>5, AppliesThere
<1> QED
  BY <1>2, <1>12, <1>13

(* The first of the three writes is nothing there: what the list was is    *)
(* remembered.                                                             *)
LEMMA WriteHeaderThere ==
    ASSUME IInv, IInv', NEW s \in Session, WriteHeader(s)
    PROVE  UNCHANGED Store!vars
<1>1. PICK r, list, q : /\ r = request[s] /\ list = file.entries
                        /\ q = [r EXCEPT !.at = "entries", !.old = list]
  OBVIOUS
<1>2. Writing(s) /\ r.at = "header"
  BY <1>1 DEF WriteHeader, Writing
<1>3. r \in Rewriting /\ file \in File /\ file.there
  BY <1>1, <1>2, RequestOf
<1>4. q.at = "entries" /\ q.old = list /\ q.entry = r.entry /\ q.removes = r.removes
  BY <1>1, <1>3 DEF Rewriting
<1>5. request' = [request EXCEPT ![s] = q] /\ comment' = comment /\ sound' = sound
  BY <1>1, <1>3 DEF WriteHeader, IInv, Typed
<1>6. View = list
  <2>1. Resting
    BY <1>1, <1>2, WriterAlone
  <2> QED
    BY <1>1, <1>3, <2>1, ViewIs DEF Resting
<1>7. request'[s] = q
  BY <1>5 DEF IInv, Typed
<1>8. View' = list
  BY <1>4, <1>7, ViewThen
<1>9. View' = View
  BY <1>6, <1>8
<1>10. /\ Operations' = [Operations EXCEPT ![s] = Change(View', q)]
       /\ Operations[s] = Change(View, request[s])
  BY <1>5, <1>9, OneChange
<1>11. Change(list, q) = Change(list, r)
  BY <1>2, <1>4 DEF Change, Step
<1>12. Operations' = [Operations EXCEPT ![s] = Operations[s]]
  BY <1>1, <1>6, <1>8, <1>10, <1>11
<1>13. Operations' = Operations
  BY <1>12 DEF Operations
<1> QED
  BY <1>5, <1>9, <1>13, ContentsStay, StuttersThere

LEMMA SameDict ==
    ASSUME NEW old, NEW new, NEW comments, \A k \in Keys : Held(new, k) = Held(old, k)
    PROVE  Dict(new, comments) = Dict(old, comments)
BY DEF Dict

(* What a list holds once an operation has made its array of it.           *)
LEMMA HeldAdded ==
    ASSUME NEW old, Keyed(old), NEW r \in Rewriting, Made(old, r), ~r.removes, NEW k
    PROVE  Held(r.image, k) = IF k = KeyOf(r.entry) THEN r.entry ELSE Held(old, k)
<1>1. PICK e, image : e = r.entry /\ image = r.image
  OBVIOUS
<1>2. old \in Seq(Entry) /\ image \in Seq(Entry)
  BY <1>1, KeyedAgree, RewritingFields
<1>3. Keyed(image) /\ Range(image) = {v \in Range(old) : KeyOf(v) # KeyOf(e)} \cup {e}
  BY <1>1, <1>2, MadeFacts
<1>4. CASE k = KeyOf(e)
  <2>1. e \in Range(image) /\ \A x \in Range(image) : KeyOf(x) = k => x = e
    BY <1>3, <1>4
  <2> QED
    BY <1>1, <1>2, <1>4, <2>1, HeldByRange
<1>5. CASE k # KeyOf(e)
  <2>1. \A x : KeyOf(x) = k => (x \in Range(old) <=> x \in Range(image))
    BY <1>3, <1>5
  <2>2. \A x, y \in Range(old) : KeyOf(x) = k /\ KeyOf(y) = k => x = y
    BY KeyedAgree
  <2>3. Held(image, k) = Held(old, k)
    BY <1>2, <2>1, <2>2, HeldAlike
  <2> QED
    BY <1>1, <1>5, <2>3
<1> QED
  BY <1>4, <1>5

LEMMA HeldRemoved ==
    ASSUME NEW old, Keyed(old), NEW r \in Rewriting, Made(old, r), r.removes,
           NEW c \in Seq(Entry), \A i \in DOMAIN r.image : i \in DOMAIN c /\ c[i] = r.image[i],
           Range(c) \subseteq Range(r.image) \cup Range(old), NEW k
    PROVE  Held(c, k) = Held(old, k) \/ (k = KeyOf(r.entry) /\ Held(c, k) = None)
<1>1. PICK e, image : e = r.entry /\ image = r.image
  OBVIOUS
<1>2. old \in Seq(Entry) /\ image \in Seq(Entry)
  BY <1>1, KeyedAgree, RewritingFields
<1>3. /\ Keyed(image) /\ Range(image) = {v \in Range(old) : KeyOf(v) # KeyOf(e)}
      /\ e \in Range(old)
  BY <1>1, <1>2, MadeFacts
<1>4. Range(image) \subseteq Range(c)
  BY <1>1 DEF Range
<1>5. Range(c) \subseteq Range(old)
  BY <1>1, <1>3
<1>6. \A x, y \in Range(old) : KeyOf(x) = KeyOf(y) => x = y
  BY KeyedAgree
<1>7. CASE k = KeyOf(e)
  <2>1. Held(old, k) = e
    BY <1>2, <1>3, <1>6, <1>7, HeldByRange
  <2>2. Held(c, k) # None => Held(c, k) = e
    <3>1. Held(c, k) # None => Held(c, k) \in Range(c) /\ KeyOf(Held(c, k)) = k
      BY HeldByRange
    <3> QED
      BY <1>3, <1>5, <1>6, <1>7, <3>1
  <2> QED
    BY <1>1, <1>7, <2>1, <2>2
<1>8. CASE k # KeyOf(e)
  <2>1. \A x : KeyOf(x) = k => (x \in Range(old) <=> x \in Range(c))
    BY <1>3, <1>4, <1>5, <1>8
  <2>2. \A x, y \in Range(old) : KeyOf(x) = k /\ KeyOf(y) = k => x = y
    BY <1>6
  <2>3. Held(c, k) = Held(old, k)
    BY <1>2, <2>1, <2>2, HeldAlike
  <2> QED
    BY <2>3
<1> QED
  BY <1>7, <1>8

LEMMA HeldCut ==
    ASSUME NEW image \in Seq(Entry), NEW b \in Seq(Entry), NEW e, Keyed(image),
           \A i \in DOMAIN image : KeyOf(image[i]) # KeyOf(e),
           \A i \in DOMAIN image : i \in DOMAIN b /\ b[i] = image[i],
           Range(b) \subseteq Range(image) \cup {e}, NEW k
    PROVE  Held(image, k) = IF k = KeyOf(e) THEN None ELSE Held(b, k)
<1>1. Range(image) \subseteq Range(b) /\ \A x \in Range(image) : KeyOf(x) # KeyOf(e)
  BY DEF Range
<1>2. CASE k = KeyOf(e)
  BY <1>1, <1>2, HeldByRange
<1>3. CASE k # KeyOf(e)
  <2>1. \A x : KeyOf(x) = k => (x \in Range(b) <=> x \in Range(image))
    BY <1>1, <1>3
  <2>2. \A x, y \in Range(b) : KeyOf(x) = k /\ KeyOf(y) = k => x = y
    BY <2>1, KeyedAgree
  <2>3. Held(image, k) = Held(b, k)
    BY <2>1, <2>2, HeldAlike
  <2> QED
    BY <1>3, <2>3
<1> QED
  BY <1>2, <1>3

-----------------------------------------------------------------------------
(* The writes, there *)

(* What becomes of the list in a step of the writer.                       *)
LEMMA WriterThere ==
    ASSUME IInv, IInv', NEW s \in Session, Writing(s), NEW q, q.at # "entries",
           request' = [request EXCEPT ![s] = q]
    PROVE  View' = Seen'
<1>1. \A t \in Session : request'[t].at # "entries"
  <2>1. \A t \in Session : t # s => ~Writing(t)
    BY DEF IInv, OneWriter
  <2>2. \A t \in Session : request'[t] = IF t = s THEN q ELSE request[t]
    BY DEF IInv, Typed
  <2> QED
    BY <2>1, <2>2 DEF Writing
<1> QED
  BY <1>1, ViewThen

(* The second write: an entry added or replaced has its effect; a removal  *)
(* has it if nothing is left of the entry behind the array.                *)
LEMMA WriteEntriesThere ==
    ASSUME IInv, IInv', sound, sound', NEW s \in Session, WriteEntries(s)
    PROVE  Store!Next \/ UNCHANGED Store!vars
<1>1. PICK r, b, c, q : /\ r = request[s] /\ b = file.entries
                        /\ c = r.image \o SubSeq(b, Len(r.image) + 1, Len(b))
                        /\ q = IF r.removes THEN [r EXCEPT !.at = "resize", !.old = <<>>]
                                            ELSE Idle
  OBVIOUS
<1>2. Writing(s) /\ r.at = "entries"
  BY <1>1 DEF WriteEntries, Writing
<1>3. r \in Rewriting /\ file \in File /\ Fits(r) /\ file.there
  BY <1>1, <1>2, RequestOf
<1>4. PICK old, e, k : old = r.old /\ e = r.entry /\ k = KeyOf(e)
  OBVIOUS
<1>5. Keyed(old) /\ Made(old, r) /\ k \in Keys /\ e \in DesktopEntry /\ r.removes \in BOOLEAN
  BY <1>2, <1>3, <1>4, RewritingFields DEF Fits, Keys
<1>6. View = old
  BY <1>1, <1>2, <1>4, ViewIs
<1>7. /\ request' = [request EXCEPT ![s] = q] /\ comment' = comment /\ sound' = sound
      /\ \/ file' = [file EXCEPT !.entries = c]
         \/ /\ file' = file
            /\ ~(r.removes \/ b # old)
  BY <1>1, <1>3, <1>4 DEF WriteEntries, File, IInv, Typed
<1>8. /\ r.removes => q.at = "resize" /\ q.entry = e /\ q.removes = r.removes
      /\ ~r.removes => q = Idle
  BY <1>1, <1>3, <1>4 DEF Rewriting
<1>9. q.at # "entries"
  BY <1>5, <1>8, IdleAt
<1>10. /\ View' = Seen'
       /\ Operations' = [Operations EXCEPT ![s] = Change(Seen', q)]
       /\ Operations[s] = Change(View, request[s])
       /\ q = Idle => Change(Seen', q) = Rest
  <2>1. request' = [request EXCEPT ![s] = q] /\ Writing(s)
    BY <1>2, <1>7
  <2>2. View' = Seen'
    BY <1>9, <2>1, WriterThere
  <2>3. /\ Operations' = [Operations EXCEPT ![s] = Change(View', q)]
        /\ Operations[s] = Change(View, request[s])
    BY <2>1, OneChange
  <2>4. q = Idle => Change(Seen', q) = Rest
    BY IdleAt, PassingRests
  <2> QED
    BY <2>2, <2>3, <2>4
<1>11. PICK v : v = IF r.removes THEN None ELSE e
  OBVIOUS
<1>12. Operations[s] = [key |-> k, value |-> v, done |-> FALSE]
  BY <1>1, <1>2, <1>4, <1>10, <1>11 DEF Change, Step
<1>13. /\ c \in Seq(Entry)
       /\ ~r.removes => c = r.image
       /\ \A i \in DOMAIN r.image : c[i] = r.image[i]
       /\ r.removes => Len(r.image) <= Len(c)
       /\ Range(c) \subseteq Range(r.image) \cup Range(old)
  BY <1>1, <1>2, <1>4, EntriesWritten
<1>14. CASE file' = file /\ ~(r.removes \/ b # old)
  <2>1. View' = View
    BY <1>1, <1>3, <1>6, <1>10, <1>14 DEF Seen
  <2>2. Operations' = [Operations EXCEPT ![s] = Rest]
    BY <1>8, <1>10, <1>14
  <2> QED
    BY <1>7, <2>1, <2>2, ContentsStay, FinishesThere
<1>15. CASE file' = [file EXCEPT !.entries = c]
  <2>1. PICK comments : comments = comment
    OBVIOUS
  <2>2. View' = c /\ Seen' = c
    BY <1>3, <1>10, <1>15 DEF Seen, File
  <2>3. Contents' = Dict(c, comments) /\ Contents = Dict(old, comments)
    BY <1>6, <1>7, <2>1, <2>2, Mapped
  <2>4. ASSUME \A x \in Keys : Held(c, x) = IF x = k THEN v ELSE Held(old, x)
        PROVE  Contents' = [Contents EXCEPT ![Operations[s].key] = Operations[s].value]
    <3>1. PICK x, y : x = Dict(old, comments) /\ y = Dict(c, comments)
      OBVIOUS
    <3>2. \A n \in Keys \cup Object : y[n] = IF n = k THEN v ELSE x[n]
      BY <1>5, <2>4, <3>1, DictEntry
    <3>3. /\ y = [n \in Keys \cup Object |-> y[n]]
          /\ [x EXCEPT ![k] = v] = [n \in Keys \cup Object |-> IF n = k THEN v ELSE x[n]]
      BY <3>1 DEF Dict
    <3>4. y = [x EXCEPT ![k] = v]
      BY <3>2, <3>3
    <3> QED
      BY <1>12, <2>3, <3>1, <3>4
  <2>5. CASE ~r.removes
    <3>1. \A x \in Keys : Held(c, x) = IF x = k THEN v ELSE Held(old, x)
      BY <1>3, <1>4, <1>5, <1>11, <1>13, <2>5, HeldAdded
    <3>2. Operations' = [Operations EXCEPT ![s] = Rest]
      BY <1>8, <1>10, <2>5
    <3>3. ~Operations[s].done
      BY <1>12
    <3> QED
      BY <1>7, <2>4, <3>1, <3>2, <3>3, AppliesThere
  <2>6. CASE r.removes
    <3>1. \A x : Held(c, x) = Held(old, x) \/ (x = k /\ Held(c, x) = None)
      <4>1. \A i \in DOMAIN r.image : i \in DOMAIN c /\ c[i] = r.image[i]
        <5>1. r.image \in Seq(Entry)
          BY <1>3, RewritingFields
        <5> QED
          BY <1>13, <2>6, <5>1
      <4> QED
        BY <1>3, <1>4, <1>5, <1>13, <2>6, <4>1, HeldRemoved
    <3>2. PICK d : d = (Held(c, k) = None)
      OBVIOUS
    <3>3. Change(Seen', q) = [key |-> k, value |-> v, done |-> d]
      BY <1>4, <1>8, <1>11, <2>2, <2>6, <3>2 DEF Change, Step
    <3>4. Operations' = [Operations EXCEPT ![s] = [key |-> k, value |-> v, done |-> d]]
      BY <1>10, <3>3
    <3>5. CASE Held(c, k) = None
      <4>1. \A x \in Keys : Held(c, x) = IF x = k THEN v ELSE Held(old, x)
        BY <1>11, <2>6, <3>1, <3>5
      <4>2. Operations' = [Operations EXCEPT ![s].done = TRUE]
        <5>1. d = TRUE
          BY <3>2, <3>5
        <5>2. PICK o : o = [key |-> k, value |-> v, done |-> FALSE]
          OBVIOUS
        <5>3. [o EXCEPT !.done = TRUE] = [key |-> k, value |-> v, done |-> TRUE]
          <6>1. ASSUME NEW t, NEW f, o = [key |-> k, value |-> v, done |-> f]
                PROVE  [o EXCEPT !.done = t] = [key |-> k, value |-> v, done |-> t]
            BY <6>1
          <6> QED
            BY <5>2, <6>1
        <5> QED
          BY <1>12, <3>4, <5>1, <5>2, <5>3
      <4>3. ~Operations[s].done
        BY <1>12
      <4> QED
        BY <1>7, <2>4, <4>1, <4>2, <4>3, AppliesThere
    <3>6. CASE Held(c, k) # None
      <4>1. \A x \in Keys : Held(c, x) = Held(old, x)
        BY <3>1, <3>6
      <4>2. Contents' = Contents
        BY <2>3, <4>1, SameDict
      <4>3. d = FALSE
        BY <3>2, <3>6
      <4>4. Operations' = [Operations EXCEPT ![s] = Operations[s]]
        BY <1>12, <3>4, <4>3
      <4>5. Operations' = Operations
        BY <4>4 DEF Operations
      <4> QED
        BY <1>7, <4>2, <4>5, StuttersThere
    <3> QED
      BY <3>5, <3>6
  <2> QED
    BY <2>5, <2>6
<1> QED
  BY <1>7, <1>14, <1>15

(* The third write: the removal has its effect, if it has not had it yet,  *)
(* and ends.                                                               *)
LEMMA SetSizeThere ==
    ASSUME IInv, IInv', sound, NEW s \in Session, SetSize(s)
    PROVE  Store!Next
<1>1. PICK r, b, c, e, k : /\ r = request[s] /\ b = file.entries
                           /\ c = SubSeq(b, 1, Len(r.image)) /\ e = r.entry /\ k = KeyOf(e)
  OBVIOUS
<1>2. Writing(s) /\ r.at = "resize"
  BY <1>1 DEF SetSize, Writing
<1>3. r \in Rewriting /\ file \in File /\ Fits(r) /\ file.there
  BY <1>1, <1>2, RequestOf
<1>4. /\ file' = [file EXCEPT !.entries = c] /\ request' = [request EXCEPT ![s] = Idle]
      /\ comment' = comment /\ sound' = sound
  BY <1>1, <1>3 DEF SetSize, File
<1>5. PICK image \in Seq(Entry) : image = r.image
  BY <1>3, RewritingFields
<1>6. /\ r.removes /\ Len(image) <= Len(b) /\ Keyed(image) /\ b \in Seq(Entry)
      /\ \A i \in DOMAIN image : b[i] = image[i]
      /\ \A i \in DOMAIN image : KeyOf(image[i]) # KeyOf(e)
      /\ Range(b) \subseteq Range(image) \cup {e}
      /\ e \in DesktopEntry /\ k \in Keys
  BY <1>1, <1>2, <1>3, <1>5, RewritingFields DEF Fits, Begins, File, Keys
<1>7. c = image
  BY <1>1, <1>5, <1>6, CutIsArray
<1>8. \A x : Held(c, x) = IF x = k THEN None ELSE Held(b, x)
  <2>1. \A i \in DOMAIN image : i \in DOMAIN b /\ b[i] = image[i]
    BY <1>5, <1>6
  <2>2. /\ Keyed(image) /\ b \in Seq(Entry) /\ Range(b) \subseteq Range(image) \cup {e}
        /\ \A i \in DOMAIN image : KeyOf(image[i]) # KeyOf(e)
    BY <1>6
  <2>3. \A x : Held(image, x) = IF x = KeyOf(e) THEN None ELSE Held(b, x)
    BY <1>5, <2>1, <2>2, HeldCut
  <2> QED
    BY <1>1, <1>7, <2>3
<1>9. View = b
  <2>1. \A t \in Session : request[t].at # "entries"
    <3>1. \A t \in Session : t # s => ~Writing(t)
      BY <1>2 DEF IInv, OneWriter
    <3> QED
      BY <1>1, <1>2, <3>1 DEF Writing
  <2> QED
    BY <1>1, <1>3, <2>1, ViewIs
<1>10. View' = c
  <2>1. View' = Seen'
    BY <1>2, <1>4, IdleAt, WriterThere
  <2> QED
    BY <1>3, <1>4, <2>1 DEF Seen, File
<1>11. /\ Operations' = [Operations EXCEPT ![s] = Rest]
       /\ Operations[s] = Change(b, r)
  <2>1. /\ Operations' = [Operations EXCEPT ![s] = Change(View', Idle)]
        /\ Operations[s] = Change(View, request[s])
    BY <1>2, <1>4, OneChange
  <2> QED
    BY <1>1, <1>9, <2>1, IdleAt, PassingRests
<1>12. PICK d : d = (Held(b, k) = None)
  OBVIOUS
<1>13. Operations[s] = [key |-> k, value |-> None, done |-> d]
  BY <1>1, <1>2, <1>6, <1>11, <1>12 DEF Change, Step
<1>14. PICK comments : comments = comment
  OBVIOUS
<1>15. Contents' = Dict(c, comments) /\ Contents = Dict(b, comments)
  BY <1>4, <1>9, <1>10, <1>14, Mapped
<1>16. CASE Held(b, k) = None
  <2>1. \A x \in Keys : Held(c, x) = Held(b, x)
    BY <1>8, <1>16
  <2>2. Contents' = Contents
    BY <1>15, <2>1, SameDict
  <2> QED
    BY <1>4, <1>11, <2>2, FinishesThere
<1>17. CASE Held(b, k) # None
  <2>1. PICK x, y, v : x = Dict(b, comments) /\ y = Dict(c, comments) /\ v = None
    OBVIOUS
  <2>2. \A n \in Keys \cup Object : y[n] = IF n = k THEN v ELSE x[n]
    BY <1>6, <1>8, <2>1, DictEntry
  <2>3. /\ y = [n \in Keys \cup Object |-> y[n]]
        /\ [x EXCEPT ![k] = v] = [n \in Keys \cup Object |-> IF n = k THEN v ELSE x[n]]
    BY <2>1 DEF Dict
  <2>4. y = [x EXCEPT ![k] = v]
    BY <2>2, <2>3
  <2>5. Contents' = [Contents EXCEPT ![Operations[s].key] = Operations[s].value]
    BY <1>13, <1>15, <2>1, <2>4
  <2>6. ~Operations[s].done
    <3>1. d = FALSE
      BY <1>12, <1>17
    <3>2. Operations[s].done = d
      BY <1>13
    <3> QED
      BY <3>1, <3>2
  <2> QED
    BY <1>4, <1>11, <2>5, <2>6, AppliesThere
<1> QED
  BY <1>16, <1>17

(* A stop of the server that does no harm is a stop there.                 *)
LEMMA StopThere ==
    ASSUME IInv, IInv', sound, sound', ServerStops
    PROVE  Store!Next
<1>1. /\ request' = [s \in Session |-> Idle] /\ file' = file /\ comment' = comment
      /\ \A s \in Session : ~(request[s].at = "entries" /\ file.entries # request[s].old)
      /\ sound' = sound
  BY DEF ServerStops, IInv, Typed
<1>2. \A s \in Session : request'[s] = Idle
  BY <1>1
<1>3. View' = Seen
  <2>1. View' = Seen'
    BY <1>2, IdleAt, ViewThen
  <2> QED
    BY <1>1, <2>1 DEF Seen
<1>4. View = Seen
  <2>1. CASE \E s \in Session : request[s].at = "entries"
    <3>1. PICK s \in Session : request[s].at = "entries"
      BY <2>1
    <3>2. View = request[s].old
      BY <3>1, ViewIs
    <3>3. file.there
      BY <3>1, RequestOf DEF Writing
    <3> QED
      BY <1>1, <3>1, <3>2, <3>3 DEF Seen
  <2>2. CASE \A s \in Session : request[s].at # "entries"
    BY <2>2, ViewIs DEF Seen
  <2> QED
    BY <2>1, <2>2
<1>5. Contents' = Contents
  BY <1>1, <1>3, <1>4, ContentsStay
<1>6. Operations' = [s \in Session |-> Rest]
  <2>1. Changes' = [s \in Session |-> Change(View', request'[s])]
    BY DEF Changes
  <2>2. \A s \in Session : Change(View', request'[s]) = Rest
    BY <1>2, IdleAt, PassingRests
  <2> QED
    BY <2>1, <2>2, Mapped
<1> QED
  BY <1>1, <1>5, <1>6, StopsThere

-----------------------------------------------------------------------------
(* The refinement *)

(* The list is empty at first, or has the one entry of a legacy file.      *)
LEMMA InitThere ==
    ASSUME Init
    PROVE  Store!Init
<1>1. IInv /\ sound
  BY InitHolds DEF Init
<1>2. \A s \in Session : request[s] = Idle
  BY DEF Init
<1>3. View = Seen
  BY <1>1, <1>2, IdleAt, ViewIs DEF Seen
<1>4. Seen \in Seq(Entry) /\ Range(Seen) \subseteq DesktopEntry
  <2>1. CASE file = NoFile
    <3>1. Seen = <<>>
      BY <2>1 DEF Seen, NoFile
    <3> QED
      BY <3>1 DEF Range
  <2>2. CASE \E e \in DesktopEntry : file = DesktopFile(NoHeader, <<e>>)
    <3>1. PICK e \in DesktopEntry : file = DesktopFile(NoHeader, <<e>>)
      BY <2>2
    <3>2. Seen = <<e>> /\ e \in Entry
      BY <3>1 DEF Seen, DesktopFile, Entry
    <3> QED
      BY <3>1, <3>2 DEF Range
  <2> QED
    BY <2>1, <2>2 DEF Init
<1>5. PICK list, comments : list = Seen /\ comments = comment
  OBVIOUS
<1>6. \A k : Held(list, k) \in DesktopEntry \cup {None}
  BY <1>4, <1>5, HeldByRange
<1>7. \A k \in Object : comments[k] = None
  BY <1>5 DEF Init
<1>8. Dict(list, comments) \in [Keys \cup Object -> (DesktopEntry \cup Comment) \cup {None}]
  BY <1>6, <1>7 DEF Dict
<1>9. Contents \in [Keys \cup Object -> (DesktopEntry \cup Comment) \cup {None}]
  BY <1>3, <1>5, <1>8, Mapped
<1>10. Operations = [s \in Session |-> Rest]
  <2>1. Changes = [s \in Session |-> Change(View, request[s])]
    BY DEF Changes
  <2>2. \A s \in Session : Change(View, request[s]) = Rest
    BY <1>2, IdleAt, PassingRests
  <2> QED
    BY <2>1, <2>2, Mapped
<1>11. sound = TRUE
  BY DEF Init
<1> QED
  BY <1>9, <1>10, <1>11 DEF Store!Init, Store!Resting, Rest

LEMMA SoundBefore ==
    ASSUME [Next]_vars, sound'
    PROVE  sound
BY DEF Next, vars, FPOpenDT, FPOpenDT_CreateFile, FPOpenDT_WriteHeader, FPOpenDT_OpenDesktop,
       EndSession, FPCloseDT, FPAddIcon, FPAddAPPL, FPRemoveAPPL, FPAddComment,
       FPRemoveComment, afp_AddEntry, afp_RemoveEntry, BeginWrite, WriteHeader, WriteEntries,
       SetSize, WriteComment, ServerStops

(* Every step of the database is one of the dictionary, or nothing to it.  *)
LEMMA NextThere ==
    ASSUME IInv, IInv', [Next]_vars
    PROVE  [Store!Next]_(Store!vars)
<1>1. CASE ~sound'
  <2>1. sound' = FALSE
    BY <1>1 DEF IInv, Typed
  <2> QED
    BY <2>1, FaultThere
<1>2. CASE sound'
  <2>1. sound
    BY <1>2, SoundBefore
  <2>2. CASE UNCHANGED vars
    <3>1. /\ file' = file /\ comment' = comment /\ request' = request /\ sound' = sound
      BY <2>2 DEF vars
    <3>2. View' = View
      BY <3>1 DEF View
    <3>3. PICK list, requests : list = View /\ requests = request
      OBVIOUS
    <3>4. /\ Changes = [s \in Session |-> Change(list, requests[s])]
          /\ Changes' = [s \in Session |-> Change(list, requests[s])]
      BY <3>1, <3>2, <3>3 DEF Changes
    <3> QED
      BY <3>1, <3>2, <3>4, Mapped, ContentsStay, StuttersThere
  <2>3. CASE ServerStops
    BY <1>2, <2>1, <2>3, StopThere
  <2>4. ASSUME NEW s \in Session,
               \/ FPOpenDT(s) \/ FPOpenDT_CreateFile(s) \/ FPOpenDT_WriteHeader(s)
               \/ FPOpenDT_OpenDesktop(s) \/ EndSession(s)
               \/ \E refnum \in 1 .. MaxDeskRefs :
                   \/ FPCloseDT(s, refnum)
                   \/ FPAddIcon(s, refnum) \/ FPAddAPPL(s, refnum) \/ FPRemoveAPPL(s, refnum)
                   \/ FPAddComment(s, refnum) \/ FPRemoveComment(s, refnum)
               \/ WriteHeader(s) \/ WriteEntries(s) \/ SetSize(s) \/ WriteComment(s)
        PROVE  [Store!Next]_(Store!vars)
    BY <1>2, <2>1, <2>4, OpenThere, CreateThere, EntryThere, CommentThere, WriteHeaderThere,
       WriteEntriesThere, SetSizeThere, WriteCommentThere
  <2> QED
    BY <2>2, <2>3, <2>4 DEF Next
<1> QED
  BY <1>1, <1>2

(* The desktop database and the comments implement a dictionary, whatever  *)
(* the number of sessions, entries and comments, as ImplementsDictionary   *)
(* says: an addition or a removal changes one key at one instant, although *)
(* it is three writes here.                                                *)
THEOREM Refines == Spec => ImplementsDictionary
<1>1. Init => Store!Init
  BY InitThere
<1>2. IInv /\ IInv' /\ [Next]_vars => [Store!Next]_(Store!vars)
  BY NextThere
<1> QED
  BY <1>1, <1>2, Invariance, PTL DEF Spec, ImplementsDictionary, Store!Spec

=============================================================================
