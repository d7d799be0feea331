---------------------------- MODULE CatalogProofs ----------------------------
(***************************************************************************)
(* Proofs about Catalog for any sessions, any finite disk, any names, any  *)
(* room in a reply and any number of commands.                             *)
(***************************************************************************)
EXTENDS Catalog, FiniteSetTheorems, SequenceTheorems, TLAPS

-----------------------------------------------------------------------------
(* The types of the variables, those of the fields of the records included. *)
Ats == {"idle", "check", "create", "get", "set", "remove", "rename", "target",
        "move", "open", "name", "copy"}
Ops == {"none", "delete", "rename", "move", "file", "hard", "folder", "copy",
        "parms"}
Task == [at : Ats, op : Ops, entry : Entry \cup {None}, node : Node \cup {None},
         mac : MacName \cup {Mapped, None}, open : Node \cup {None},
         source : Entry \cup {None}, inhibits : BOOLEAN, raced : BOOLEAN]
Listing == [dir : Folder, index : Nat \ {0}, seen : SUBSET Node, twice : BOOLEAN,
            there : SUBSET Node, shrunk : BOOLEAN, grown : BOOLEAN]

TypeInv ==
    /\ place \in [Node -> Entry \cup {None}]
    /\ charMap \in [Node -> MacName \cup {None}]
    /\ locked \subseteq Node /\ spoiled \subseteq Node
    /\ task \in [Session -> Task]
    /\ listing \in [Session -> Listing \cup {None}]
    /\ calls \in 0..MaxCalls

(* The places make a tree under the root.                                  *)
TreeInv ==
    /\ place[Root] = None
    /\ \A m, n \in Node : place[m] = place[n] /\ place[m] # None => m = n
    /\ \A n \in Node : place[n] # None =>
          Live(place[n].dir) /\ ~Within(place[n].dir, n)

(* What a command has when it comes to a step.                             *)
StepInv(t) ==
    /\ t.at # "idle" => t.entry \in Entry
    /\ t.at \in {"check", "remove", "target", "move", "rename"} => t.node \in Node
    /\ t.at \in {"target", "move"} => t.op = "move"
    /\ t.at = "move" => t.open \in Folder
    /\ t.at = "name" => t.open \in Node \ {Root}
    /\ t.at \in {"rename", "open", "name"} => t.mac # None
    /\ t.op \in {"rename", "file", "hard", "folder"} => t.mac # None
    /\ t.op # "copy" => t.mac # Mapped /\ t.at # "copy"
    /\ t.op = "copy" =>
          /\ t.source \in Entry /\ t.node \in File
          /\ t.mac = Mapped => t.entry.name = Mapped
          /\ t.at = "create" /\ t.mac = None => t.entry.name = t.source.name

(* What a command that nobody has raced knows of its objects.              *)
FoundInv(t) ==
    ~t.raced =>
       /\ t.at \in {"check", "remove", "target", "move", "rename"} =>
             place[t.node] = t.entry
       /\ t.at \in {"remove", "target", "move", "rename"} => t.node \notin locked
       /\ t.at = "name" => place[t.open] = t.entry

NameInv ==
    /\ \A n \in Node : place[n] = None => charMap[n] = None
    /\ ShownNamesAreFound

(* How far a listing has come.                                             *)
Pos(d, n) == Cardinality(UpTo(d, n))
ListInv(L) ==
    /\ ~L.shrunk => /\ L.there \subseteq In(L.dir)
                    /\ \A n \in L.there : Pos(L.dir, n) < L.index => n \in L.seen
    /\ ~L.grown => /\ ~L.twice
                   /\ \A n \in L.seen \cap In(L.dir) : Pos(L.dir, n) < L.index

IInv ==
    /\ TypeInv /\ TreeInv /\ NameInv
    /\ \A s \in Session : StepInv(task[s]) /\ FoundInv(task[s])
    /\ \A s \in Session : listing[s] # None => ListInv(listing[s])

-----------------------------------------------------------------------------
(* What the assumptions say of names and of None.                          *)
LEMMA NameFacts ==
    /\ None \notin Node /\ None \notin Entry /\ None \notin Name
    /\ None \notin MacName /\ None # Mapped
    /\ Root \in Node /\ Root \notin File /\ Mapped \notin MacName
    /\ Reserved \notin Name /\ Name \subseteq Nat
    /\ \A mac \in MacName \cup {Mapped} : ToDisk(mac) \in Name
    /\ \A m \in Name : ToDisk(m) = m /\ m \in MacName \cup {Mapped}
    /\ \A e \in Entry : e.dir \in Folder /\ e.name \in Name
    /\ \A e \in Entry, d \in Folder, m \in Name :
          [e EXCEPT !.dir = d] \in Entry /\ [e EXCEPT !.name = m] \in Entry
BY NodeAssumption, NameAssumption, NoneAssumption DEF Node, Entry, MacName, ToDisk

(* A disk has finitely many nodes.                                         *)
LEMMA NodesAreFinite == IsFiniteSet(Node)
BY DiskAssumption, FS_Union DEF Node

(* The node an entry leads to is the only one there, and not the root.     *)
LEMMA AtFacts ==
    ASSUME TypeInv, TreeInv, NEW e \in Entry
    PROVE  /\ At(e) \in Node \cup {None}
           /\ Exists(e) <=> At(e) # None
           /\ At(e) # None => At(e) \in Node \ {Root} /\ place[At(e)] = e
           /\ \A n \in Node : place[n] = e => At(e) = n
<1>1. CASE Exists(e)
  <2>1. At(e) \in Node /\ place[At(e)] = e
    BY <1>1 DEF At, Exists
  <2>2. At(e) # None /\ e # None
    BY <2>1, NameFacts
  <2>3. At(e) # Root
    BY <2>1, <2>2 DEF TreeInv
  <2>4. \A n \in Node : place[n] = e => At(e) = n
    BY <2>1, <2>2 DEF TreeInv
  <2> QED
    BY <1>1, <2>1, <2>2, <2>3, <2>4
<1>2. CASE ~Exists(e)
  BY <1>2 DEF At, Exists
<1> QED
  BY <1>1, <1>2

-----------------------------------------------------------------------------
(* An object comes among the others of its folder in the order of the      *)
(* names, and no two come in the same place.                               *)
LEMMA PosFacts ==
    ASSUME TypeInv, TreeInv, NEW d \in Folder
    PROVE  /\ IsFiniteSet(In(d)) /\ Cardinality(In(d)) \in Nat
           /\ \A n \in In(d) : Pos(d, n) \in 1..Cardinality(In(d))
           /\ \A m, n \in In(d) : Pos(d, m) = Pos(d, n) => m = n
<1>1. IsFiniteSet(In(d)) /\ Cardinality(In(d)) \in Nat
  <2>1. In(d) \in SUBSET Node
    BY DEF In
  <2>2. IsFiniteSet(In(d))
    BY <2>1, NodesAreFinite, FS_Subset
  <2> QED
    BY <2>2, FS_CardinalityType
<1>2. \A n \in In(d) : n \in Node /\ place[n] \in Entry /\ place[n].dir = d /\ place[n].name \in Nat
  BY NameFacts DEF TypeInv, In
<1>3. ASSUME NEW n \in In(d)
      PROVE  /\ UpTo(d, n) \in SUBSET In(d) /\ n \in UpTo(d, n)
             /\ IsFiniteSet(UpTo(d, n)) /\ Pos(d, n) \in 1..Cardinality(In(d))
  <2>1. UpTo(d, n) \in SUBSET In(d) /\ n \in UpTo(d, n)
    BY <1>2 DEF UpTo
  <2>2. IsFiniteSet(UpTo(d, n)) /\ Cardinality(UpTo(d, n)) <= Cardinality(In(d))
    BY <1>1, <2>1, FS_Subset
  <2>3. Cardinality(UpTo(d, n)) \in Nat
    BY <2>2, FS_CardinalityType
  <2>4. Cardinality(UpTo(d, n)) # 0
    BY <2>1, <2>2, FS_EmptySet
  <2> QED
    BY <1>1, <2>1, <2>2, <2>3, <2>4 DEF Pos
<1>4. ASSUME NEW m \in In(d), NEW n \in In(d), place[m].name < place[n].name
      PROVE  Pos(d, m) # Pos(d, n)
  <2>1. UpTo(d, m) \in SUBSET UpTo(d, n) /\ n \notin UpTo(d, m)
    BY <1>2, <1>4 DEF UpTo
  <2>2. UpTo(d, m) # UpTo(d, n)
    BY <1>3, <2>1
  <2> QED
    BY <1>3, <2>1, <2>2, FS_Subset DEF Pos
<1>5. ASSUME NEW m \in In(d), NEW n \in In(d), place[m].name = place[n].name
      PROVE  m = n
  <2>1. place[m] = place[n]
    BY <1>2, <1>5 DEF Entry
  <2> QED
    BY <1>2, <2>1, NameFacts DEF TreeInv
<1>6. ASSUME NEW m \in In(d), NEW n \in In(d), Pos(d, m) = Pos(d, n)
      PROVE  m = n
  <2>1. place[m].name \in Nat /\ place[n].name \in Nat
    BY <1>2
  <2>2. ~(place[m].name < place[n].name) /\ ~(place[n].name < place[m].name)
    BY <1>4, <1>6
  <2> QED
    BY <1>5, <2>1, <2>2
<1> QED
  BY <1>1, <1>3, <1>6

(* The list of a folder has every object of it in its place.               *)
LEMMA ListedFacts ==
    ASSUME TypeInv, TreeInv, NEW d \in Folder
    PROVE  /\ Listed(d) \in Seq(In(d)) /\ Len(Listed(d)) = Cardinality(In(d))
           /\ \A i \in 1..Cardinality(In(d)) : Pos(d, Listed(d)[i]) = i
           /\ \A n \in In(d) : Listed(d)[Pos(d, n)] = n
<1> DEFINE N == Cardinality(In(d))
           f == [n \in In(d) |-> Pos(d, n)]
<1>1. /\ IsFiniteSet(In(d)) /\ N \in Nat
      /\ \A n \in In(d) : Pos(d, n) \in 1..N
      /\ \A m, n \in In(d) : Pos(d, m) = Pos(d, n) => m = n
  BY PosFacts
<1>2. f \in Injection(In(d), 1..N)
  BY <1>1 DEF Injection, IsInjective
<1>3. IsFiniteSet(1..N) /\ Cardinality(1..N) = N
  <2>1. IsFiniteSet(1..N) /\ Cardinality(1..N) = IF 1 > N THEN 0 ELSE N - 1 + 1
    BY <1>1, FS_Interval
  <2> QED
    BY <1>1, <2>1
<1>4. f \in Surjection(In(d), 1..N)
  BY <1>2, <1>3, FS_Injection
<1>5. ASSUME NEW i \in 1..N PROVE \E n \in In(d) : Pos(d, n) = i
  BY <1>4 DEF Surjection
<1>6. ASSUME NEW i \in 1..N PROVE Listed(d)[i] \in In(d) /\ Pos(d, Listed(d)[i]) = i
  <2>1. Listed(d)[i] = CHOOSE n \in In(d) : Pos(d, n) = i
    BY DEF Listed, Pos
  <2> QED
    BY <1>5, <2>1
<1>7. DOMAIN Listed(d) = 1..N /\ Listed(d) = [i \in 1..N |-> Listed(d)[i]]
  BY DEF Listed
<1>8. Listed(d) \in [1..N -> In(d)]
  BY <1>6, <1>7
<1>9. Listed(d) \in Seq(In(d)) /\ Len(Listed(d)) = N
  BY <1>1, <1>8
<1>10. ASSUME NEW n \in In(d) PROVE Listed(d)[Pos(d, n)] = n
  <2>1. Pos(d, n) \in 1..N
    BY <1>1
  <2>2. Listed(d)[Pos(d, n)] \in In(d) /\ Pos(d, Listed(d)[Pos(d, n)]) = Pos(d, n)
    BY <1>6, <2>1
  <2> QED
    BY <1>1, <2>2
<1> QED
  BY <1>6, <1>9, <1>10

(* A reply has the objects from the index on, up to the next index.        *)
LEMMA ReplyFacts ==
    ASSUME TypeInv, TreeInv, NEW d \in Folder, NEW index \in Nat \ {0}
    PROVE  LET reply == Reply(d, index)
               next == index + Len(reply)
           IN  /\ Len(reply) \in Nat /\ ToSet(reply) \subseteq In(d)
               /\ reply # <<>> => Len(reply) # 0
               /\ \A n \in In(d) : n \in ToSet(reply) <=>
                     Pos(d, n) >= index /\ Pos(d, n) < next
               /\ reply = <<>> => \A n \in In(d) : Pos(d, n) < index
<1> DEFINE N == Cardinality(In(d))
           all == Listed(d)
           to == IF index + Batch - 1 < N THEN index + Batch - 1 ELSE N
           reply == SubSeq(all, index, to)
<1>1. /\ N \in Nat /\ all \in Seq(In(d)) /\ Len(all) = N
      /\ \A i \in 1..N : Pos(d, all[i]) = i
      /\ \A n \in In(d) : all[Pos(d, n)] = n /\ Pos(d, n) \in 1..N
  BY PosFacts, ListedFacts
<1>2. Reply(d, index) = reply
  BY <1>1 DEF Reply
<1>3. to \in Nat /\ to <= N /\ (to < index => to = N)
  BY <1>1, BoundAssumption
<1> HIDE DEF all, N, to
<1>4. \A i \in index..to : all[i] \in In(d)
  BY <1>1, <1>3
<1>5. /\ reply \in Seq(In(d))
      /\ Len(reply) = IF index <= to THEN to - index + 1 ELSE 0
      /\ \A i \in 1..to-index+1 : reply[i] = all[index + i - 1]
  <2>1. index \in Int /\ to \in Int
    BY <1>3
  <2> QED
    BY <1>4, <2>1, SubSeqProperties
<1> HIDE DEF reply
<1>6. Len(reply) \in Nat /\ (reply # <<>> => Len(reply) # 0)
      /\ (reply = <<>> => Len(reply) = 0) /\ DOMAIN reply = 1..Len(reply)
  BY <1>5
<1>7. ToSet(reply) = {reply[i] : i \in 1..Len(reply)}
  BY <1>6 DEF ToSet
<1>8. ASSUME NEW i \in 1..Len(reply)
      PROVE  /\ reply[i] \in In(d) /\ Pos(d, reply[i]) = index + i - 1
  <2>1. i \in 1..to-index+1 /\ index + i - 1 \in 1..N
    BY <1>1, <1>3, <1>5
  <2>2. reply[i] = all[index + i - 1]
    BY <1>5, <2>1
  <2>3. reply[i] \in In(d)
    BY <1>5, <1>6
  <2> QED
    BY <1>1, <2>1, <2>2, <2>3
<1>9. ASSUME NEW n \in In(d), Pos(d, n) >= index, Pos(d, n) < index + Len(reply)
      PROVE  n \in ToSet(reply)
  <2> DEFINE i == Pos(d, n) - index + 1
  <2>1. Pos(d, n) \in 1..N /\ all[Pos(d, n)] = n
    BY <1>1
  <2>2. i \in 1..Len(reply) /\ i \in 1..to-index+1 /\ index + i - 1 = Pos(d, n)
    BY <1>1, <1>3, <1>5, <1>6, <1>9, <2>1
  <2>3. reply[i] = n
    BY <1>5, <2>1, <2>2
  <2> QED
    BY <1>7, <2>2, <2>3
<1>10. ASSUME NEW n \in ToSet(reply)
       PROVE  n \in In(d) /\ Pos(d, n) >= index /\ Pos(d, n) < index + Len(reply)
  <2>1. PICK i \in 1..Len(reply) : n = reply[i]
    BY <1>7
  <2>2. n \in In(d) /\ Pos(d, n) = index + i - 1
    BY <1>8, <2>1
  <2> QED
    BY <1>6, <2>2
<1>11. ASSUME reply = <<>>, NEW n \in In(d) PROVE Pos(d, n) < index
  <2>1. to < index
    BY <1>3, <1>5, <1>6, <1>11
  <2> QED
    BY <1>1, <1>3, <2>1
<1> QED
  BY <1>2, <1>6, <1>9, <1>10, <1>11

-----------------------------------------------------------------------------
(* The tree stays one when a node is put where no other is, in a folder    *)
(* that is there and is not inside the node.                               *)
LEMMA PutKeepsTree ==
    ASSUME TypeInv, TreeInv, NEW n \in Node \ {Root}, NEW e \in Entry,
           place' = [place EXCEPT ![n] = e],
           ~Exists(e), Live(e.dir), ~Within(e.dir, n)
    PROVE  TreeInv'
<1>1. /\ place' \in [Node -> Entry \cup {None}] /\ place'[n] = e
      /\ \A m \in Node \ {n} : place'[m] = place[m]
  BY DEF TypeInv
<1>2. place'[Root] = None
  BY <1>1, NameFacts DEF TreeInv
<1>3. \A k, m \in Node : place'[k] = place'[m] /\ place'[k] # None => k = m
  BY <1>1 DEF TreeInv, Exists
<1>4. \A m : Live(m) => Live(m)'
  <2>1. e # None
    BY NameFacts
  <2> SUFFICES ASSUME NEW m, Live(m), m # Root PROVE place'[m] # None
    BY DEF Live
  <2>2. CASE m = n
    BY <1>1, <2>1, <2>2
  <2>3. CASE m # n
    <3>1. place[m] # None
      BY DEF Live
    <3>2. place'[m] = place[m]
      BY <2>3 DEF TypeInv
    <3> QED
      BY <3>1, <3>2
  <2> QED
    BY <2>2, <2>3
<1>5. PICK T \in SUBSET Folder : e.dir \in T /\ Upward(T) /\ n \notin T
  BY DEF Within
<1>6. ASSUME NEW S \in SUBSET Folder, Upward(S), n \notin S PROVE Upward(S)'
  BY <1>1, <1>6 DEF Upward, Node
<1>7. ~Within(e.dir, n)'
  BY <1>5, <1>6 DEF Within
<1>8. ASSUME NEW m \in Node \ {n}, place[m] # None PROVE ~Within(place[m].dir, m)'
  <2>1. PICK d \in Folder : d = place[m].dir
    BY <1>8, NameFacts DEF TypeInv
  <2>2. PICK S \in SUBSET Folder : d \in S /\ Upward(S) /\ m \notin S
    BY <1>8, <2>1 DEF TreeInv, Within
  <2>3. \E U \in SUBSET Folder : d \in U /\ Upward(U)' /\ m \notin U
    <3>1. CASE n \notin S
      BY <1>6, <2>2, <3>1
    <3>2. CASE n \in S /\ m \in T
      <4>1. d \in S \cap T
        BY <1>5, <1>8, <2>1, <2>2, <3>2 DEF Upward
      <4>2. Upward(S \cap T)
        BY <1>5, <2>2 DEF Upward
      <4>3. S \cap T \in SUBSET Folder /\ n \notin S \cap T /\ m \notin S \cap T
        BY <1>5, <2>2
      <4> QED
        BY <1>6, <4>1, <4>2, <4>3
    <3>3. CASE n \in S /\ m \notin T
      <4>1. ASSUME NEW k \in S \cup T, place'[k] # None PROVE place'[k].dir \in S \cup T
        <5>1. k \in Node
          BY DEF Node
        <5>2. CASE k = n
          BY <1>1, <1>5, <5>2
        <5>3. CASE k # n
          BY <1>1, <1>5, <2>2, <4>1, <5>1, <5>3 DEF Upward
        <5> QED
          BY <5>2, <5>3
      <4>2. Upward(S \cup T)'
        BY <4>1 DEF Upward
      <4> QED
        BY <1>5, <2>2, <3>3, <4>2
    <3> QED
      BY <3>1, <3>2, <3>3
  <2> QED
    BY <2>1, <2>3 DEF Within
<1>9. ASSUME NEW m \in Node, place'[m] # None, NEW d \in Folder, place'[m].dir = d
      PROVE  Live(d)' /\ ~Within(d, m)'
  <2>1. CASE m = n
    <3>1. d = e.dir
      BY <1>1, <1>9, <2>1
    <3> QED
      BY <1>4, <1>7, <2>1, <3>1
  <2>2. CASE m # n
    <3>1. place'[m] = place[m] /\ place[m] # None /\ d = place[m].dir
      BY <1>1, <1>9, <2>2
    <3>2. Live(d)
      BY <3>1 DEF TreeInv
    <3>3. ~Within(d, m)'
      BY <1>8, <2>2, <3>1
    <3> QED
      BY <1>4, <3>2, <3>3
  <2> QED
    BY <2>1, <2>2
<1>10. ASSUME NEW m \in Node, place'[m] # None
       PROVE  Live(place[m].dir)' /\ ~Within(place[m].dir, m)'
  <2>1. PICK d \in Folder : d = place'[m].dir
    BY <1>1, <1>10, NameFacts
  <2>2. Live(d)' /\ ~Within(d, m)'
    BY <1>9, <1>10, <2>1
  <2> QED
    BY <2>1, <2>2 DEF Live, Within
<1> QED
  BY <1>2, <1>3, <1>10 DEF TreeInv

(* A node that is not there is above nothing.                              *)
LEMMA NewIsAboveNothing ==
    ASSUME TypeInv, TreeInv, NEW n \in Node, ~Live(n), NEW d \in Folder, Live(d)
    PROVE  ~Within(d, n)
<1> DEFINE S == {m \in Folder : Live(m)}
<1>1. d \in S /\ n \notin S /\ S \in SUBSET Folder
  OBVIOUS
<1>2. Upward(S)
  <2> SUFFICES ASSUME NEW m \in S, place[m] # None PROVE place[m].dir \in S
    BY DEF Upward
  <2>1. m \in Node
    BY DEF Node
  <2>2. place[m] \in Entry
    BY <2>1 DEF TypeInv
  <2> QED
    BY <2>1, <2>2, NameFacts DEF TreeInv
<1> QED
  BY <1>1, <1>2 DEF Within

(* Every folder there is comes down from the root: of the sets of folders  *)
(* that go up without it, a smallest would hold a smaller one.             *)
LEMMA UnderRoot ==
    ASSUME TypeInv, TreeInv, NEW d \in Folder, Live(d)
    PROVE  Within(d, Root)
<1> DEFINE Rootless == {S \in SUBSET Folder : /\ S # {} /\ Upward(S) /\ Root \notin S
                                            /\ \A m \in S : Live(m)}
           Less == StrictSubsetOrdering(Folder)
<1>1. ASSUME NEW S \in Rootless PROVE \E U \in Rootless : U \subseteq S /\ U # S
  <2>1. PICK m \in S : TRUE
    OBVIOUS
  <2>2. m \in Folder /\ m \in Node /\ place[m] # None /\ place[m] \in Entry
    <3>1. m \in Folder /\ Live(m) /\ m # Root
      OBVIOUS
    <3>2. m \in Node /\ place[m] # None
      BY <3>1 DEF Live, Node
    <3> QED
      BY <3>1, <3>2 DEF TypeInv
  <2>3. place[m].dir \in S
    BY <2>1, <2>2 DEF Upward
  <2>4. PICK T \in SUBSET Folder : place[m].dir \in T /\ Upward(T) /\ m \notin T
    BY <2>2 DEF TreeInv, Within
  <2>5. Upward(S \cap T)
    BY <2>4 DEF Upward
  <2>6. S \cap T \in Rootless
    BY <2>3, <2>4, <2>5
  <2> QED
    BY <2>1, <2>4, <2>6
<1>2. IsWellFoundedOn(Less, SUBSET Folder)
  BY DiskAssumption, FS_StrictSubsetOrderingWellFounded, FS_FiniteSubsetsOfFinite
<1>3. Rootless = {}
  <2> SUFFICES ASSUME Rootless # {} PROVE FALSE
    OBVIOUS
  <2>1. Rootless \subseteq SUBSET Folder
    OBVIOUS
  <2> HIDE DEF Rootless, Less
  <2>2. PICK S \in Rootless : \A U \in Rootless : ~(<<U, S>> \in Less)
    BY <1>2, <2>1, WFMin
  <2>3. PICK U \in Rootless : U \subseteq S /\ U # S
    BY <1>1
  <2>4. S \in SUBSET Folder /\ U \in SUBSET Folder
    BY <2>1
  <2>5. <<U, S>> \in Less
    BY <2>3, <2>4 DEF Less, StrictSubsetOrdering
  <2> QED
    BY <2>2, <2>3, <2>5
<1>4. ASSUME NEW S \in SUBSET Folder, d \in S, Upward(S), Root \notin S
      PROVE  FALSE
  <2> DEFINE U == {m \in S : Live(m)}
  <2>1. Upward(U)
    <3> SUFFICES ASSUME NEW m \in U, place[m] # None PROVE place[m].dir \in U
      BY DEF Upward
    <3>1. m \in Node
      BY DEF Node
    <3>2. place[m].dir \in S
      BY <1>4 DEF Upward
    <3> QED
      BY <3>1, <3>2 DEF TreeInv
  <2>2. d \in U /\ U \in SUBSET Folder /\ Root \notin U
    BY <1>4
  <2> QED
    BY <1>3, <2>1, <2>2
<1> QED
  BY <1>4 DEF Within

(* Taking away a file or an empty folder leaves a tree.                    *)
LEMMA RemoveKeepsTree ==
    ASSUME TypeInv, TreeInv, NEW n \in Node \ {Root}, In(n) = {},
           place' = [place EXCEPT ![n] = None]
    PROVE  TreeInv'
<1>1. /\ place' \in [Node -> Entry \cup {None}] /\ place'[n] = None
      /\ \A m \in Node \ {n} : place'[m] = place[m]
  BY DEF TypeInv
<1>2. place'[Root] = None
  BY <1>1, NameFacts DEF TreeInv
<1>3. \A k, m \in Node : place'[k] = place'[m] /\ place'[k] # None => k = m
  BY <1>1 DEF TreeInv
<1>4. \A m \in Node : place[m] # None => place[m].dir # n
  BY DEF In
<1>5. \A d \in Folder : d # n /\ Live(d) => Live(d)'
  BY <1>1 DEF Live, Node
<1>6. ASSUME NEW S \in SUBSET Folder, Upward(S) PROVE Upward(S)'
  BY <1>1, <1>6 DEF Upward, Node
<1>7. ASSUME NEW d \in Folder, NEW m, ~Within(d, m) PROVE ~Within(d, m)'
  BY <1>6, <1>7 DEF Within
<1>8. ASSUME NEW m \in Node, place'[m] # None
      PROVE  Live(place[m].dir)' /\ ~Within(place[m].dir, m)'
  <2>1. place'[m] = place[m] /\ place[m] # None
    BY <1>1, <1>8
  <2>2. PICK d \in Folder : d = place[m].dir
    BY <2>1, NameFacts DEF TypeInv
  <2>3. Live(d) /\ ~Within(d, m) /\ d # n
    BY <1>4, <2>1, <2>2 DEF TreeInv
  <2>4. Live(d)' /\ ~Within(d, m)'
    BY <1>5, <1>7, <2>3
  <2>5. d = place'[m].dir
    BY <2>1, <2>2
  <2> QED
    BY <2>4, <2>5 DEF Live, Within
<1> QED
  BY <1>2, <1>3, <1>8 DEF TreeInv

-----------------------------------------------------------------------------
(* The change of a listing when places change: see Changed.                *)
Noted(L) ==
    LET left == {n \in In(L.dir) : place'[n] # place[n]}
        came == \E n \in Node : /\ place'[n] # None /\ place'[n] # place[n]
                                /\ place'[n].dir = L.dir
    IN  [L EXCEPT !.there = @ \ left,
                  !.shrunk = @ \/ left # {},
                  !.grown = @ \/ came]

(* Objects that stay come no earlier unless one has left, and no later     *)
(* unless one has come.                                                    *)
LEMMA PosMoves ==
    ASSUME NEW d \in Folder
    PROVE  /\ (\A n \in In(d) : place'[n] = place[n])
                 => \A n \in In(d) : n \in In(d)' /\ Pos(d, n) <= Pos(d, n)'
           /\ (\A n \in Node : place'[n] # None /\ place'[n].dir = d
                                  => place'[n] = place[n])
                 => \A n \in Node : n \in In(d)' => n \in In(d) /\ Pos(d, n)' <= Pos(d, n)
           /\ \A n \in Node : Pos(d, n) \in Nat /\ Pos(d, n)' \in Nat
<1>1. ASSUME NEW n \in Node
      PROVE  /\ IsFiniteSet(UpTo(d, n)) /\ Pos(d, n) \in Nat
             /\ IsFiniteSet(UpTo(d, n)') /\ Pos(d, n)' \in Nat
  <2>1. UpTo(d, n) \in SUBSET Node /\ UpTo(d, n)' \in SUBSET Node
    BY DEF UpTo, In
  <2>2. IsFiniteSet(UpTo(d, n)) /\ IsFiniteSet(UpTo(d, n)')
    BY <2>1, NodesAreFinite, FS_Subset
  <2> QED
    BY <2>2, FS_CardinalityType DEF Pos
<1>2. ASSUME \A n \in In(d) : place'[n] = place[n], NEW n \in In(d)
      PROVE  n \in In(d)' /\ Pos(d, n) <= Pos(d, n)'
  <2>1. UpTo(d, n) \in SUBSET UpTo(d, n)'
    BY <1>2 DEF UpTo, In
  <2>2. n \in Node /\ n \in In(d)'
    BY <1>2 DEF In
  <2>3. Cardinality(UpTo(d, n)) <= Cardinality(UpTo(d, n)')
    BY <1>1, <2>1, <2>2, FS_Subset
  <2> QED
    BY <2>2, <2>3 DEF Pos
<1>3. ASSUME \A n \in Node : place'[n] # None /\ place'[n].dir = d
                                => place'[n] = place[n],
             NEW n \in Node, n \in In(d)'
      PROVE  n \in In(d) /\ Pos(d, n)' <= Pos(d, n)
  <2>1. UpTo(d, n)' \in SUBSET UpTo(d, n)
    BY <1>3 DEF UpTo, In
  <2>2. n \in In(d)
    BY <1>3 DEF In
  <2>3. Cardinality(UpTo(d, n)') <= Cardinality(UpTo(d, n))
    BY <1>1, <2>1, FS_Subset
  <2> QED
    BY <2>2, <2>3 DEF Pos
<1> QED
  BY <1>1, <1>2, <1>3

(* What is known of a listing stays true when places change.               *)
LEMMA NotedListing ==
    ASSUME NEW L \in Listing, ListInv(L), NEW M, M = Noted(L)
    PROVE  M \in Listing /\ ListInv(M)'
<1> DEFINE left == {n \in In(L.dir) : place'[n] # place[n]}
           came == \E n \in Node : /\ place'[n] # None /\ place'[n] # place[n]
                                   /\ place'[n].dir = L.dir
<1>1. M = [L EXCEPT !.there = @ \ left, !.shrunk = @ \/ left # {},
                    !.grown = @ \/ came]
  BY DEF Noted
<1>2. PICK gone \in SUBSET Node : gone = left
  BY DEF In
<1>3. PICK new \in BOOLEAN : new = came
  OBVIOUS
<1>4. M = [L EXCEPT !.there = @ \ gone, !.shrunk = @ \/ gone # {}, !.grown = @ \/ new]
  BY <1>1, <1>2, <1>3
<1> HIDE DEF left, came
<1>5. /\ L.dir \in Folder /\ L.index \in Nat \ {0} /\ L.seen \in SUBSET Node
      /\ L.twice \in BOOLEAN /\ L.there \in SUBSET Node /\ L.shrunk \in BOOLEAN
      /\ L.grown \in BOOLEAN
  BY DEF Listing
<1>6. PICK sh \in BOOLEAN : sh = (L.shrunk \/ gone # {})
  OBVIOUS
<1>7. PICK gr \in BOOLEAN : gr = (L.grown \/ new)
  OBVIOUS
<1>8. M = [L EXCEPT !.there = L.there \ gone, !.shrunk = sh, !.grown = gr]
  BY <1>4, <1>6, <1>7 DEF Listing
<1>9. /\ M.dir = L.dir /\ M.index = L.index /\ M.seen = L.seen /\ M.twice = L.twice
      /\ M.there = L.there \ gone /\ M.shrunk = sh /\ M.grown = gr
  BY <1>8 DEF Listing
<1>10. M \in Listing
  BY <1>5, <1>8 DEF Listing
<1>11. PICK d \in Folder : d = L.dir
  BY <1>5
<1>12. ASSUME ~M.shrunk
       PROVE  /\ M.there \subseteq In(d)'
              /\ \A n \in M.there : Pos(d, n)' < M.index => n \in M.seen
  <2>1. ~L.shrunk /\ gone = {}
    BY <1>6, <1>9, <1>12
  <2>2. L.there \subseteq In(d) /\ \A n \in L.there : Pos(d, n) < L.index => n \in L.seen
    BY <1>11, <2>1 DEF ListInv
  <2>3. \A n \in In(d) : place'[n] = place[n]
    BY <1>2, <1>11, <2>1 DEF left
  <2>4. \A n \in In(d) : n \in In(d)' /\ Pos(d, n) <= Pos(d, n)'
    BY <2>3, PosMoves
  <2>5. \A n \in Node : Pos(d, n) \in Nat /\ Pos(d, n)' \in Nat
    BY PosMoves
  <2>6. M.there = L.there
    BY <1>9, <2>1
  <2>7. ASSUME NEW n \in L.there, Pos(d, n)' < L.index PROVE n \in L.seen
    <3>1. n \in In(d) /\ n \in Node
      BY <1>5, <2>2
    <3>2. Pos(d, n) < L.index
      BY <1>5, <2>4, <2>5, <2>7, <3>1
    <3> QED
      BY <2>2, <3>2
  <2> QED
    BY <1>9, <2>2, <2>4, <2>6, <2>7
<1>13. ASSUME ~M.grown
       PROVE  /\ ~M.twice
              /\ \A n \in M.seen : n \in In(d)' => Pos(d, n)' < M.index
  <2>1. ~L.grown /\ ~new
    BY <1>7, <1>9, <1>13
  <2>2. ~L.twice /\ \A n \in L.seen : n \in In(d) => Pos(d, n) < L.index
    BY <1>11, <2>1 DEF ListInv
  <2>3. \A n \in Node : place'[n] # None /\ place'[n].dir = d => place'[n] = place[n]
    BY <1>3, <1>11, <2>1 DEF came
  <2>4. \A n \in Node : n \in In(d)' => n \in In(d) /\ Pos(d, n)' <= Pos(d, n)
    BY <2>3, PosMoves
  <2>5. \A n \in Node : Pos(d, n) \in Nat /\ Pos(d, n)' \in Nat
    BY PosMoves
  <2>6. ASSUME NEW n \in L.seen, n \in In(d)' PROVE Pos(d, n)' < L.index
    <3>1. n \in Node
      BY <1>5
    <3>2. Pos(d, n) < L.index /\ Pos(d, n)' <= Pos(d, n)
      BY <2>2, <2>4, <2>6, <3>1
    <3> QED
      BY <1>5, <2>5, <3>1, <3>2
  <2> QED
    BY <1>9, <2>2, <2>6
<1>14. M.dir = d
  BY <1>9, <1>11
<1> QED
  BY <1>10, <1>12, <1>13, <1>14 DEF ListInv

-----------------------------------------------------------------------------
(* A command that goes on in a step of its own, the tree and the locks     *)
(* being what they were.                                                   *)
LEMMA TaskStep ==
    ASSUME IInv, NEW s \in Session, NEW t \in Task,
           task' = [task EXCEPT ![s] = t], StepInv(t), FoundInv(t),
           UNCHANGED <<place, locked, listing>>,
           charMap' \in [Node -> MacName \cup {None}], spoiled' \subseteq Node,
           calls' \in 0..MaxCalls, NameInv'
    PROVE  IInv'
<1>1. task' \in [Session -> Task] /\ task'[s] = t
      /\ \A r \in Session \ {s} : task'[r] = task[r]
  BY DEF IInv, TypeInv
<1>2. TypeInv'
  BY <1>1 DEF IInv, TypeInv
<1>3. TreeInv'
  BY DEF IInv, TreeInv, Live, Within, Upward
<1>4. ASSUME NEW r \in Session PROVE StepInv(task'[r]) /\ FoundInv(task[r])'
  <2>1. PICK u : u = task'[r]
    OBVIOUS
  <2>2. StepInv(u) /\ FoundInv(u)
    BY <1>1, <2>1 DEF IInv
  <2>3. FoundInv(u)'
    BY <2>2 DEF FoundInv
  <2> QED
    BY <2>1, <2>2, <2>3 DEF FoundInv
<1>5. ASSUME NEW r \in Session, listing'[r] # None PROVE ListInv(listing[r])'
  <2>1. PICK L : L = listing[r]
    OBVIOUS
  <2>2. ListInv(L)
    BY <1>5, <2>1 DEF IInv
  <2>3. ListInv(L)'
    BY <2>2 DEF ListInv, Pos, UpTo, In
  <2>4. L = listing'[r]
    BY <2>1
  <2> QED
    BY <2>3, <2>4 DEF ListInv, Pos, UpTo, In
<1>6. \A r \in Session : StepInv(task[r])'
  BY <1>4 DEF StepInv
<1> QED
  BY <1>2, <1>3, <1>4, <1>5, <1>6 DEF IInv

(* The names shown stay good when neither places nor attributes change.    *)
LEMMA NamesStay ==
    ASSUME NameInv, UNCHANGED <<place, charMap, spoiled>>
    PROVE  NameInv'
BY DEF NameInv, ShownNamesAreFound, Shown

(* The other commands know that they have been raced.                      *)
LEMMA RacedTask ==
    ASSUME NEW t \in Task, StepInv(t),
           NEW u, u = [t EXCEPT !.raced = @ \/ t.at # "idle"]
    PROVE  u \in Task /\ StepInv(u) /\ FoundInv(u)'
<1>1. PICK b \in BOOLEAN : b = (t.raced \/ t.at # "idle")
  OBVIOUS
<1>2. u = [t EXCEPT !.raced = b]
  BY <1>1 DEF Task
<1>3. u \in Task
  BY <1>2 DEF Task
<1>4. /\ u.at = t.at /\ u.op = t.op /\ u.entry = t.entry /\ u.node = t.node
      /\ u.mac = t.mac /\ u.open = t.open /\ u.source = t.source /\ u.raced = b
  BY <1>2 DEF Task
<1>5. StepInv(u)
  BY <1>4 DEF StepInv
<1>6. ~u.raced => u.at = "idle"
  BY <1>1, <1>4
<1> QED
  BY <1>3, <1>5, <1>6 DEF FoundInv

(* A change of the tree or the locks keeps everything that is known of the *)
(* other commands and of the listings.                                     *)
LEMMA ChangeStep ==
    ASSUME IInv, NEW s \in Session, NEW t \in Task,
           Changed(s, t), StepInv(t), FoundInv(t)',
           place' \in [Node -> Entry \cup {None}], TreeInv',
           charMap' \in [Node -> MacName \cup {None}], spoiled' \subseteq Node,
           locked' \subseteq Node, NameInv', UNCHANGED calls
    PROVE  IInv'
<1>1. task' = [r \in Session |-> IF r = s THEN t
                  ELSE [task[r] EXCEPT !.raced = @ \/ task[r].at # "idle"]]
  BY DEF Changed
<1>2. ASSUME NEW r \in Session
      PROVE  task'[r] \in Task /\ StepInv(task[r])' /\ FoundInv(task[r])'
  <2>1. PICK u : u = task'[r]
    OBVIOUS
  <2>2. u \in Task /\ StepInv(u) /\ FoundInv(u)'
    <3>1. CASE r = s
      BY <1>1, <2>1, <3>1
    <3>2. CASE r # s
      <4>1. PICK q \in Task : q = task[r]
        BY DEF IInv, TypeInv
      <4>2. StepInv(q)
        BY <4>1 DEF IInv
      <4>3. u = [q EXCEPT !.raced = @ \/ q.at # "idle"]
        BY <1>1, <2>1, <3>2, <4>1
      <4> QED
        BY <4>2, <4>3, RacedTask
    <3> QED
      BY <3>1, <3>2
  <2> QED
    BY <2>1, <2>2 DEF StepInv, FoundInv
<1>3. ASSUME NEW r \in Session
      PROVE  listing'[r] \in Listing \cup {None} /\ (listing'[r] # None => ListInv(listing[r])')
  <2>1. CASE listing[r] = None
    <3>1. listing'[r] = None
      BY <2>1 DEF Changed
    <3> QED
      BY <3>1
  <2>2. CASE listing[r] # None
    <3>1. PICK L \in Listing : L = listing[r]
      BY <2>2 DEF IInv, TypeInv
    <3>2. ListInv(L)
      BY <2>2, <3>1 DEF IInv
    <3>3. PICK M : M = listing'[r]
      OBVIOUS
    <3>4. M = Noted(L)
      BY <2>2, <3>1, <3>3 DEF Changed, Noted
    <3>5. M \in Listing /\ ListInv(M)'
      BY <3>2, <3>4, NotedListing
    <3> QED
      BY <3>3, <3>5 DEF ListInv, Pos, UpTo, In
  <2> QED
    BY <2>1, <2>2
<1>4. task' \in [Session -> Task]
  BY <1>1, <1>2
<1>5. listing' \in [Session -> Listing \cup {None}]
  <2>1. listing' = [r \in Session |-> IF listing[r] = None THEN None
                                         ELSE Noted(listing[r])]
    BY DEF Changed, Noted
  <2>2. listing' = [r \in Session |-> listing'[r]]
    BY <2>1
  <2> QED
    BY <1>3, <2>2
<1>6. TypeInv'
  BY <1>4, <1>5 DEF IInv, TypeInv
<1> QED
  BY <1>2, <1>3, <1>6 DEF IInv

(* A step of a listing changes nothing else.                               *)
LEMMA ListingStep ==
    ASSUME IInv, NEW s \in Session, NEW L \in Listing \cup {None},
           listing' = [listing EXCEPT ![s] = L], L # None => ListInv(L),
           UNCHANGED <<place, charMap, locked, task, spoiled>>,
           calls' \in 0..MaxCalls
    PROVE  IInv'
<1>1. /\ listing' \in [Session -> Listing \cup {None}] /\ listing'[s] = L
      /\ \A r \in Session \ {s} : listing'[r] = listing[r]
  BY DEF IInv, TypeInv
<1>2. TypeInv'
  BY <1>1 DEF IInv, TypeInv
<1>3. TreeInv' /\ NameInv'
  BY NamesStay DEF IInv, TreeInv, Live, Within, Upward
<1>4. ASSUME NEW r \in Session PROVE StepInv(task[r])' /\ FoundInv(task[r])'
  BY DEF IInv, StepInv, FoundInv
<1>5. ASSUME NEW r \in Session, listing'[r] # None PROVE ListInv(listing[r])'
  <2>1. PICK M : M = listing'[r]
    OBVIOUS
  <2>2. ListInv(M)
    BY <1>1, <1>5, <2>1 DEF IInv
  <2> QED
    BY <2>1, <2>2 DEF ListInv, Pos, UpTo, In
<1> QED
  BY <1>2, <1>3, <1>4, <1>5 DEF IInv

(* The same where names and attributes stay, too.                          *)
LEMMA PlainStep ==
    ASSUME IInv, NEW s \in Session, NEW t \in Task,
           task' = [task EXCEPT ![s] = t], StepInv(t), FoundInv(t),
           UNCHANGED <<place, charMap, locked, listing, spoiled>>,
           calls' \in 0..MaxCalls
    PROVE  IInv'
<1>1. NameInv'
  BY NamesStay DEF IInv
<1>2. charMap' \in [Node -> MacName \cup {None}] /\ spoiled' \subseteq Node
  BY DEF IInv, TypeInv
<1> QED
  BY <1>1, <1>2, TaskStep

(* No command is a good command.                                           *)
LEMMA IdleFacts == Idle \in Task /\ StepInv(Idle) /\ FoundInv(Idle) /\ FoundInv(Idle)'
<1>1. Idle \in Task
  BY DEF Idle, Task, Ats, Ops
<1>2. Idle.at = "idle" /\ Idle.op = "none" /\ Idle.mac = None
  BY DEF Idle
<1> QED
  BY <1>1, <1>2, NameFacts DEF StepInv, FoundInv

LEMMA EndsStep ==
    ASSUME IInv, NEW s \in Session, Ends(s),
           UNCHANGED <<place, charMap, locked, listing, spoiled, calls>>
    PROVE  IInv'
<1>1. calls' \in 0..MaxCalls
  BY DEF IInv, TypeInv
<1>2. PICK t : t = Idle
  OBVIOUS
<1>3. t \in Task /\ StepInv(t) /\ FoundInv(t) /\ task' = [task EXCEPT ![s] = t]
  BY <1>2, IdleFacts DEF Ends
<1> QED
  BY <1>1, <1>3, PlainStep

LEMMA BeginStep ==
    ASSUME IInv, NEW s \in Session, NEW t \in Task, Ready(s), Begin(s, t),
           StepInv(t), FoundInv(t)
    PROVE  IInv'
<1>1. calls' \in 0..MaxCalls
  BY BoundAssumption DEF IInv, TypeInv, Begin, Ready
<1> QED
  BY <1>1, PlainStep DEF Begin

(* What a command has resolved.                                            *)
LEMMA ResolvedFacts ==
    ASSUME IInv, NEW op \in Ops, NEW at \in Ats, NEW d \in Folder, NEW mac \in MacName,
           NEW t, t = Resolved(op, at, d, mac)
    PROVE  /\ t \in Task /\ t.at = at /\ t.op = op /\ t.mac = None
           /\ t.entry \in Entry /\ t.entry = [dir |-> d, name |-> ToDisk(mac)]
           /\ t.node = At(t.entry)
           /\ t.node # None => t.node \in Node /\ place[t.node] = t.entry
<1>1. PICK e \in Entry : e = [dir |-> d, name |-> ToDisk(mac)]
  BY NameFacts DEF Entry
<1>2. /\ At(e) \in Node \cup {None}
      /\ At(e) # None => At(e) \in Node \ {Root} /\ place[At(e)] = e
  BY AtFacts DEF IInv
<1>3. PICK n \in Node \cup {None} : n = At(e)
  BY <1>2
<1>4. t = [Idle EXCEPT !.op = op, !.at = at, !.entry = e, !.node = n]
  BY <1>1, <1>3 DEF Resolved
<1>5. /\ t.op = op /\ t.at = at /\ t.entry = e /\ t.node = n /\ t.mac = None
      /\ t \in Task
  BY <1>4 DEF Idle, Task
<1> QED
  BY <1>1, <1>2, <1>3, <1>5

-----------------------------------------------------------------------------
(* The commands as they begin.                                             *)
LEMMA FPDeleteStep ==
    ASSUME IInv, NEW s \in Session, FPDelete(s) PROVE IInv'
<1>1. PICK d \in Folder, mac \in MacName :
         /\ Ready(s) /\ Resolved("delete", "check", d, mac).node # None
         /\ Begin(s, Resolved("delete", "check", d, mac))
  BY DEF FPDelete
<1>2. PICK t : t = Resolved("delete", "check", d, mac)
  OBVIOUS
<1>3. /\ t \in Task /\ t.at = "check" /\ t.op = "delete" /\ t.mac = None
      /\ t.entry \in Entry /\ t.node \in Node /\ place[t.node] = t.entry
  <2>1. PICK op \in Ops, at \in Ats : op = "delete" /\ at = "check"
    BY DEF Ops, Ats
  <2>2. t = Resolved(op, at, d, mac)
    BY <1>2, <2>1
  <2>3. /\ t \in Task /\ t.at = at /\ t.op = op /\ t.mac = None
        /\ t.entry \in Entry /\ t.entry = [dir |-> d, name |-> ToDisk(mac)]
        /\ t.node = At(t.entry)
        /\ t.node # None => t.node \in Node /\ place[t.node] = t.entry
    BY <2>2, ResolvedFacts
  <2> QED
    BY <1>1, <1>2, <2>1, <2>3
<1>4. StepInv(t) /\ FoundInv(t)
  BY <1>3, NameFacts DEF StepInv, FoundInv
<1> QED
  BY <1>1, <1>2, <1>3, <1>4, BeginStep

LEMMA FPRenameStep ==
    ASSUME IInv, NEW s \in Session, FPRename(s) PROVE IInv'
<1>1. PICK d \in Folder, mac \in MacName, new \in MacName :
         /\ Ready(s)
         /\ [Resolved("rename", "check", d, mac) EXCEPT !.mac = new].node # None
         /\ Begin(s, [Resolved("rename", "check", d, mac) EXCEPT !.mac = new])
  BY DEF FPRename
<1>2. PICK q : q = Resolved("rename", "check", d, mac)
  OBVIOUS
<1>3. /\ q \in Task /\ q.at = "check" /\ q.op = "rename" /\ q.entry \in Entry
      /\ q.node # None => q.node \in Node /\ place[q.node] = q.entry
  <2>1. PICK op \in Ops, at \in Ats : op = "rename" /\ at = "check"
    BY DEF Ops, Ats
  <2>2. q = Resolved(op, at, d, mac)
    BY <1>2, <2>1
  <2>3. /\ q \in Task /\ q.at = at /\ q.op = op /\ q.mac = None
        /\ q.entry \in Entry /\ q.entry = [dir |-> d, name |-> ToDisk(mac)]
        /\ q.node = At(q.entry)
        /\ q.node # None => q.node \in Node /\ place[q.node] = q.entry
    BY <2>2, ResolvedFacts
  <2> QED
    BY <1>2, <2>1, <2>3
<1>4. PICK t : t = [q EXCEPT !.mac = new]
  OBVIOUS
<1>5. /\ t \in Task /\ t.at = "check" /\ t.op = "rename" /\ t.mac = new
      /\ t.entry = q.entry /\ t.node = q.node
  BY <1>3, <1>4 DEF Task
<1>6. t.node # None /\ Begin(s, t)
  BY <1>1, <1>2, <1>4
<1>7. StepInv(t) /\ FoundInv(t)
  BY <1>3, <1>5, <1>6, NameFacts DEF StepInv, FoundInv
<1> QED
  BY <1>1, <1>5, <1>6, <1>7, BeginStep

LEMMA FPMoveAndRenameStep ==
    ASSUME IInv, NEW s \in Session, FPMoveAndRename(s) PROVE IInv'
<1>1. PICK d \in Folder, mac \in MacName, new \in MacName \cup {None} :
         /\ Ready(s)
         /\ [Resolved("move", "check", d, mac) EXCEPT !.mac = new].node # None
         /\ Begin(s, [Resolved("move", "check", d, mac) EXCEPT !.mac = new])
  BY DEF FPMoveAndRename
<1>2. PICK q : q = Resolved("move", "check", d, mac)
  OBVIOUS
<1>3. /\ q \in Task /\ q.at = "check" /\ q.op = "move" /\ q.entry \in Entry
      /\ q.node # None => q.node \in Node /\ place[q.node] = q.entry
  <2>1. PICK op \in Ops, at \in Ats : op = "move" /\ at = "check"
    BY DEF Ops, Ats
  <2>2. q = Resolved(op, at, d, mac)
    BY <1>2, <2>1
  <2>3. /\ q \in Task /\ q.at = at /\ q.op = op /\ q.mac = None
        /\ q.entry \in Entry /\ q.entry = [dir |-> d, name |-> ToDisk(mac)]
        /\ q.node = At(q.entry)
        /\ q.node # None => q.node \in Node /\ place[q.node] = q.entry
    BY <2>2, ResolvedFacts
  <2> QED
    BY <1>2, <2>1, <2>3
<1>4. PICK t : t = [q EXCEPT !.mac = new]
  OBVIOUS
<1>5. /\ t \in Task /\ t.at = "check" /\ t.op = "move" /\ t.mac = new
      /\ t.entry = q.entry /\ t.node = q.node
  BY <1>3, <1>4 DEF Task
<1>6. t.node # None /\ Begin(s, t)
  BY <1>1, <1>2, <1>4
<1>7. StepInv(t) /\ FoundInv(t)
  BY <1>3, <1>5, <1>6, NameFacts DEF StepInv, FoundInv
<1> QED
  BY <1>1, <1>5, <1>6, <1>7, BeginStep

LEMMA CreatesStep ==
    ASSUME IInv, NEW s \in Session, NEW op \in {"file", "hard", "folder"}, Creates(s, op)
    PROVE  IInv'
<1>1. PICK d \in Folder, mac \in MacName :
         /\ Ready(s)
         /\ Begin(s, [Idle EXCEPT !.op = op, !.at = "create", !.mac = mac,
                          !.entry = [dir |-> d, name |-> ToDisk(mac)]])
  BY DEF Creates
<1>2. PICK e \in Entry : e = [dir |-> d, name |-> ToDisk(mac)]
  BY NameFacts DEF Entry
<1>3. PICK t : t = [Idle EXCEPT !.op = op, !.at = "create", !.mac = mac, !.entry = e]
  OBVIOUS
<1>4. t \in Task /\ t.at = "create" /\ t.op = op /\ t.mac = mac /\ t.entry = e
  BY <1>3 DEF Idle, Task, Ops, Ats
<1>5. StepInv(t) /\ FoundInv(t)
  BY <1>4, NameFacts DEF StepInv, FoundInv
<1>6. Begin(s, t)
  BY <1>1, <1>2, <1>3
<1> QED
  BY <1>1, <1>4, <1>5, <1>6, BeginStep

LEMMA FPCopyFileStep ==
    ASSUME IInv, NEW s \in Session, FPCopyFile(s) PROVE IInv'
<1>1. PICK d \in Folder, to \in Folder, mac \in MacName, new \in MacName \cup {None} :
         /\ Ready(s) /\ Resolved("copy", "create", d, mac).node \in File
         /\ Begin(s, [Resolved("copy", "create", d, mac) EXCEPT
                !.source = Resolved("copy", "create", d, mac).entry, !.mac = new,
                !.entry = [dir |-> to,
                           name |-> IF new = None
                                    THEN Resolved("copy", "create", d, mac).entry.name
                                    ELSE ToDisk(new)]])
  BY DEF FPCopyFile
<1>2. PICK q : q = Resolved("copy", "create", d, mac)
  OBVIOUS
<1>3. q \in Task /\ q.at = "create" /\ q.op = "copy" /\ q.entry \in Entry /\ q.node \in File
  <2>1. PICK op \in Ops, at \in Ats : op = "copy" /\ at = "create"
    BY DEF Ops, Ats
  <2>2. q = Resolved(op, at, d, mac)
    BY <1>2, <2>1
  <2>3. /\ q \in Task /\ q.at = at /\ q.op = op /\ q.mac = None
        /\ q.entry \in Entry /\ q.entry = [dir |-> d, name |-> ToDisk(mac)]
        /\ q.node = At(q.entry)
        /\ q.node # None => q.node \in Node /\ place[q.node] = q.entry
    BY <2>2, ResolvedFacts
  <2> QED
    BY <1>1, <1>2, <2>1, <2>3
<1>4. PICK m \in Name : m = IF new = None THEN q.entry.name ELSE ToDisk(new)
  BY <1>3, NameFacts
<1>5. PICK e \in Entry : e = [dir |-> to, name |-> m]
  BY DEF Entry
<1>6. PICK t : t = [q EXCEPT !.source = q.entry, !.mac = new, !.entry = e]
  OBVIOUS
<1>7. /\ t \in Task /\ t.at = "create" /\ t.op = "copy" /\ t.mac = new
      /\ t.entry = e /\ t.node = q.node /\ t.source = q.entry
  BY <1>3, <1>6 DEF Task
<1>8. Begin(s, t)
  BY <1>1, <1>2, <1>4, <1>5, <1>6
<1>9. e.name = m
  BY <1>5
<1>10. StepInv(t) /\ FoundInv(t)
  BY <1>3, <1>4, <1>7, <1>9, NameFacts DEF StepInv, FoundInv
<1> QED
  BY <1>1, <1>7, <1>8, <1>10, BeginStep

LEMMA FPSetFileDirParmsStep ==
    ASSUME IInv, NEW s \in Session, FPSetFileDirParms(s) PROVE IInv'
<1>1. PICK d \in Folder, mac \in MacName :
         Ready(s) /\ Begin(s, Resolved("parms", "get", d, mac))
  BY DEF FPSetFileDirParms
<1>2. PICK t : t = Resolved("parms", "get", d, mac)
  OBVIOUS
<1>3. /\ t \in Task /\ t.at = "get" /\ t.op = "parms" /\ t.mac = None
      /\ t.entry \in Entry
  <2>1. PICK op \in Ops, at \in Ats : op = "parms" /\ at = "get"
    BY DEF Ops, Ats
  <2>2. t = Resolved(op, at, d, mac)
    BY <1>2, <2>1
  <2>3. /\ t \in Task /\ t.at = at /\ t.op = op /\ t.mac = None
        /\ t.entry \in Entry /\ t.entry = [dir |-> d, name |-> ToDisk(mac)]
        /\ t.node = At(t.entry)
        /\ t.node # None => t.node \in Node /\ place[t.node] = t.entry
    BY <2>2, ResolvedFacts
  <2> QED
    BY <1>2, <2>1, <2>3
<1>4. StepInv(t) /\ FoundInv(t)
  BY <1>3, NameFacts DEF StepInv, FoundInv
<1> QED
  BY <1>1, <1>2, <1>3, <1>4, BeginStep

-----------------------------------------------------------------------------
(* The steps of a command that change nothing but the command.             *)
LEMMA CommandFacts ==
    ASSUME IInv, NEW s \in Session
    PROVE  /\ task[s] \in Task /\ StepInv(task[s]) /\ FoundInv(task[s])
           /\ task \in [Session -> Task] /\ calls \in 0..MaxCalls
BY DEF IInv, TypeInv

LEMMA CheckedStep ==
    ASSUME IInv, NEW s \in Session, NEW op \in {"delete", "rename", "move"},
           NEW next \in {"remove", "rename", "target"},
           next = "rename" => op = "rename", next = "target" => op = "move",
           Checked(s, op, next)
    PROVE  IInv'
<1>1. PICK q \in Task : q = task[s]
  BY CommandFacts
<1>2. StepInv(q) /\ FoundInv(q) /\ q.at = "check" /\ q.op = op
  BY <1>1, CommandFacts DEF Checked, Does
<1>3. CASE Refused(q.entry)
  <2>1. Ends(s) /\ UNCHANGED <<place, charMap, locked, listing, spoiled, calls>>
    BY <1>1, <1>3 DEF Checked
  <2> QED
    BY <2>1, EndsStep
<1>4. CASE ~Refused(q.entry)
  <2>1. PICK t : t = [q EXCEPT !.at = next]
    OBVIOUS
  <2>2. task' = [task EXCEPT ![s] = t]
    BY <1>1, <1>4, <2>1 DEF Checked
  <2>3. /\ t \in Task /\ t.at = next /\ t.op = op /\ t.node = q.node
        /\ t.entry = q.entry /\ t.mac = q.mac /\ t.raced = q.raced
    BY <1>2, <2>1 DEF Task, Ats
  <2>4. StepInv(t)
    BY <1>2, <2>3 DEF StepInv
  <2>5. q.entry \in Entry /\ q.node \in Node
    BY <1>2 DEF StepInv
  <2>6. ~q.raced => place[q.node] = q.entry /\ q.node \notin locked
    <3>1. \A n \in Node : place[n] = q.entry => At(q.entry) = n
      BY <2>5, AtFacts DEF IInv
    <3> QED
      BY <1>2, <1>4, <2>5, <3>1 DEF FoundInv, Refused
  <2>7. FoundInv(t)
    BY <2>3, <2>6 DEF FoundInv
  <2>8. UNCHANGED <<place, charMap, locked, listing, spoiled, calls>>
    BY DEF Checked
  <2>9. calls' \in 0..MaxCalls
    BY <2>8, CommandFacts
  <2> QED
    BY <2>2, <2>3, <2>4, <2>7, <2>8, <2>9, PlainStep
<1> QED
  BY <1>3, <1>4

LEMMA MoveTargetStep ==
    ASSUME IInv, NEW s \in Session, MoveTarget(s) PROVE IInv'
<1>1. PICK q \in Task : q = task[s]
  BY CommandFacts
<1>2. StepInv(q) /\ FoundInv(q) /\ q.at = "target"
  BY <1>1, CommandFacts DEF MoveTarget, Does
<1>3. /\ UNCHANGED <<place, charMap, locked, listing, spoiled, calls>>
      /\ calls' \in 0..MaxCalls
  BY CommandFacts DEF MoveTarget
<1>4. PICK d \in Folder, moves \in BOOLEAN :
         IF ~moves /\ q.mac = None
         THEN Ends(s)
         ELSE task' = [task EXCEPT ![s].open = d,
                                   ![s].at = IF moves THEN "move" ELSE "rename"]
  BY <1>1 DEF MoveTarget
<1>5. CASE ~moves /\ q.mac = None
  BY <1>3, <1>4, <1>5, EndsStep
<1>6. CASE ~(~moves /\ q.mac = None)
  <2>1. PICK at \in {"move", "rename"} : at = IF moves THEN "move" ELSE "rename"
    OBVIOUS
  <2>2. PICK t : t = [q EXCEPT !.open = d, !.at = at]
    OBVIOUS
  <2>3. task' = [task EXCEPT ![s] = t]
    BY <1>1, <1>4, <1>6, <2>1, <2>2, CommandFacts
  <2>4. /\ t \in Task /\ t.at = at /\ t.op = q.op /\ t.node = q.node
        /\ t.entry = q.entry /\ t.mac = q.mac /\ t.raced = q.raced
        /\ t.open = d /\ t.source = q.source
    BY <2>2 DEF Task, Ats, Node
  <2>5. at = "rename" => q.mac # None
    BY <1>6, <2>1
  <2>6. StepInv(t)
    BY <1>2, <2>4, <2>5 DEF StepInv
  <2>7. FoundInv(t)
    BY <1>2, <2>4 DEF FoundInv
  <2> QED
    BY <1>3, <2>3, <2>4, <2>6, <2>7, PlainStep
<1> QED
  BY <1>5, <1>6

LEMMA OpenToNameStep ==
    ASSUME IInv, NEW s \in Session, OpenToName(s) PROVE IInv'
<1>1. PICK q \in Task : q = task[s]
  BY CommandFacts
<1>2. StepInv(q) /\ FoundInv(q) /\ q.at = "open" /\ q.entry \in Entry
  BY <1>1, CommandFacts DEF OpenToName, Does, StepInv
<1>3. /\ UNCHANGED <<place, charMap, locked, listing, spoiled, calls>>
      /\ calls' \in 0..MaxCalls
  BY CommandFacts DEF OpenToName
<1>4. PICK n : n = At(q.entry)
  OBVIOUS
<1>5. n # None => n \in Node \ {Root} /\ place[n] = q.entry
  BY <1>2, <1>4, AtFacts DEF IInv
<1>6. CASE n = None /\ q.op # "copy"
  <2>1. Ends(s)
    BY <1>1, <1>4, <1>6 DEF OpenToName
  <2> QED
    BY <1>3, <2>1, EndsStep
<1>7. CASE n = None /\ q.op = "copy"
  <2>1. PICK t : t = [q EXCEPT !.at = "copy"]
    OBVIOUS
  <2>2. task' = [task EXCEPT ![s] = t]
    BY <1>1, <1>4, <1>7, <2>1, CommandFacts DEF OpenToName
  <2>3. /\ t \in Task /\ t.at = "copy" /\ t.op = q.op /\ t.node = q.node
        /\ t.entry = q.entry /\ t.mac = q.mac /\ t.source = q.source
    BY <2>1 DEF Task, Ats
  <2>4. StepInv(t) /\ FoundInv(t)
    BY <1>2, <1>7, <2>3 DEF StepInv, FoundInv
  <2> QED
    BY <1>3, <2>2, <2>3, <2>4, PlainStep
<1>8. CASE n # None
  <2>1. PICK t : t = [q EXCEPT !.open = n, !.at = "name"]
    OBVIOUS
  <2>2. task' = [task EXCEPT ![s] = t]
    BY <1>1, <1>4, <1>8, <2>1, CommandFacts DEF OpenToName
  <2>3. /\ t \in Task /\ t.at = "name" /\ t.op = q.op /\ t.node = q.node
        /\ t.entry = q.entry /\ t.mac = q.mac /\ t.source = q.source
        /\ t.open = n
    BY <1>5, <1>8, <2>1 DEF Task, Ats
  <2>4. StepInv(t) /\ FoundInv(t)
    BY <1>2, <1>5, <1>8, <2>3 DEF StepInv, FoundInv
  <2> QED
    BY <1>3, <2>2, <2>3, <2>4, PlainStep
<1> QED
  BY <1>6, <1>7, <1>8

LEMMA GetAttributesStep ==
    ASSUME IInv, NEW s \in Session, GetAttributes(s) PROVE IInv'
<1>1. PICK q \in Task : q = task[s]
  BY CommandFacts
<1>2. StepInv(q) /\ FoundInv(q) /\ q.at = "get"
  BY <1>1, CommandFacts DEF GetAttributes, Does
<1>3. /\ UNCHANGED <<place, charMap, locked, listing, spoiled, calls>>
      /\ calls' \in 0..MaxCalls
  BY CommandFacts DEF GetAttributes
<1>4. CASE At(q.entry) = None
  <2>1. Ends(s)
    BY <1>1, <1>4 DEF GetAttributes
  <2> QED
    BY <1>3, <2>1, EndsStep
<1>5. CASE At(q.entry) # None
  <2>1. PICK inh \in BOOLEAN :
           task' = [task EXCEPT ![s].at = "set", ![s].inhibits = inh]
    BY <1>1, <1>5 DEF GetAttributes
  <2>2. PICK t : t = [q EXCEPT !.at = "set", !.inhibits = inh]
    OBVIOUS
  <2>3. task' = [task EXCEPT ![s] = t]
    BY <1>1, <2>1, <2>2, CommandFacts
  <2>4. /\ t \in Task /\ t.at = "set" /\ t.op = q.op /\ t.node = q.node
        /\ t.entry = q.entry /\ t.mac = q.mac /\ t.source = q.source
    BY <2>2 DEF Task, Ats
  <2>5. StepInv(t) /\ FoundInv(t)
    BY <1>2, <2>4 DEF StepInv, FoundInv
  <2> QED
    BY <1>3, <2>3, <2>4, <2>5, PlainStep
<1> QED
  BY <1>4, <1>5

(* SetAFPName: the attribute fits the entry whose node was opened, unless  *)
(* somebody was in between; then the node is among the spoiled.            *)
LEMMA SetAFPNameStep ==
    ASSUME IInv, NEW s \in Session, SetAFPName(s) PROVE IInv'
<1>1. PICK q \in Task : q = task[s]
  BY CommandFacts
<1>2. StepInv(q) /\ FoundInv(q) /\ q.at = "name"
  BY <1>1, CommandFacts DEF SetAFPName, Does
<1>3. UNCHANGED <<place, locked, listing, calls>> /\ calls' \in 0..MaxCalls
  BY CommandFacts DEF SetAFPName
<1>4. PICK t : t = IF q.op = "copy" THEN [q EXCEPT !.at = "copy"] ELSE Idle
  OBVIOUS
<1>5. task' = [task EXCEPT ![s] = t]
  BY <1>1, <1>4, CommandFacts DEF SetAFPName
<1>6. t \in Task /\ StepInv(t) /\ FoundInv(t)
  <2>1. CASE q.op = "copy"
    <3>1. t = [q EXCEPT !.at = "copy"]
      BY <1>4, <2>1
    <3>2. /\ t \in Task /\ t.at = "copy" /\ t.op = q.op /\ t.node = q.node
          /\ t.entry = q.entry /\ t.mac = q.mac /\ t.source = q.source
      BY <3>1 DEF Task, Ats
    <3> QED
      BY <1>2, <2>1, <3>2 DEF StepInv, FoundInv
  <2>2. CASE q.op # "copy"
    BY <1>4, <2>2, IdleFacts
  <2> QED
    BY <2>1, <2>2
<1>7. PICK n \in Node \ {Root} : n = q.open
  BY <1>2 DEF StepInv
<1>8. q.entry \in Entry /\ q.mac \in MacName \cup {Mapped} /\ q.mac # None
  BY <1>2 DEF StepInv, Task
<1>9. /\ place \in [Node -> Entry \cup {None}] /\ spoiled \subseteq Node
      /\ charMap \in [Node -> MacName \cup {None}]
  BY DEF IInv, TypeInv
<1>10. CASE ~Live(n)
  <2>1. UNCHANGED <<place, charMap, spoiled>>
    BY <1>1, <1>3, <1>7, <1>10 DEF SetAFPName
  <2> QED
    BY <1>3, <1>5, <1>6, <2>1, PlainStep
<1>11. CASE Live(n)
  <2>1. PICK fits \in BOOLEAN : fits = (~q.raced /\ ToDisk(q.mac) = q.entry.name)
    OBVIOUS
  <2>2. PICK attr : attr = CharMapOf(q.mac, q.entry.name, charMap[n])
    OBVIOUS
  <2>3. /\ charMap' = [charMap EXCEPT ![n] = attr]
        /\ spoiled' = IF fits THEN spoiled \ {n} ELSE spoiled \cup {n}
    BY <1>1, <1>7, <1>9, <1>11, <2>1, <2>2 DEF SetAFPName
  <2>4. attr = (IF q.mac # q.entry.name THEN q.mac ELSE None)
    BY <2>2 DEF CharMapOf
  <2>5. attr \in MacName \cup {None}
    BY <1>2, <1>8, <2>4 DEF StepInv
  <2>6. /\ charMap' \in [Node -> MacName \cup {None}] /\ spoiled' \subseteq Node
        /\ charMap'[n] = attr /\ \A m \in Node \ {n} : charMap'[m] = charMap[m]
    BY <1>9, <2>3, <2>5
  <2>7. place[n] # None
    BY <1>11 DEF Live
  <2>8. fits => place[n] = q.entry
    BY <1>2, <1>7, <2>1 DEF FoundInv
  <2>9. ASSUME NEW m \in Node, m \notin spoiled', place[m] # None
        PROVE  ToDisk(IF charMap'[m] # None THEN charMap'[m] ELSE place[m].name) = place[m].name
    <3>1. CASE m = n
      <4>1. fits /\ place[m] = q.entry
        BY <2>3, <2>8, <2>9, <3>1
      <4>2. charMap'[m] = IF q.mac # q.entry.name THEN q.mac ELSE None
        BY <2>4, <2>6, <3>1
      <4>3. ToDisk(q.mac) = q.entry.name /\ ToDisk(q.entry.name) = q.entry.name
        BY <1>8, <2>1, <4>1, NameFacts
      <4> QED
        BY <1>8, <4>1, <4>2, <4>3
    <3>2. CASE m # n
      <4>1. m \notin spoiled /\ charMap'[m] = charMap[m]
        BY <2>3, <2>6, <2>9, <3>2
      <4> QED
        BY <2>9, <4>1 DEF IInv, NameInv, ShownNamesAreFound, Shown
    <3> QED
      BY <3>1, <3>2
  <2>10. \A m \in Node : place[m] = None => charMap'[m] = None
    BY <2>6, <2>7 DEF IInv, NameInv
  <2>11. NameInv'
    BY <1>3, <2>9, <2>10 DEF NameInv, ShownNamesAreFound, Shown
  <2> QED
    BY <1>3, <1>5, <1>6, <2>6, <2>11, TaskStep
<1> QED
  BY <1>10, <1>11

-----------------------------------------------------------------------------
(* The steps that change the tree, the attributes of an object or its lock. *)
LEMMA FailsStep ==
    ASSUME IInv, NEW s \in Session, Fails(s), UNCHANGED calls PROVE IInv'
BY EndsStep DEF Fails

LEMMA RemoveEntryStep ==
    ASSUME IInv, NEW s \in Session, RemoveEntry(s) PROVE IInv'
<1>1. PICK q \in Task : q = task[s]
  BY CommandFacts
<1>2. q.entry \in Entry /\ UNCHANGED calls
  BY <1>1, CommandFacts DEF RemoveEntry, Does, StepInv
<1>3. PICK n : n = At(q.entry)
  OBVIOUS
<1>4. CASE n = None \/ In(n) # {}
  <2>1. Fails(s)
    BY <1>1, <1>3, <1>4 DEF RemoveEntry
  <2> QED
    BY <1>2, <2>1, FailsStep
<1>5. CASE ~(n = None \/ In(n) # {})
  <2>1. /\ place' = [place EXCEPT ![n] = None]
        /\ charMap' = [charMap EXCEPT ![n] = None]
        /\ locked' = locked \ {n} /\ spoiled' = spoiled \ {n} /\ Changed(s, Idle)
    BY <1>1, <1>3, <1>5 DEF RemoveEntry
  <2>2. n \in Node \ {Root} /\ In(n) = {}
    BY <1>2, <1>3, <1>5, AtFacts DEF IInv
  <2>3. TypeInv /\ TreeInv /\ NameInv
    BY DEF IInv
  <2>4. TreeInv'
    BY <2>1, <2>2, <2>3, RemoveKeepsTree
  <2>5. /\ place' \in [Node -> Entry \cup {None}]
        /\ charMap' \in [Node -> MacName \cup {None}]
        /\ locked' \subseteq Node /\ spoiled' \subseteq Node
        /\ place'[n] = None /\ charMap'[n] = None
        /\ \A m \in Node \ {n} : place'[m] = place[m] /\ charMap'[m] = charMap[m]
    BY <2>1, <2>2, <2>3 DEF TypeInv
  <2>6. \A m \in Node \ {n} : m \notin spoiled' => m \notin spoiled
    BY <2>1
  <2>7. NameInv'
    BY <2>3, <2>5, <2>6 DEF NameInv, ShownNamesAreFound, Shown
  <2>8. PICK t : t = Idle
    OBVIOUS
  <2>9. t \in Task /\ StepInv(t) /\ Changed(s, t)
    BY <2>1, <2>8, IdleFacts
  <2>10. FoundInv(t)'
    BY <2>8, IdleFacts DEF FoundInv
  <2> QED
    BY <1>2, <2>4, <2>5, <2>7, <2>9, <2>10, ChangeStep
<1> QED
  BY <1>4, <1>5

(* BEntry::Rename and BEntry::MoveTo, when they succeed.                   *)
LEMMA RelocateStep ==
    ASSUME IInv, NEW s \in Session, NEW q \in Task, q = task[s],
           q.at \in {"rename", "move"}, q.op # "copy",
           NEW n \in Node \ {Root}, place[n] = q.entry,
           NEW e \in Entry, ~Exists(e), Live(e.dir), ~Within(e.dir, n),
           NEW at \in {"idle", "rename", "open"}, at # "idle" => q.mac # None,
           Relocate(s, n, e, at), UNCHANGED calls
    PROVE  IInv'
<1>1. TypeInv /\ TreeInv /\ NameInv /\ StepInv(q) /\ FoundInv(q)
  BY DEF IInv
<1>2. /\ place' = [place EXCEPT ![n] = e]
      /\ spoiled' = IF place[n].name # e.name THEN spoiled \cup {n} ELSE spoiled
      /\ UNCHANGED <<charMap, locked>>
  BY DEF Relocate
<1>3. TreeInv'
  BY <1>1, <1>2, PutKeepsTree
<1>4. /\ place' \in [Node -> Entry \cup {None}]
      /\ charMap' \in [Node -> MacName \cup {None}]
      /\ locked' \subseteq Node /\ spoiled' \subseteq Node
      /\ place'[n] = e /\ \A m \in Node \ {n} : place'[m] = place[m]
      /\ charMap' = charMap
  BY <1>1, <1>2 DEF TypeInv
<1>5. e # None /\ q.entry \in Entry /\ q.entry # None /\ q.node \in Node
  BY <1>1, NameFacts DEF StepInv
<1>6. NameInv'
  <2>1. \A m \in Node : m \notin spoiled' => m \notin spoiled
    BY <1>2
  <2>2. \A m \in Node : place'[m] = None => charMap'[m] = None
    BY <1>1, <1>4, <1>5 DEF NameInv
  <2>3. ASSUME n \notin spoiled' PROVE place[n].name = e.name /\ place[n] # None
    BY <1>2, <1>5, <2>3
  <2>4. ASSUME NEW m \in Node, m \notin spoiled', place'[m] # None
        PROVE  ToDisk(IF charMap'[m] # None THEN charMap'[m] ELSE place'[m].name) = place'[m].name
    <3>1. place[m] # None /\ place'[m].name = place[m].name
      BY <1>4, <2>3, <2>4
    <3>2. ToDisk(IF charMap[m] # None THEN charMap[m] ELSE place[m].name) = place[m].name
      BY <1>1, <2>1, <2>4, <3>1 DEF NameInv, ShownNamesAreFound, Shown
    <3> QED
      BY <1>4, <3>1, <3>2
  <2> QED
    BY <2>2, <2>4 DEF NameInv, ShownNamesAreFound, Shown
<1>7. CASE at = "idle"
  <2>1. PICK t : t = Idle
    OBVIOUS
  <2>2. t \in Task /\ StepInv(t) /\ Changed(s, t)
    BY <1>7, <2>1, IdleFacts DEF Relocate
  <2>3. FoundInv(t)'
    BY <2>1, IdleFacts DEF FoundInv
  <2> QED
    BY <1>3, <1>4, <1>6, <2>2, <2>3, ChangeStep
<1>8. CASE at # "idle"
  <2>1. PICK t : t = [q EXCEPT !.entry = e, !.at = at]
    OBVIOUS
  <2>2. Changed(s, t)
    BY <1>8, <2>1 DEF Relocate
  <2>3. /\ t \in Task /\ t.at = at /\ t.op = q.op /\ t.node = q.node
        /\ t.entry = e /\ t.mac = q.mac /\ t.source = q.source
        /\ t.raced = q.raced
    BY <2>1 DEF Task, Ats
  <2>4. StepInv(t)
    BY <1>1, <1>5, <1>8, <2>3 DEF StepInv
  <2>5. ~q.raced => q.node = n /\ n \notin locked
    <3>1. ~q.raced => place[q.node] = q.entry /\ q.node \notin locked
      BY <1>1 DEF FoundInv
    <3> QED
      BY <1>1, <1>5, <3>1 DEF TreeInv
  <2>6. FoundInv(t)'
    BY <1>2, <1>4, <1>8, <2>3, <2>5 DEF FoundInv
  <2> QED
    BY <1>3, <1>4, <1>6, <2>2, <2>3, <2>4, <2>6, ChangeStep
<1> QED
  BY <1>7, <1>8

(* What a rename comes to where the new name is not taken.                 *)
LEMMA RenamesStep ==
    ASSUME IInv, NEW s \in Session, NEW op \in {"rename", "move"}, NEW taken \in BOOLEAN,
           Renames(s, op, taken), taken => IInv'
    PROVE  IInv'
<1>1. PICK q \in Task : q = task[s]
  BY CommandFacts
<1>2. /\ StepInv(q) /\ FoundInv(q) /\ q.at = "rename" /\ q.op = op /\ UNCHANGED calls
      /\ q.entry \in Entry /\ q.mac # None /\ q.mac \in MacName \cup {Mapped}
  BY <1>1, CommandFacts DEF Renames, Does, StepInv, Task
<1>3. PICK e \in Entry : e = [q.entry EXCEPT !.name = ToDisk(q.mac)]
  BY <1>2, NameFacts
<1>4. e.dir = q.entry.dir
  BY <1>2, <1>3 DEF Entry
<1>5. PICK n : n = At(q.entry)
  OBVIOUS
<1>6. \/ taken
      \/ Fails(s)
      \/ ~Exists(e) /\ n # None /\ Live(e.dir) /\ Relocate(s, n, e, "open")
  BY <1>1, <1>3, <1>5 DEF Renames
<1>7. CASE Fails(s)
  BY <1>2, <1>7, FailsStep
<1>8. CASE ~Exists(e) /\ n # None /\ Live(e.dir) /\ Relocate(s, n, e, "open")
  <2>1. n \in Node \ {Root} /\ place[n] = q.entry /\ place[n] # None
    BY <1>2, <1>5, <1>8, AtFacts, NameFacts DEF IInv
  <2>2. ~Within(e.dir, n)
    BY <1>4, <2>1 DEF IInv, TreeInv
  <2>3. PICK at \in {"idle", "rename", "open"} : at = "open"
    OBVIOUS
  <2>4. q.op # "copy" /\ q.at \in {"rename", "move"} /\ Relocate(s, n, e, at)
    BY <1>2, <1>8, <2>3
  <2> QED
    BY <1>1, <1>2, <1>8, <2>1, <2>2, <2>4, RelocateStep
<1> QED
  BY <1>6, <1>7, <1>8

LEMMA RenameStep ==
    ASSUME IInv, NEW s \in Session, Rename(s) PROVE IInv'
<1>1. PICK q \in Task : q = task[s]
  BY CommandFacts
<1>2. UNCHANGED calls
  BY DEF Rename, Renames
<1>3. Fails(s) => IInv'
  BY <1>2, FailsStep
<1>4. PICK taken \in BOOLEAN : taken <=> Fails(s)
  OBVIOUS
<1>5. PICK op \in {"rename", "move"} : op = "rename"
  OBVIOUS
<1>6. Renames(s, op, taken)
  BY <1>4, <1>5 DEF Rename, Renames
<1> QED
  BY <1>3, <1>4, <1>6, RenamesStep

LEMMA MoveRenamesStep ==
    ASSUME IInv, NEW s \in Session, MoveRenames(s) PROVE IInv'
<1> DEFINE Goes == /\ task' = [task EXCEPT ![s].at = "open"]
                   /\ UNCHANGED <<place, charMap, locked, listing, spoiled>>
<1>1. PICK q \in Task : q = task[s]
  BY CommandFacts
<1>2. /\ StepInv(q) /\ FoundInv(q) /\ q.at = "rename" /\ q.op = "move"
      /\ UNCHANGED calls
  BY <1>1, CommandFacts DEF MoveRenames, Renames, Does
<1>3. ASSUME Goes PROVE IInv'
  <2>1. PICK t : t = [q EXCEPT !.at = "open"]
    OBVIOUS
  <2>2. task' = [task EXCEPT ![s] = t]
    BY <1>1, <1>3, <2>1
  <2>3. /\ t \in Task /\ t.at = "open" /\ t.op = q.op /\ t.node = q.node
        /\ t.entry = q.entry /\ t.mac = q.mac /\ t.source = q.source
    BY <2>1 DEF Task, Ats
  <2>4. StepInv(t) /\ FoundInv(t)
    BY <1>2, <2>3 DEF StepInv, FoundInv
  <2>5. calls' \in 0..MaxCalls
    BY <1>2, CommandFacts
  <2> QED
    BY <1>3, <2>2, <2>3, <2>4, <2>5, PlainStep
<1>4. PICK taken \in BOOLEAN : taken <=> Goes
  OBVIOUS
<1>5. PICK op \in {"rename", "move"} : op = "move"
  OBVIOUS
<1>6. Renames(s, op, taken)
  BY <1>4, <1>5 DEF MoveRenames, Renames
<1> HIDE DEF Goes
<1> QED
  BY <1>3, <1>4, <1>6, RenamesStep

LEMMA MoveToStep ==
    ASSUME IInv, NEW s \in Session, MoveTo(s) PROVE IInv'
<1>1. PICK q \in Task : q = task[s]
  BY CommandFacts
<1>2. /\ StepInv(q) /\ FoundInv(q) /\ q.at = "move" /\ UNCHANGED calls
      /\ q.entry \in Entry /\ q.open \in Folder /\ q.op = "move"
  BY <1>1, CommandFacts DEF MoveTo, Does, StepInv
<1>3. PICK e \in Entry : e = [q.entry EXCEPT !.dir = q.open]
  BY <1>2, NameFacts
<1>4. e.dir = q.open
  BY <1>2, <1>3 DEF Entry
<1>5. PICK n : n = At(q.entry)
  OBVIOUS
<1>6. PICK at \in {"idle", "rename", "open"} : at = IF q.mac = None THEN "idle" ELSE "rename"
  OBVIOUS
<1>7. IF Exists(e) \/ n = None \/ ~Live(q.open) \/ Within(q.open, n)
      THEN Fails(s)
      ELSE Relocate(s, n, e, at)
  BY <1>1, <1>3, <1>5, <1>6 DEF MoveTo
<1>8. CASE Exists(e) \/ n = None \/ ~Live(q.open) \/ Within(q.open, n)
  BY <1>2, <1>7, <1>8, FailsStep
<1>9. CASE ~(Exists(e) \/ n = None \/ ~Live(q.open) \/ Within(q.open, n))
  <2>1. n \in Node \ {Root} /\ place[n] = q.entry
    BY <1>2, <1>5, <1>9, AtFacts DEF IInv
  <2>2. q.op # "copy" /\ q.at \in {"rename", "move"} /\ (at # "idle" => q.mac # None)
    BY <1>2, <1>6
  <2>3. Relocate(s, n, e, at) /\ ~Exists(e) /\ Live(e.dir) /\ ~Within(e.dir, n)
    BY <1>4, <1>7, <1>9
  <2> QED
    BY <1>1, <1>2, <2>1, <2>2, <2>3, RelocateStep
<1> QED
  BY <1>8, <1>9

(* A new object: the command goes on as after says.                        *)
LEMMA NewObjectStep ==
    ASSUME IInv, NEW s \in Session, NEW Kind \in SUBSET Node, NEW after,
           task[s].entry \in Entry, NewObject(s, Kind, after),
           \A n \in Kind : ~Live(n) => /\ after[n] \in Task /\ StepInv(after[n])
                                       /\ after[n].at \in {"open", "copy"}
    PROVE  IInv'
<1>1. PICK e \in Entry : e = task[s].entry
  OBVIOUS
<1>2. UNCHANGED calls
  BY DEF NewObject
<1>3. TypeInv /\ TreeInv /\ NameInv
  BY DEF IInv
<1>4. CASE Exists(e) \/ ~Live(e.dir) \/ \A n \in Kind : Live(n)
  <2>1. Fails(s)
    BY <1>1, <1>4 DEF NewObject
  <2> QED
    BY <1>2, <2>1, FailsStep
<1>5. CASE ~(Exists(e) \/ ~Live(e.dir) \/ \A n \in Kind : Live(n))
  <2>1. PICK n \in Kind : /\ ~Live(n) /\ place' = [place EXCEPT ![n] = e]
                          /\ Changed(s, after[n])
    BY <1>1, <1>5 DEF NewObject
  <2>2. UNCHANGED <<charMap, locked, spoiled>>
    BY <1>1, <1>5 DEF NewObject
  <2>3. n \in Node \ {Root} /\ place[n] = None
    BY <2>1 DEF Live
  <2>4. e.dir \in Folder /\ ~Exists(e) /\ Live(e.dir)
    BY <1>5, NameFacts
  <2>5. ~Within(e.dir, n)
    BY <1>3, <2>1, <2>3, <2>4, NewIsAboveNothing
  <2>6. TreeInv'
    BY <1>3, <2>1, <2>3, <2>4, <2>5, PutKeepsTree
  <2>7. /\ place' \in [Node -> Entry \cup {None}] /\ place'[n] = e
        /\ charMap' \in [Node -> MacName \cup {None}]
        /\ locked' \subseteq Node /\ spoiled' \subseteq Node
        /\ \A m \in Node \ {n} : place'[m] = place[m]
        /\ charMap' = charMap /\ spoiled' = spoiled
    BY <1>3, <2>1, <2>2, <2>3 DEF TypeInv
  <2>8. NameInv'
    <3>1. e # None /\ charMap[n] = None
      BY <1>3, <2>3, NameFacts DEF NameInv
    <3>2. \A m \in Node : place'[m] = None => charMap'[m] = None
      BY <1>3, <2>7, <3>1 DEF NameInv
    <3>3. ASSUME NEW m \in Node, m \notin spoiled', place'[m] # None
          PROVE  ToDisk(IF charMap'[m] # None THEN charMap'[m] ELSE place'[m].name) = place'[m].name
      <4>1. CASE m = n
        <5>1. e.name \in Name /\ ToDisk(e.name) = e.name
          BY NameFacts
        <5> QED
          BY <2>7, <3>1, <4>1, <5>1
      <4>2. CASE m # n
        BY <1>3, <2>7, <3>3, <4>2 DEF NameInv, ShownNamesAreFound, Shown
      <4> QED
        BY <4>1, <4>2
    <3> QED
      BY <3>2, <3>3 DEF NameInv, ShownNamesAreFound, Shown
  <2>9. PICK t : t = after[n]
    OBVIOUS
  <2>10. t \in Task /\ StepInv(t) /\ t.at \in {"open", "copy"} /\ Changed(s, t)
    BY <2>1, <2>9
  <2>11. FoundInv(t)'
    BY <2>10 DEF FoundInv
  <2> QED
    BY <1>2, <2>6, <2>7, <2>8, <2>10, <2>11, ChangeStep
<1> QED
  BY <1>4, <1>5

LEMMA CreateDirectoryStep ==
    ASSUME IInv, NEW s \in Session, CreateDirectory(s) PROVE IInv'
<1>1. PICK q \in Task : q = task[s]
  BY CommandFacts
<1>2. StepInv(q) /\ q.at = "create" /\ q.op = "folder" /\ q.entry \in Entry
  BY <1>1, CommandFacts DEF CreateDirectory, Does, StepInv
<1>3. PICK t : t = [q EXCEPT !.at = "open"]
  OBVIOUS
<1>4. /\ t \in Task /\ t.at = "open" /\ t.op = q.op /\ t.node = q.node
      /\ t.entry = q.entry /\ t.mac = q.mac /\ t.source = q.source
  BY <1>3 DEF Task, Ats
<1>5. StepInv(t)
  BY <1>2, <1>4 DEF StepInv
<1>6. PICK after : after = [new \in Folder |-> t]
  OBVIOUS
<1>7. NewObject(s, Folder, after)
  BY <1>1, <1>3, <1>6 DEF CreateDirectory
<1>8. \A n \in Folder : after[n] = t
  BY <1>6
<1>9. Folder \in SUBSET Node
  BY DEF Node
<1> QED
  BY <1>1, <1>2, <1>4, <1>5, <1>7, <1>8, <1>9, NewObjectStep

LEMMA CreateFileStep ==
    ASSUME IInv, NEW s \in Session, CreateFile(s) PROVE IInv'
<1>1. PICK q \in Task : q = task[s]
  BY CommandFacts
<1>2. StepInv(q) /\ q.at = "create" /\ q.op \in {"file", "hard"} /\ q.entry \in Entry
  BY <1>1, CommandFacts DEF CreateFile, Does, StepInv
<1>3. PICK t : t = [q EXCEPT !.at = "open"]
  OBVIOUS
<1>4. /\ t \in Task /\ t.at = "open" /\ t.op = q.op /\ t.node = q.node
      /\ t.entry = q.entry /\ t.mac = q.mac /\ t.source = q.source
  BY <1>3 DEF Task, Ats
<1>5. StepInv(t) /\ FoundInv(t)
  BY <1>2, <1>4 DEF StepInv, FoundInv
<1>6. CASE q.op = "hard" /\ At(q.entry) \in File
  <2>1. /\ task' = [task EXCEPT ![s].at = "open"]
        /\ UNCHANGED <<place, charMap, locked, listing, spoiled, calls>>
    BY <1>1, <1>6 DEF CreateFile
  <2>2. task' = [task EXCEPT ![s] = t] /\ calls' \in 0..MaxCalls
    BY <1>1, <1>3, <2>1, CommandFacts
  <2> QED
    BY <1>4, <1>5, <2>1, <2>2, PlainStep
<1>7. CASE ~(q.op = "hard" /\ At(q.entry) \in File)
  <2>1. PICK after : after = [new \in File |-> t]
    OBVIOUS
  <2>2. NewObject(s, File, after)
    BY <1>1, <1>3, <1>7, <2>1 DEF CreateFile
  <2>3. \A n \in File : after[n] = t
    BY <2>1
  <2>4. File \in SUBSET Node
    BY DEF Node
  <2> QED
    BY <1>1, <1>2, <1>4, <1>5, <2>2, <2>3, <2>4, NewObjectStep
<1> QED
  BY <1>6, <1>7

(* The copy takes the name that is shown for its source.                   *)
LEMMA CreateCopyStep ==
    ASSUME IInv, NEW s \in Session, CreateCopy(s) PROVE IInv'
<1>1. PICK q \in Task : q = task[s]
  BY CommandFacts
<1>2. StepInv(q) /\ q.at = "create" /\ q.op = "copy"
  BY <1>1, CommandFacts DEF CreateCopy, Does
<1>3. /\ q.entry \in Entry /\ q.source \in Entry /\ q.mac \in MacName \cup {Mapped, None}
      /\ (q.mac = Mapped => q.entry.name = Mapped)
      /\ (q.mac = None => q.entry.name = q.source.name)
  BY <1>2 DEF StepInv, Task
<1>4. PICK from : from = At(q.source)
  OBVIOUS
<1>5. PICK shown : shown = IF q.mac # None THEN q.mac
                           ELSE IF from = None THEN None ELSE Shown(from)
  OBVIOUS
<1>6. shown \in MacName \cup {Mapped, None} /\ (shown = Mapped => q.entry.name = Mapped)
  <2>1. CASE q.mac # None \/ from = None
    BY <1>3, <1>5, <2>1, NameFacts
  <2>2. CASE q.mac = None /\ from # None
    <3>1. from \in Node /\ place[from] = q.source
      BY <1>3, <1>4, <2>2, AtFacts DEF IInv
    <3>2. shown = IF charMap[from] # None THEN charMap[from] ELSE q.source.name
      BY <1>5, <2>2, <3>1 DEF Shown
    <3>3. charMap[from] \in MacName \cup {None}
      BY <3>1 DEF IInv, TypeInv
    <3>4. q.source.name \in Name /\ q.source.name = q.entry.name
      BY <1>3, <2>2, NameFacts
    <3> QED
      BY <3>2, <3>3, <3>4, NameFacts
  <2> QED
    BY <2>1, <2>2
<1>7. PICK at \in {"copy", "open"} : at = IF shown = None THEN "copy" ELSE "open"
  OBVIOUS
<1>8. PICK after : after = [new \in File |-> [q EXCEPT !.node = new, !.mac = shown, !.at = at]]
  OBVIOUS
<1>9. NewObject(s, File, after)
  BY <1>1, <1>4, <1>5, <1>7, <1>8 DEF CreateCopy
<1>10. ASSUME NEW n \in File
       PROVE  after[n] \in Task /\ StepInv(after[n]) /\ after[n].at \in {"open", "copy"}
  <2>1. PICK t : t = after[n]
    OBVIOUS
  <2>2. t = [q EXCEPT !.node = n, !.mac = shown, !.at = at]
    BY <1>8, <2>1
  <2>3. /\ t \in Task /\ t.at = at /\ t.op = q.op /\ t.node = n
        /\ t.entry = q.entry /\ t.mac = shown /\ t.source = q.source
    BY <1>6, <2>2 DEF Task, Ats, Node
  <2>4. StepInv(t)
    BY <1>2, <1>3, <1>6, <1>7, <2>3 DEF StepInv
  <2> QED
    BY <2>1, <2>3, <2>4
<1>11. File \in SUBSET Node
  BY DEF Node
<1> QED
  BY <1>1, <1>3, <1>9, <1>10, <1>11, NewObjectStep

LEMMA CopyFileStep ==
    ASSUME IInv, NEW s \in Session, CopyFile(s) PROVE IInv'
<1>1. PICK q \in Task : q = task[s]
  BY CommandFacts
<1>2. StepInv(q) /\ q.at = "copy" /\ UNCHANGED calls
  BY <1>1, CommandFacts DEF CopyFile, Does
<1>3. q.source \in Entry /\ q.node \in File
  BY <1>2 DEF StepInv
<1>4. PICK from : from = At(q.source)
  OBVIOUS
<1>5. PICK n \in File : n = q.node
  BY <1>3
<1>6. CASE from = None \/ ~Live(n)
  <2>1. Fails(s)
    BY <1>1, <1>4, <1>5, <1>6 DEF CopyFile
  <2> QED
    BY <1>2, <2>1, FailsStep
<1>7. CASE ~(from = None \/ ~Live(n))
  <2>1. /\ charMap' = IF charMap[from] = None THEN charMap
                      ELSE [charMap EXCEPT ![n] = charMap[from]]
        /\ locked' = IF from \in locked THEN locked \cup {n} ELSE locked
        /\ spoiled' = IF charMap[from] = None THEN spoiled ELSE spoiled \cup {n}
        /\ UNCHANGED place /\ Changed(s, Idle)
    BY <1>1, <1>4, <1>5, <1>7 DEF CopyFile
  <2>2. TypeInv /\ TreeInv /\ NameInv
    BY DEF IInv
  <2>3. from \in Node /\ n \in Node
    BY <1>3, <1>4, <1>7, <2>2, AtFacts DEF Node
  <2>4. place[n] # None
    BY <1>7, NameFacts DEF Live
  <2>5. TreeInv'
    BY <2>1, <2>2 DEF TreeInv, Live, Within, Upward
  <2>6. /\ place' \in [Node -> Entry \cup {None}]
        /\ charMap' \in [Node -> MacName \cup {None}]
        /\ locked' \subseteq Node /\ spoiled' \subseteq Node
        /\ \A m \in Node \ {n} : charMap'[m] = charMap[m]
        /\ spoiled \subseteq spoiled'
        /\ n \notin spoiled' => charMap'[n] = charMap[n]
    BY <2>1, <2>2, <2>3 DEF TypeInv
  <2>7. \A m \in Node : m \notin spoiled' => m \notin spoiled /\ charMap'[m] = charMap[m]
    BY <2>6
  <2>8. NameInv'
    BY <2>1, <2>2, <2>4, <2>6, <2>7 DEF NameInv, ShownNamesAreFound, Shown
  <2>9. PICK t : t = Idle
    OBVIOUS
  <2>10. t \in Task /\ StepInv(t) /\ Changed(s, t)
    BY <2>1, <2>9, IdleFacts
  <2>11. FoundInv(t)'
    BY <2>9, IdleFacts DEF FoundInv
  <2> QED
    BY <1>2, <2>5, <2>6, <2>8, <2>10, <2>11, ChangeStep
<1> QED
  BY <1>6, <1>7

LEMMA SetAttributesStep ==
    ASSUME IInv, NEW s \in Session, SetAttributes(s) PROVE IInv'
<1>1. PICK q \in Task : q = task[s]
  BY CommandFacts
<1>2. q.entry \in Entry /\ UNCHANGED calls
  BY <1>1, CommandFacts DEF SetAttributes, Does, StepInv
<1>3. PICK n : n = At(q.entry)
  OBVIOUS
<1>4. PICK new : new = IF q.inhibits THEN locked \cup {n} ELSE locked \ {n}
  OBVIOUS
<1>5. CASE n = None \/ new = locked
  <2>1. Fails(s)
    BY <1>1, <1>3, <1>4, <1>5 DEF SetAttributes
  <2> QED
    BY <1>2, <2>1, FailsStep
<1>6. CASE ~(n = None \/ new = locked)
  <2>1. locked' = new /\ UNCHANGED <<place, charMap, spoiled>> /\ Changed(s, Idle)
    BY <1>1, <1>3, <1>4, <1>6 DEF SetAttributes
  <2>2. TypeInv /\ TreeInv /\ NameInv
    BY DEF IInv
  <2>3. n \in Node
    BY <1>2, <1>3, <1>6, <2>2, AtFacts
  <2>4. TreeInv' /\ NameInv'
    BY <2>1, <2>2, NamesStay DEF TreeInv, Live, Within, Upward
  <2>5. /\ place' \in [Node -> Entry \cup {None}]
        /\ charMap' \in [Node -> MacName \cup {None}]
        /\ locked' \subseteq Node /\ spoiled' \subseteq Node
    BY <1>4, <2>1, <2>2, <2>3 DEF TypeInv
  <2>6. PICK t : t = Idle
    OBVIOUS
  <2>7. t \in Task /\ StepInv(t) /\ Changed(s, t)
    BY <2>1, <2>6, IdleFacts
  <2>8. FoundInv(t)'
    BY <2>6, IdleFacts DEF FoundInv
  <2> QED
    BY <1>2, <2>4, <2>5, <2>7, <2>8, ChangeStep
<1> QED
  BY <1>5, <1>6

-----------------------------------------------------------------------------
(* The steps of a listing.                                                 *)
LEMMA ListBeginsStep ==
    ASSUME IInv, NEW s \in Session, ListBegins(s) PROVE IInv'
<1>1. PICK d \in Folder : listing' = [listing EXCEPT ![s] =
         [dir |-> d, index |-> 1, seen |-> {}, twice |-> FALSE,
          there |-> In(d), shrunk |-> FALSE, grown |-> FALSE]]
  BY DEF ListBegins
<1>2. PICK L : L = [dir |-> d, index |-> 1, seen |-> {}, twice |-> FALSE,
                    there |-> In(d), shrunk |-> FALSE, grown |-> FALSE]
  OBVIOUS
<1>3. In(d) \in SUBSET Node
  BY DEF In
<1>4. /\ L.dir = d /\ L.index = 1 /\ L.seen = {} /\ L.twice = FALSE
      /\ L.there = In(d)
  BY <1>2
<1>5. L \in Listing
  BY <1>2, <1>3 DEF Listing
<1>6. \A n \in In(d) : Pos(d, n) \in 1..Cardinality(In(d))
  BY PosFacts DEF IInv
<1>7. Cardinality(In(d)) \in Nat
  BY PosFacts DEF IInv
<1>8. \A n \in In(d) : ~(Pos(d, n) < 1)
  BY <1>6, <1>7
<1>9. ListInv(L)
  BY <1>4, <1>8 DEF ListInv
<1>10. calls' \in 0..MaxCalls
  BY BoundAssumption DEF ListBegins, Ready, IInv, TypeInv
<1>11. UNCHANGED <<place, charMap, locked, task, spoiled>>
  BY DEF ListBegins
<1>12. listing' = [listing EXCEPT ![s] = L]
  BY <1>1, <1>2
<1> QED
  BY <1>5, <1>9, <1>10, <1>11, <1>12, ListingStep

LEMMA ListEndsStep ==
    ASSUME IInv, NEW s \in Session, ListEnds(s) PROVE IInv'
<1>1. PICK L \in Listing \cup {None} : L = None
  OBVIOUS
<1>2. listing' = [listing EXCEPT ![s] = L]
  BY <1>1 DEF ListEnds
<1>3. UNCHANGED <<place, charMap, locked, task, spoiled>> /\ calls' \in 0..MaxCalls
  BY CommandFacts DEF ListEnds
<1> QED
  BY <1>1, <1>2, <1>3, ListingStep

(* The reply has what is in the places from the index on.                  *)
LEMMA FPEnumerateStep ==
    ASSUME IInv, NEW s \in Session, FPEnumerate(s) PROVE IInv'
<1>1. PICK L \in Listing : L = listing[s] /\ L # None
  BY DEF FPEnumerate, IInv, TypeInv
<1>2. ListInv(L)
  BY <1>1 DEF IInv
<1>3. /\ L.dir \in Folder /\ L.index \in Nat \ {0} /\ L.seen \in SUBSET Node
      /\ L.twice \in BOOLEAN /\ L.there \in SUBSET Node /\ L.shrunk \in BOOLEAN
      /\ L.grown \in BOOLEAN
  BY DEF Listing
<1>4. PICK d \in Folder, index \in Nat \ {0} : d = L.dir /\ index = L.index
  BY <1>3
<1>5. PICK reply : reply = Reply(d, index)
  OBVIOUS
<1>6. PICK got : got = ToSet(reply)
  OBVIOUS
<1>7. PICK k : k = Len(reply)
  OBVIOUS
<1>8. listing' = [listing EXCEPT ![s] =
         [L EXCEPT !.index = @ + k, !.seen = @ \cup got, !.twice = @ \/ got \cap L.seen # {}]]
  BY <1>1, <1>4, <1>5, <1>6, <1>7 DEF FPEnumerate
<1>9. /\ UNCHANGED <<place, charMap, locked, task, spoiled>> /\ calls' \in 0..MaxCalls
  BY CommandFacts DEF FPEnumerate
<1>10. /\ k \in Nat /\ got \subseteq In(d)
       /\ \A n \in In(d) : n \in got <=> Pos(d, n) >= index /\ Pos(d, n) < index + k
  BY <1>5, <1>6, <1>7, ReplyFacts DEF IInv
<1>11. PICK tw \in BOOLEAN : tw = (L.twice \/ got \cap L.seen # {})
  OBVIOUS
<1>12. PICK M : M = [L EXCEPT !.index = index + k, !.seen = L.seen \cup got, !.twice = tw]
  OBVIOUS
<1>13. listing' = [listing EXCEPT ![s] = M]
  BY <1>4, <1>8, <1>11, <1>12 DEF Listing
<1>14. got \in SUBSET Node /\ index + k \in Nat \ {0}
  BY <1>10 DEF In
<1>15. M \in Listing
  BY <1>3, <1>12, <1>14 DEF Listing
<1>16. /\ M.dir = d /\ M.index = index + k /\ M.seen = L.seen \cup got /\ M.twice = tw
       /\ M.there = L.there /\ M.shrunk = L.shrunk /\ M.grown = L.grown
  BY <1>4, <1>12 DEF Listing
<1>17. \A n \in In(d) : Pos(d, n) \in Nat
  <2>1. /\ Cardinality(In(d)) \in Nat
        /\ \A n \in In(d) : Pos(d, n) \in 1..Cardinality(In(d))
    BY PosFacts DEF IInv
  <2> QED
    BY <2>1
<1>18. ASSUME ~M.shrunk
       PROVE  /\ M.there \subseteq In(d)
              /\ \A n \in M.there : Pos(d, n) < M.index => n \in M.seen
  <2>1. L.there \subseteq In(d) /\ \A n \in L.there : Pos(d, n) < index => n \in L.seen
    BY <1>2, <1>4, <1>16, <1>18 DEF ListInv
  <2>2. ASSUME NEW n \in L.there, Pos(d, n) < index + k PROVE n \in L.seen \cup got
    <3>1. Pos(d, n) \in Nat /\ n \in In(d)
      BY <1>17, <2>1
    <3>2. CASE Pos(d, n) < index
      BY <2>1, <3>2
    <3>3. CASE ~(Pos(d, n) < index)
      BY <1>10, <2>2, <3>1, <3>3
    <3> QED
      BY <3>2, <3>3
  <2> QED
    BY <1>16, <2>1, <2>2
<1>19. ASSUME ~M.grown
       PROVE  ~M.twice /\ \A n \in M.seen \cap In(d) : Pos(d, n) < M.index
  <2>1. ~L.twice /\ \A n \in L.seen \cap In(d) : Pos(d, n) < index
    BY <1>2, <1>4, <1>16, <1>19 DEF ListInv
  <2>2. got \cap L.seen = {}
    <3> SUFFICES ASSUME NEW n \in got \cap L.seen PROVE FALSE
      OBVIOUS
    <3>1. n \in In(d) /\ Pos(d, n) \in Nat /\ Pos(d, n) < index /\ Pos(d, n) >= index
      BY <1>10, <1>17, <2>1
    <3> QED
      BY <3>1
  <2>3. ~tw
    BY <1>11, <2>1, <2>2
  <2>4. ASSUME NEW n \in In(d), n \in L.seen \cup got PROVE Pos(d, n) < index + k
    <3>1. Pos(d, n) \in Nat
      BY <1>17
    <3>2. CASE n \in got
      BY <1>10, <3>2
    <3>3. CASE n \in L.seen
      BY <1>10, <2>1, <3>1, <3>3
    <3> QED
      BY <2>4, <3>2, <3>3
  <2> QED
    BY <1>16, <2>3, <2>4
<1>20. ListInv(M)
  BY <1>16, <1>18, <1>19 DEF ListInv
<1> QED
  BY <1>9, <1>13, <1>15, <1>20, ListingStep

-----------------------------------------------------------------------------
(* The volume there is at first.                                           *)
LEMMA InitHolds == Init => IInv
<1> SUFFICES ASSUME Init PROVE IInv
  OBVIOUS
<1>1. PICK d \in Folder \ {Root}, f \in File, m \in Name \ {Mapped}, n \in Name \ {Mapped} :
         /\ m < n
         /\ place = [x \in Node |->
               CASE x = d -> [dir |-> Root, name |-> m]
                 [] x = f -> [dir |-> Root, name |-> n]
                 [] OTHER -> None]
         /\ locked \in {{}, {f}}
  BY DEF Init
<1>2. PICK e \in Entry, g \in Entry : /\ e = [dir |-> Root, name |-> m]
                                      /\ g = [dir |-> Root, name |-> n]
  BY NodeAssumption DEF Entry
<1>3. /\ e # g /\ e # None /\ g # None /\ e.dir = Root /\ g.dir = Root
      /\ e.name = m /\ g.name = n
  <2>1. e.name = m /\ g.name = n /\ e.dir = Root /\ g.dir = Root
    BY <1>2
  <2>2. m \in Nat /\ n \in Nat /\ m # n
    BY <1>1, NameFacts
  <2> QED
    BY <2>1, <2>2, NameFacts
<1>4. d \in Node /\ f \in Node /\ d # f /\ d # Root /\ f # Root /\ Root \in Node
  BY NodeAssumption DEF Node
<1>5. /\ place[d] = e /\ place[f] = g
      /\ \A x \in Node \ {d, f} : place[x] = None
      /\ place \in [Node -> Entry \cup {None}]
  BY <1>1, <1>2, <1>4
<1>6. charMap = [x \in Node |-> None] /\ spoiled = {} /\ calls = 0
      /\ task = [s \in Session |-> Idle] /\ listing = [s \in Session |-> None]
  BY DEF Init
<1>7. TypeInv
  BY <1>1, <1>4, <1>5, <1>6, IdleFacts, BoundAssumption DEF TypeInv
<1>8. TreeInv
  <2>1. \A x \in Node : place[x] # None => x \in {d, f} /\ place[x].dir = Root
    BY <1>3, <1>5
  <2>2. Upward({Root}) /\ {Root} \in SUBSET Folder
    BY <1>4, <1>5, NodeAssumption DEF Upward
  <2>3. Live(Root) /\ \A x \in {d, f} : ~Within(Root, x)
    BY <1>4, <2>2 DEF Live, Within
  <2>4. place[Root] = None /\ \A x, y \in Node : place[x] = place[y] /\ place[x] # None => x = y
    BY <1>3, <1>4, <1>5
  <2> QED
    BY <2>1, <2>3, <2>4 DEF TreeInv, Live, Within
<1>9. NameInv
  <2>1. ToDisk(m) = m /\ ToDisk(n) = n
    BY NameFacts
  <2>2. \A x \in Node : place[x] # None => ToDisk(place[x].name) = place[x].name
    BY <1>3, <1>5, <2>1
  <2> QED
    BY <1>6, <2>2 DEF NameInv, ShownNamesAreFound, Shown
<1>10. \A s \in Session : StepInv(task[s]) /\ FoundInv(task[s])
  BY <1>6, IdleFacts
<1> QED
  BY <1>6, <1>7, <1>8, <1>9, <1>10 DEF IInv

(* Every step keeps the invariant.                                         *)
LEMMA NextHolds == IInv /\ [Next]_vars => IInv'
<1> SUFFICES ASSUME IInv, [Next]_vars PROVE IInv'
  OBVIOUS
<1>1. CASE UNCHANGED vars
  BY <1>1 DEF vars, IInv, TypeInv, TreeInv, NameInv, ShownNamesAreFound, Shown, Live,
              Within, Upward, FoundInv, StepInv, ListInv, Pos, UpTo, In
<1>2. CASE ClientsRest
  BY <1>1, <1>2 DEF ClientsRest
<1>3. ASSUME NEW s \in Session,
             \/ FPDelete(s) \/ CheckDelete(s) \/ RemoveEntry(s)
             \/ FPRename(s) \/ CheckRename(s) \/ Rename(s)
             \/ FPMoveAndRename(s) \/ CheckMove(s) \/ MoveTarget(s) \/ MoveTo(s)
             \/ MoveRenames(s)
      PROVE  IInv'
  <2>1. CASE FPDelete(s)
    BY <2>1, FPDeleteStep
  <2>2. CASE CheckDelete(s)
    <3>1. PICK op \in {"delete", "rename", "move"}, next \in {"remove", "rename", "target"} :
             op = "delete" /\ next = "remove"
      OBVIOUS
    <3> QED
      BY <2>2, <3>1, CheckedStep DEF CheckDelete
  <2>3. CASE RemoveEntry(s)
    BY <2>3, RemoveEntryStep
  <2>4. CASE FPRename(s)
    BY <2>4, FPRenameStep
  <2>5. CASE CheckRename(s)
    <3>1. PICK op \in {"delete", "rename", "move"}, next \in {"remove", "rename", "target"} :
             op = "rename" /\ next = "rename"
      OBVIOUS
    <3> QED
      BY <2>5, <3>1, CheckedStep DEF CheckRename
  <2>6. CASE Rename(s)
    BY <2>6, RenameStep
  <2>7. CASE FPMoveAndRename(s)
    BY <2>7, FPMoveAndRenameStep
  <2>8. CASE CheckMove(s)
    <3>1. PICK op \in {"delete", "rename", "move"}, next \in {"remove", "rename", "target"} :
             op = "move" /\ next = "target"
      OBVIOUS
    <3> QED
      BY <2>8, <3>1, CheckedStep DEF CheckMove
  <2>9. CASE MoveTarget(s)
    BY <2>9, MoveTargetStep
  <2>10. CASE MoveTo(s)
    BY <2>10, MoveToStep
  <2>11. CASE MoveRenames(s)
    BY <2>11, MoveRenamesStep
  <2> QED
    BY <1>3, <2>1, <2>2, <2>3, <2>4, <2>5, <2>6, <2>7, <2>8, <2>9, <2>10, <2>11
<1>4. ASSUME NEW s \in Session,
             \/ FPCreateDir(s) \/ CreateDirectory(s) \/ FPCreateFile(s) \/ CreateFile(s)
             \/ FPCopyFile(s) \/ CreateCopy(s) \/ CopyFile(s)
      PROVE  IInv'
  <2>1. CASE FPCreateDir(s)
    BY <2>1, CreatesStep DEF FPCreateDir
  <2>2. CASE CreateDirectory(s)
    BY <2>2, CreateDirectoryStep
  <2>3. CASE FPCreateFile(s)
    BY <2>3, CreatesStep DEF FPCreateFile
  <2>4. CASE CreateFile(s)
    BY <2>4, CreateFileStep
  <2>5. CASE FPCopyFile(s)
    BY <2>5, FPCopyFileStep
  <2>6. CASE CreateCopy(s)
    BY <2>6, CreateCopyStep
  <2>7. CASE CopyFile(s)
    BY <2>7, CopyFileStep
  <2> QED
    BY <1>4, <2>1, <2>2, <2>3, <2>4, <2>5, <2>6, <2>7
<1>5. ASSUME NEW s \in Session,
             \/ OpenToName(s) \/ SetAFPName(s)
             \/ FPSetFileDirParms(s) \/ GetAttributes(s) \/ SetAttributes(s)
             \/ ListBegins(s) \/ FPEnumerate(s) \/ ListEnds(s)
      PROVE  IInv'
  BY <1>5, OpenToNameStep, SetAFPNameStep, FPSetFileDirParmsStep, GetAttributesStep,
     SetAttributesStep, ListBeginsStep, FPEnumerateStep, ListEndsStep
<1> QED
  BY <1>1, <1>2, <1>3, <1>4, <1>5 DEF Next

-----------------------------------------------------------------------------
(* The theorems *)

(* The invariants hold in every state.                                     *)
THEOREM Invariance == Spec => []IInv
<1> QED
  BY InitHolds, NextHolds, PTL DEF Spec

(* Every variable has its type; no two objects have one name in a folder,  *)
(* every object is in a folder that is there, and no folder has come to be *)
(* inside itself, whatever two sessions move at once.                      *)
THEOREM TypeCorrect == Spec => []TypeOK
<1>1. IInv => TypeOK
  <2> SUFFICES ASSUME IInv PROVE TypeOK
    OBVIOUS
  <2>1. \A s \in Session : task[s] \in Task /\ listing[s] \in Listing \cup {None}
    BY DEF IInv, TypeInv
  <2>2. \A s \in Session :
           /\ task[s].entry \in Entry \cup {None}
           /\ task[s].node \in Node \cup {None} /\ task[s].open \in Node \cup {None}
           /\ task[s].mac \in MacName \cup {Mapped, None}
    BY <2>1 DEF Task
  <2>3. \A s \in Session : listing[s] # None =>
           listing[s].dir \in Folder /\ listing[s].seen \subseteq Node
    BY <2>1 DEF Listing
  <2>4. \A n \in Node : place[n] # None => Within(place[n].dir, Root)
    <3> SUFFICES ASSUME NEW n \in Node, place[n] # None
                 PROVE  Within(place[n].dir, Root)
      OBVIOUS
    <3>1. PICK d \in Folder : d = place[n].dir
      BY NameFacts DEF IInv, TypeInv
    <3>2. Live(d)
      BY <3>1 DEF IInv, TreeInv
    <3>3. Within(d, Root)
      BY <3>2, UnderRoot DEF IInv
    <3> QED
      BY <3>1, <3>3
  <2> QED
    BY <2>2, <2>3, <2>4 DEF TypeOK, IInv, TypeInv, TreeInv
<1> QED
  BY Invariance, <1>1, PTL

(* A client that names an object as it has been shown it finds it, but for *)
(* the objects a copy, a failed rename or a race has spoiled.              *)
THEOREM NamesFound == Spec => []ShownNamesAreFound
<1>1. IInv => ShownNamesAreFound
  BY DEF IInv, NameInv
<1> QED
  BY Invariance, <1>1, PTL

(* When a session changes the tree, the commands of the others stay where  *)
(* they are.                                                               *)
LEMMA OthersStay ==
    ASSUME IInv, NEW r \in Session, NEW t, Changed(r, t),
           NEW s \in Session, task'[s].at # task[s].at
    PROVE  s = r
<1> SUFFICES ASSUME s # r PROVE FALSE
  OBVIOUS
<1>1. PICK q \in Task : q = task[s]
  BY CommandFacts
<1>2. PICK u : u = task'[s]
  OBVIOUS
<1>3. PICK b \in BOOLEAN : b = (q.raced \/ q.at # "idle")
  OBVIOUS
<1>4. u = [q EXCEPT !.raced = @ \/ q.at # "idle"]
  BY <1>1, <1>2 DEF Changed
<1>5. u = [q EXCEPT !.raced = b]
  BY <1>3, <1>4 DEF Task
<1>6. u.at = q.at
  BY <1>5 DEF Task
<1> QED
  BY <1>1, <1>2, <1>6

(* An object is taken from its place by its removal, or it is put in       *)
(* another one by the session whose command goes on, which has found it by *)
(* its entry.                                                              *)
LEMMA PlaceIsLeft ==
    ASSUME IInv, NEW r \in Session, NEW s \in Session, NEW n \in Node,
           place[n] # None, place'[n] # place[n], task'[s].at # task[s].at,
           \/ RemoveEntry(r) \/ Rename(r) \/ MoveRenames(r) \/ MoveTo(r)
           \/ CreateDirectory(r) \/ CreateFile(r) \/ CreateCopy(r)
    PROVE  s = r /\ n = At(task[r].entry)
<1>1. place \in [Node -> Entry \cup {None}]
  BY DEF IInv, TypeInv
<1>2. CASE RemoveEntry(r)
  <2>1. PICK m : m = At(task[r].entry)
    OBVIOUS
  <2>2. place' = [place EXCEPT ![m] = None] /\ Changed(r, Idle)
    BY <1>2, <2>1 DEF RemoveEntry, Fails
  <2>3. n = m
    BY <1>1, <2>2
  <2> QED
    BY <2>1, <2>2, <2>3, OthersStay
<1>3. ASSUME NEW m, NEW e, NEW at, Relocate(r, m, e, at) PROVE s = r /\ n = m
  <2>1. place' = [place EXCEPT ![m] = e]
    BY <1>3 DEF Relocate
  <2>2. \E t : Changed(r, t)
    BY <1>3 DEF Relocate
  <2> QED
    BY <1>1, <2>1, <2>2, OthersStay
<1>4. CASE Rename(r) \/ MoveRenames(r)
  <2>1. PICK e : e = [task[r].entry EXCEPT !.name = ToDisk(task[r].mac)]
    OBVIOUS
  <2>2. PICK m : m = At(task[r].entry)
    OBVIOUS
  <2>3. Relocate(r, m, e, "open")
    BY <1>4, <2>1, <2>2 DEF Rename, MoveRenames, Renames, Fails
  <2> QED
    BY <1>3, <2>2, <2>3
<1>5. CASE MoveTo(r)
  <2>1. PICK e : e = [task[r].entry EXCEPT !.dir = task[r].open]
    OBVIOUS
  <2>2. PICK m : m = At(task[r].entry)
    OBVIOUS
  <2>3. PICK at : at = IF task[r].mac = None THEN "idle" ELSE "rename"
    OBVIOUS
  <2>4. Relocate(r, m, e, at)
    BY <1>5, <2>1, <2>2, <2>3 DEF MoveTo, Fails
  <2> QED
    BY <1>3, <2>2, <2>4
<1>6. ASSUME NEW Kind, NEW after, NewObject(r, Kind, after) PROVE FALSE
  <2>1. PICK m \in Kind : ~Live(m) /\ place' = [place EXCEPT ![m] = task[r].entry]
    BY <1>6 DEF NewObject, Fails
  <2>2. n = m
    BY <1>1, <2>1
  <2> QED
    BY <2>1, <2>2 DEF Live
<1>7. CASE CreateDirectory(r) \/ CreateFile(r) \/ CreateCopy(r)
  BY <1>6, <1>7 DEF CreateDirectory, CreateFile, CreateCopy
<1> QED
  BY <1>2, <1>4, <1>5, <1>7

(* No other step changes a place.                                          *)
LEMMA OtherStepsKeepPlaces ==
    ASSUME Next
    PROVE  \/ place' = place
           \/ \E r \in Session :
                 \/ RemoveEntry(r) \/ Rename(r) \/ MoveRenames(r) \/ MoveTo(r)
                 \/ CreateDirectory(r) \/ CreateFile(r) \/ CreateCopy(r)
<1> USE DEF Begin, Fails
<1>1. ASSUME NEW s \in Session, NEW t, Begin(s, t) PROVE place' = place
  BY <1>1
<1>2. ASSUME NEW s \in Session,
             FPDelete(s) \/ FPRename(s) \/ FPMoveAndRename(s) \/ FPCreateDir(s)
             \/ FPCreateFile(s) \/ FPCopyFile(s) \/ FPSetFileDirParms(s)
      PROVE  place' = place
  BY <1>1, <1>2 DEF FPDelete, FPRename, FPMoveAndRename, FPCreateDir, FPCreateFile,
                    Creates, FPCopyFile, FPSetFileDirParms
<1>3. ASSUME NEW s \in Session,
             CheckDelete(s) \/ CheckRename(s) \/ CheckMove(s) \/ MoveTarget(s)
             \/ OpenToName(s) \/ SetAFPName(s) \/ GetAttributes(s)
             \/ ListBegins(s) \/ FPEnumerate(s) \/ ListEnds(s)
      PROVE  place' = place
  BY <1>3 DEF CheckDelete, CheckRename, CheckMove, Checked, MoveTarget, OpenToName,
              SetAFPName, GetAttributes, ListBegins, FPEnumerate, ListEnds
<1>4. ASSUME NEW s \in Session, CopyFile(s) \/ SetAttributes(s) PROVE place' = place
  BY <1>4 DEF CopyFile, SetAttributes
<1>5. ClientsRest => place' = place
  BY DEF ClientsRest, vars
<1> QED
  BY <1>2, <1>3, <1>4, <1>5 DEF Next

(* A command whose session nobody has raced removes, renames or moves the  *)
(* node its path led to when it came, and the lock it has checked holds.   *)
THEOREM CallsHitTheirObject == Spec => CallsActOnTheirObject
<1> DEFINE Right ==
      \A s \in Session, n \in Node :
         (place[n] # None /\ place'[n] # place[n] /\ task'[s].at # task[s].at
            /\ task[s].at \in {"remove", "rename", "move"} /\ ~task[s].raced)
         => n = task[s].node /\ n \notin locked
<1>1. ASSUME IInv, [Next]_vars PROVE [Right]_vars
  <2> SUFFICES ASSUME Next, NEW s \in Session, NEW n \in Node,
                      place[n] # None, place'[n] # place[n], task'[s].at # task[s].at,
                      task[s].at \in {"remove", "rename", "move"}, ~task[s].raced
               PROVE  n = task[s].node /\ n \notin locked
    BY <1>1
  <2>1. PICK r \in Session : /\ \/ RemoveEntry(r) \/ Rename(r) \/ MoveRenames(r) \/ MoveTo(r)
                                \/ CreateDirectory(r) \/ CreateFile(r) \/ CreateCopy(r)
    BY OtherStepsKeepPlaces
  <2>2. n = At(task[s].entry)
    BY <1>1, <2>1, PlaceIsLeft
  <2>3. PICK q \in Task : q = task[s]
    BY <1>1, CommandFacts
  <2>4. StepInv(q) /\ FoundInv(q) /\ ~q.raced /\ q.at \in {"remove", "rename", "move"}
    BY <1>1, <2>3, CommandFacts
  <2>5. q.entry \in Entry /\ q.node \in Node /\ place[q.node] = q.entry /\ q.node \notin locked
    BY <2>4 DEF StepInv, FoundInv
  <2>6. At(q.entry) = q.node
    BY <1>1, <2>5, AtFacts DEF IInv
  <2> QED
    BY <2>2, <2>3, <2>5, <2>6
<1>2. IInv /\ [Next]_vars => [Right]_vars
  BY <1>1
<1> QED
  BY Invariance, <1>2, PTL DEF Spec, CallsActOnTheirObject

(* A client that remembers only an index gets all that has been in the     *)
(* folder since it began, unless something left before it was done, and    *)
(* nothing twice, unless something came: an object's place in the list     *)
(* goes down only when one leaves and up only when one comes.              *)
THEOREM ListComplete == Spec => ListingIsComplete
<1> DEFINE Complete == \A s \in Session : ListEnds(s) =>
                          /\ listing[s].shrunk \/ listing[s].there \subseteq listing[s].seen
                          /\ listing[s].grown \/ ~listing[s].twice
<1>1. ASSUME IInv PROVE Complete
  <2> SUFFICES ASSUME NEW s \in Session, ListEnds(s)
               PROVE  /\ listing[s].shrunk \/ listing[s].there \subseteq listing[s].seen
                      /\ listing[s].grown \/ ~listing[s].twice
    OBVIOUS
  <2>1. PICK L \in Listing : L = listing[s] /\ L # None
    BY <1>1 DEF ListEnds, IInv, TypeInv
  <2>2. ListInv(L)
    BY <1>1, <2>1 DEF IInv
  <2>3. PICK d \in Folder, index \in Nat \ {0} : d = L.dir /\ index = L.index
    BY DEF Listing
  <2>4. Reply(d, index) = <<>>
    BY <2>1, <2>3 DEF ListEnds
  <2>5. \A n \in In(d) : Pos(d, n) < index
    BY <1>1, <2>4, ReplyFacts DEF IInv
  <2>6. ~L.shrunk => L.there \subseteq L.seen
    BY <2>2, <2>3, <2>5 DEF ListInv
  <2>7. ~L.grown => ~L.twice
    BY <2>2 DEF ListInv
  <2> QED
    BY <2>1, <2>6, <2>7
<1>2. IInv /\ [Next]_vars => [Complete]_vars
  BY <1>1
<1> QED
  BY Invariance, <1>2, PTL DEF Spec, ListingIsComplete

=============================================================================
