------------------------- MODULE ArchiveCreateProofs -------------------------
(***************************************************************************)
(* The safety properties of ArchiveCreate, proved for every tree, every    *)
(* metadata function and every bound.                                      *)
(***************************************************************************)
EXTENDS ArchiveCreate, SequenceTheorems, FiniteSetTheorems, TLAPS

LEMMA ModAtMost ==
  ASSUME NEW n \in Nat, NEW k \in Nat \ {0}
  PROVE  n % k \in Nat /\ n % k <= n /\ (n < k => n % k = n)
<1>1. n % k \in 0..(k - 1)
  OBVIOUS
<1>2. CASE n < k
  BY <1>2
<1>3. CASE n >= k
  BY <1>1, <1>3
<1> QED
  BY <1>1, <1>2, <1>3

\* What is put into an extra field is a part of the buffer.
LEMMA StoredMetaType ==
  ASSUME NEW b \in Seq(Nat)
  PROVE  StoredMeta(b) \in Seq(Nat)
<1>1. Len(b) % MetaWidth \in Nat /\ Len(b) % MetaWidth <= Len(b)
  BY CreateAssumption, LenProperties, ModAtMost
<1>2. SUFFICES ASSUME NEW i \in 1..(Len(b) % MetaWidth)
               PROVE  b[i] \in Nat
  BY <1>1, SubSeqProperties DEF StoredMeta
<1> QED
  BY <1>1, ElementOfSeq, LenProperties

\* zip_close gives an archive whatever it stores for a file that changed.
LEMMA StoredType ==
  ASSUME TypeOK, NEW atAdd \in BOOLEAN
  PROVE  /\ Stored(atAdd) \in Seq(AnyEntry)
         /\ Len(Stored(atAdd)) = Len(entries)
         /\ \A i \in 1..Len(entries) : Stored(atAdd)[i].node = entries[i].node
<1>1. /\ DOMAIN entries = 1..Len(entries)
      /\ Len(entries) \in Nat
      /\ \A i \in 1..Len(entries) : entries[i] \in AnyEntry
  BY LenProperties, ElementOfSeq DEF TypeOK
<1>2. ASSUME NEW i \in 1..Len(entries)
      PROVE  /\ Stored(atAdd)[i] \in AnyEntry
             /\ Stored(atAdd)[i].node = entries[i].node
  <2>1. PICK n \in Nodes, s \in Nat, m \in Seq(Nat) :
          entries[i] = [node |-> n, size |-> s, meta |-> m]
    BY <1>1 DEF AnyEntry
  <2>2. CASE atAdd \/ n \in Dirs
    BY <1>1, <2>1, <2>2 DEF Stored
  <2>3. CASE ~ (atAdd \/ n \in Dirs)
    <3>1. disk[n] \in Nat
      BY <2>3 DEF TypeOK, Nodes
    <3>2. Stored(atAdd)[i] = [entries[i] EXCEPT !.size = disk[n]]
      BY <1>1, <2>1, <2>3 DEF Stored
    <3>3. Stored(atAdd)[i] = [node |-> n, size |-> disk[n], meta |-> m]
      BY <2>1, <3>2
    <3> QED
      BY <2>1, <3>1, <3>3 DEF AnyEntry
  <2> QED
    BY <2>2, <2>3
<1>3. Stored(atAdd) \in [1..Len(entries) -> AnyEntry]
  BY <1>1, <1>2 DEF Stored
<1> QED
  BY <1>1, <1>2, <1>3, SeqDef, LenProperties DEF Stored

LEMMA EmptyType == <<>> \in Seq(Nat) /\ <<>> \in Seq(AnyEntry)
  BY EmptySeq

LEMMA InitType == Init => TypeOK
<1> SUFFICES ASSUME Init PROVE TypeOK
  OBVIOUS
<1>1. entries \in Seq(AnyEntry) /\ metaData \in Seq(Nat)
  BY EmptyType DEF Init
<1>2. disk \in [Files -> Nat]
  BY CreateAssumption DEF Init
<1> QED
  BY <1>1, <1>2 DEF Init, TypeOK

LEMMA AppendType ==
  ASSUME TypeOK, NEW n \in Nodes, NEW s \in Nat, NEW m \in Seq(Nat)
  PROVE  Append(entries, Entry(n, s, m)) \in Seq(AnyEntry)
  BY AppendProperties DEF TypeOK, AnyEntry, Entry

\* What a new call starts with.
LEMMA BeginType ==
  ASSUME TypeOK, Begin
  PROVE  /\ entries' \in Seq(AnyEntry) /\ metaData' \in Seq(Nat)
         /\ visited' \subseteq Nodes
         /\ disk' \in [Files -> Nat] /\ resizes' \in Nat /\ dirty' \in BOOLEAN
         /\ dropped' \subseteq DroppedKinds
         /\ calls' \in Nat /\ raced' \in BOOLEAN
         /\ archive' \in Seq(AnyEntry) \cup {NoArchive}
<1>1. entries' \in Seq(AnyEntry) /\ metaData' \in Seq(Nat)
  BY EmptyType DEF Begin
<1>2. dirty' \in BOOLEAN /\ raced' \in BOOLEAN
  BY DEF Begin
<1>3. calls' \in Nat /\ resizes' \in Nat
  BY DEF Begin, TypeOK
<1>4. visited' = {} /\ dropped' = {} /\ UNCHANGED <<disk, archive>>
  BY DEF Begin
<1> QED
  BY <1>1, <1>2, <1>3, <1>4 DEF TypeOK

LEMMA NextType == TypeOK /\ [Next]_vars => TypeOK'
<1> SUFFICES ASSUME TypeOK, [Next]_vars PROVE TypeOK'
  OBVIOUS
<1> USE DEF TypeOK
<1>1. CASE OpenFails
  BY <1>1, BeginType DEF OpenFails, Return
<1>2. CASE Open
  BY <1>2, BeginType DEF Open, Return
<1>3. ASSUME NEW n \in Nodes, AddDir(n) PROVE TypeOK'
  <2>1. entries' \in Seq(AnyEntry)
    BY <1>3, AppendType, EmptyType DEF AddDir, Nodes
  <2> QED
    BY <1>3, <2>1 DEF AddDir, Visit, Drop, Keep, DroppedKinds, diskVars
<1>4. ASSUME NEW n \in Nodes, AddFile(n) PROVE TypeOK'
  <2>1. Meta[n] \in Seq(Nat) /\ disk[n] \in Nat
    BY <1>4, CreateAssumption DEF AddFile
  <2>2. entries' \in Seq(AnyEntry)
    BY <1>4, <2>1, AppendType, StoredMetaType, EmptyType DEF AddFile, FilledMeta
  <2>3. csize' \in Nat
    BY <1>4, <2>1 DEF AddFile
  <2>4. metaData' \in Seq(Nat)
    BY <1>4, <2>1 DEF AddFile, FilledMeta
  <2>5. dropped' \subseteq DroppedKinds
    BY <1>4 DEF AddFile, Drop, Keep, DroppedKinds
  <2>6. visited' \subseteq Nodes
    BY <1>4 DEF AddFile, Visit, Nodes
  <2>7. UNCHANGED <<cpc, cres, iters, cur, disk, resizes, dirty, calls, raced, archive>>
    BY <1>4 DEF AddFile, diskVars
  <2> QED
    BY <2>2, <2>3, <2>4, <2>5, <2>6, <2>7
<1>5. ASSUME NEW n \in Nodes, SkipFile(n) PROVE TypeOK'
  BY <1>5 DEF SkipFile, Visit, Drop, DroppedKinds, diskVars
<1>6. CASE Throw
  BY <1>6 DEF Throw, Return, walkVars, diskVars
<1>7. CASE LeaveDir
  BY <1>7, TreeAssumption DEF LeaveDir, diskVars, Nodes
<1>8. CASE Close
  BY <1>8, StoredType DEF Close, Return, Keep, Drop, DroppedKinds, walkVars, diskVars
<1>9. ASSUME NEW f \in Files, Resize(f) PROVE TypeOK'
  BY <1>9, CreateAssumption DEF Resize, walkVars
<1>10. CASE OtherCloses
  BY <1>10, CreateAssumption DEF OtherCloses, walkVars, diskVars
<1>11. CASE UNCHANGED vars
  BY <1>11 DEF vars, createVars, walkVars, diskVars
<1> QED
  BY <1>1, <1>2, <1>3, <1>4, <1>5, <1>6, <1>7, <1>8, <1>9, <1>10, <1>11
  DEF Next, Create, Walk

(***************************************************************************)
(* Every variable of the model of archive_create keeps its type.           *)
(***************************************************************************)
THEOREM TypeCorrect == Spec => []TypeOK
  BY InitType, NextType, PTL DEF Spec

-----------------------------------------------------------------------------
(***************************************************************************)
(* An entry appended to an archive.                                        *)
(***************************************************************************)
LEMMA AppendEntry ==
  ASSUME NEW a \in Seq(AnyEntry), NEW e \in AnyEntry
  PROVE  LET b == Append(a, e)
         IN  /\ Len(a) \in Nat /\ Len(b) = Len(a) + 1
             /\ \A i \in 1..Len(a) : b[i] = a[i]
             /\ b[Len(b)] = e
             /\ EntryNodes(b) = EntryNodes(a) \cup {e.node}
<1> DEFINE b == Append(a, e)
<1>1. /\ Len(a) \in Nat /\ Len(b) = Len(a) + 1
      /\ \A i \in 1..Len(a) : b[i] = a[i]
      /\ b[Len(b)] = e
  BY AppendProperties, LenProperties
<1>2. EntryNodes(b) = EntryNodes(a) \cup {e.node}
  <2> HIDE DEF b
  <2>1. 1..Len(b) = 1..Len(a) \cup {Len(b)}
    BY <1>1
  <2> QED
    BY <1>1, <2>1 DEF EntryNodes
<1> QED
  BY <1>1, <1>2

LEMMA AppendDistinct ==
  ASSUME NEW a \in Seq(AnyEntry), NEW e \in AnyEntry,
         NamesDistinct(a), e.node \notin EntryNodes(a)
  PROVE  NamesDistinct(Append(a, e))
<1> DEFINE b == Append(a, e)
<1>1. /\ Len(a) \in Nat /\ Len(b) = Len(a) + 1
      /\ \A i \in 1..Len(a) : b[i] = a[i] /\ a[i].node # e.node
      /\ b[Len(b)] = e
  BY AppendEntry DEF EntryNodes
<1> HIDE DEF b
<1>2. ASSUME NEW i \in 1..Len(b), NEW j \in 1..Len(b), b[i].node = b[j].node
      PROVE  i = j
  BY <1>1, <1>2 DEF NamesDistinct
<1> QED
  BY <1>2 DEF NamesDistinct, b

LEMMA AppendParentsFirst ==
  ASSUME NEW a \in Seq(AnyEntry), NEW e \in AnyEntry,
         ParentsFirst(a), Parent[e.node] = Root \/ Parent[e.node] \in EntryNodes(a)
  PROVE  ParentsFirst(Append(a, e))
<1> DEFINE b == Append(a, e)
<1>1. /\ Len(a) \in Nat /\ Len(b) = Len(a) + 1
      /\ \A i \in 1..Len(a) : b[i] = a[i]
      /\ b[Len(b)] = e
  BY AppendEntry
<1> HIDE DEF b
<1>2. ASSUME NEW i \in 1..Len(b)
      PROVE  Parent[b[i].node] = Root \/ \E j \in 1..(i - 1) : b[j].node = Parent[b[i].node]
  <2>1. CASE i \in 1..Len(a)
    <3>1. \A j \in 1..(i - 1) : j \in 1..Len(a)
      BY <1>1, <2>1
    <3> QED
      BY <1>1, <2>1, <3>1 DEF ParentsFirst
  <2>2. CASE i = Len(b)
    <3>1. 1..(i - 1) = 1..Len(a)
      BY <1>1, <2>2
    <3> QED
      BY <1>1, <2>2, <3>1 DEF EntryNodes
  <2> QED
    BY <1>1, <2>1, <2>2
<1> QED
  BY <1>2 DEF ParentsFirst, b

LEMMA EntryType ==
  ASSUME NEW n \in Nodes, NEW s \in Nat, NEW m \in Seq(Nat)
  PROVE  Entry(n, s, m) \in AnyEntry /\ Entry(n, s, m).node = n
  BY DEF AnyEntry, Entry

(***************************************************************************)
(* What a step that visits n adds to `entries'.                            *)
(***************************************************************************)
LEMMA VisitEntries ==
  ASSUME TypeOK, NEW n \in Nodes, AddDir(n) \/ AddFile(n) \/ SkipFile(n)
  PROVE  /\ n \notin visited /\ Parent[n] = cur /\ cpc = "walk"
         /\ visited' = visited \cup {n}
         /\ dropped \subseteq dropped'
         /\ \/ \E s \in Nat, m \in Seq(Nat) : entries' = Append(entries, Entry(n, s, m))
            \/ /\ entries' = entries
               /\ dropped' # {}
               /\ n \in Dirs => "dir" \in dropped'
<1>1. /\ n \notin visited /\ Parent[n] = cur /\ cpc = "walk"
      /\ visited' = visited \cup {n}
  BY DEF AddDir, AddFile, SkipFile, Visit, Children
<1>2. CASE AddDir(n)
  BY <1>1, <1>2, EmptyType DEF AddDir, Keep, Drop
<1>3. CASE AddFile(n)
  <2>1. Meta[n] \in Seq(Nat) /\ disk[n] \in Nat /\ n \notin Dirs
    BY <1>3, CreateAssumption, TreeAssumption DEF AddFile, TypeOK
  <2> QED
    BY <1>1, <1>3, <2>1, StoredMetaType, EmptyType DEF AddFile, FilledMeta, Keep, Drop
<1>4. CASE SkipFile(n)
  BY <1>1, <1>4, TreeAssumption DEF SkipFile, Drop
<1> QED
  BY <1>2, <1>3, <1>4

-----------------------------------------------------------------------------
(***************************************************************************)
(* The inductive invariant.  EntriesDistinct and ParentsPrecede need to    *)
(* know that an entry's node was visited and that a visited directory has  *)
(* an entry; TrueArchivesAll needs that nothing is live or unfinished when *)
(* the walk is back at Root.                                               *)
(***************************************************************************)
IInv ==
  /\ TypeOK
  /\ WalkInv
  /\ EntriesDistinct
  /\ ParentsPrecede
  /\ TrueArchivesAll

LEMMA InitIInv == Init => IInv
<1> SUFFICES ASSUME Init PROVE IInv
  OBVIOUS
<1>1. TypeOK
  BY InitType
<1>2. WalkInv /\ TrueArchivesAll
  BY DEF Init, WalkInv, TrueArchivesAll
<1>3. Len(entries) = 0
  BY EmptySeq DEF Init
<1>4. EntriesDistinct /\ ParentsPrecede
  BY <1>3 DEF EntriesDistinct, ParentsPrecede, NamesDistinct, ParentsFirst
<1> QED
  BY <1>1, <1>2, <1>4 DEF IInv

(***************************************************************************)
(* A step that visits a node.                                              *)
(***************************************************************************)
LEMMA VisitPreserves ==
  ASSUME IInv, NEW n \in Nodes, AddDir(n) \/ AddFile(n) \/ SkipFile(n)
  PROVE  (WalkInv /\ EntriesDistinct /\ ParentsPrecede /\ TrueArchivesAll)'
<1> USE DEF IInv
<1>1. /\ n \notin visited /\ Parent[n] = cur /\ cpc = "walk"
      /\ visited' = visited \cup {n}
      /\ dropped \subseteq dropped'
      /\ \/ \E s \in Nat, m \in Seq(Nat) : entries' = Append(entries, Entry(n, s, m))
         \/ /\ entries' = entries
            /\ dropped' # {}
            /\ n \in Dirs => "dir" \in dropped'
  BY VisitEntries
<1>2. Chain /\ LeftIsDone /\ EntriesMatchWalk /\ (~ raced => archive = NoArchive)
  BY <1>1 DEF WalkInv
<1>3. cpc' = "walk" /\ raced' = raced /\ archive' = archive
  BY <1>1 DEF AddDir, AddFile, SkipFile
<1>4. \/ n \in Dirs /\ iters' = iters \cup {n} /\ cur' = n
      \/ n \in Files /\ n \notin Dirs /\ iters' = iters /\ cur' = cur
  BY TreeAssumption DEF AddDir, AddFile, SkipFile
<1>5. entries \in Seq(AnyEntry) /\ n # Root
  BY TreeAssumption DEF TypeOK
<1>6. Chain'
  <2>1. CASE iters' = iters /\ cur' = cur
    BY <1>1, <1>2, <2>1 DEF Chain
  <2>2. CASE iters' = iters \cup {n} /\ cur' = n
    <3>1. n \notin iters
      BY <1>1, <1>2, <1>5 DEF Chain
    <3>2. Root \in iters' /\ cur' \in iters'
      BY <1>2, <2>2 DEF Chain
    <3>3. ASSUME NEW d \in iters' \ {Root}
          PROVE  d \in visited' /\ Parent[d] \in iters' /\ Parent[d] # cur'
      BY <1>1, <1>2, <2>2, <3>1, <3>3 DEF Chain
    <3>4. ASSUME NEW d \in iters' \ {Root}, NEW e \in iters' \ {Root}, Parent[d] = Parent[e]
          PROVE  d = e
      BY <1>1, <1>2, <2>2, <3>4 DEF Chain
    <3> QED
      BY <3>2, <3>3, <3>4 DEF Chain
  <2> QED
    BY <1>4, <2>1, <2>2
<1>7. LeftIsDone'
  BY <1>1, <1>2, <1>4 DEF LeftIsDone
<1>8. CASE \E s \in Nat, m \in Seq(Nat) : entries' = Append(entries, Entry(n, s, m))
  <2>1. PICK s \in Nat, m \in Seq(Nat) : entries' = Append(entries, Entry(n, s, m))
    BY <1>8
  <2> DEFINE e == Entry(n, s, m)
  <2>2. e \in AnyEntry /\ e.node = n
    BY EntryType
  <2>3. EntryNodes(entries') = EntryNodes(entries) \cup {n}
    BY <1>5, <2>1, <2>2, AppendEntry
  <2>4. EntriesMatchWalk'
    BY <1>1, <1>2, <2>3 DEF EntriesMatchWalk
  <2>5. EntriesDistinct'
    <3>1. n \notin EntryNodes(entries)
      BY <1>1, <1>2 DEF EntriesMatchWalk
    <3> QED
      BY <1>5, <2>1, <2>2, <3>1, AppendDistinct DEF EntriesDistinct
  <2>6. ParentsPrecede'
    <3> SUFFICES ASSUME "dir" \notin dropped' PROVE ParentsFirst(entries')
      BY DEF ParentsPrecede
    <3>1. ParentsFirst(entries) /\ visited \cap Dirs \subseteq EntryNodes(entries)
      BY <1>1, <1>2 DEF ParentsPrecede, EntriesMatchWalk
    <3>2. Parent[n] = Root \/ Parent[n] \in EntryNodes(entries)
      BY <1>1, <1>2, <3>1 DEF Chain, TypeOK
    <3> QED
      BY <1>5, <2>1, <2>2, <3>1, <3>2, AppendParentsFirst
  <2> QED
    BY <1>2, <1>3, <1>6, <1>7, <2>4, <2>5, <2>6 DEF WalkInv, TrueArchivesAll
<1>9. CASE entries' = entries /\ dropped' # {} /\ (n \in Dirs => "dir" \in dropped')
  <2>1. EntriesMatchWalk'
    BY <1>1, <1>2, <1>9, <1>4 DEF EntriesMatchWalk, EntryNodes
  <2>2. EntriesDistinct' /\ ParentsPrecede'
    BY <1>1, <1>9 DEF EntriesDistinct, ParentsPrecede, NamesDistinct, ParentsFirst
  <2> QED
    BY <1>2, <1>3, <1>6, <1>7, <2>1, <2>2 DEF WalkInv, TrueArchivesAll
<1> QED
  BY <1>1, <1>8, <1>9

LEMMA TreeInduction ==
  ASSUME NEW S \in SUBSET Nodes,
         \A d \in {Root} \cup (S \cap Dirs) : Children(d) \subseteq S
  PROVE  S = Nodes
  BY Zenon, TreeAssumption

(***************************************************************************)
(* When the walk is back at Root and Root is done, only Root is live and   *)
(* every node was visited.  Both follow from the shape of the tree.        *)
(***************************************************************************)
LEMMA WalkCoversTree ==
  ASSUME TypeOK, Chain, LeftIsDone, cur = Root, Children(Root) \subseteq visited
  PROVE  visited = Nodes
<1>1. iters \subseteq {Root}
  <2> DEFINE S == Nodes \ iters
  <2>1. ASSUME NEW d \in {Root} \cup (S \cap Dirs), NEW c \in Children(d)
        PROVE  c \in S
    <3>1. c \in Nodes /\ Parent[c] = d /\ c # Root
      BY <2>1, TreeAssumption DEF Children
    <3>2. CASE d = Root
      BY <3>1, <3>2 DEF Chain
    <3>3. CASE d # Root /\ d \in S
      BY <3>1, <3>3 DEF Chain
    <3> QED
      BY <3>2, <3>3
  <2>2. S = Nodes
    <3>1. \A d \in {Root} \cup (S \cap Dirs) : Children(d) \subseteq S
      BY <2>1
    <3>2. S \in SUBSET Nodes
      OBVIOUS
    <3> HIDE DEF S
    <3> QED
      BY <3>1, <3>2, TreeInduction, Zenon
  <2> QED
    BY <2>2 DEF TypeOK, Nodes
<1>2. \A d \in {Root} \cup (visited \cap Dirs) : Children(d) \subseteq visited
  BY <1>1, TreeAssumption DEF LeftIsDone, Nodes
<1>3. visited \in SUBSET Nodes
  BY DEF TypeOK
<1> QED
  BY <1>2, <1>3, TreeInduction, Zenon

LEMMA LeavePreserves ==
  ASSUME IInv, LeaveDir
  PROVE  (WalkInv /\ EntriesDistinct /\ ParentsPrecede /\ TrueArchivesAll)'
<1> USE DEF IInv
<1>1. /\ cpc = "walk" /\ cur # Root /\ Children(cur) \subseteq visited
      /\ iters' = iters \ {cur} /\ cur' = Parent[cur]
      /\ UNCHANGED <<cpc, cres, visited, entries, dropped, raced, archive>>
  BY DEF LeaveDir
<1>2. Chain /\ LeftIsDone /\ EntriesMatchWalk /\ (~ raced => archive = NoArchive)
  BY <1>1 DEF WalkInv
<1>3. Chain'
  BY <1>1, <1>2 DEF Chain
<1>4. LeftIsDone'
  BY <1>1, <1>2 DEF LeftIsDone
<1> QED
  BY <1>1, <1>2, <1>3, <1>4
  DEF WalkInv, EntriesMatchWalk, EntryNodes, EntriesDistinct, ParentsPrecede, NamesDistinct,
      ParentsFirst, TrueArchivesAll

LEMMA ClosePreserves ==
  ASSUME IInv, Close
  PROVE  (WalkInv /\ EntriesDistinct /\ ParentsPrecede /\ TrueArchivesAll)'
<1> USE DEF IInv
<1>1. /\ cpc = "walk" /\ cur = Root /\ Children(Root) \subseteq visited
      /\ cpc' = "returned" /\ cres' = "true" /\ entries' = entries
      /\ dropped \subseteq dropped'
  BY DEF Close, Return, Keep, Drop
<1>2. Chain /\ LeftIsDone /\ EntriesMatchWalk
  BY <1>1 DEF WalkInv
<1>3. EntriesDistinct' /\ ParentsPrecede'
  BY <1>1 DEF EntriesDistinct, ParentsPrecede, NamesDistinct, ParentsFirst
<1>4. ASSUME dropped' = {}, Nodes # {}
      PROVE  archive' # NoArchive /\ EntryNodes(archive') = Nodes
  <2>1. EntryNodes(entries) = Nodes
    BY <1>1, <1>2, <1>4, WalkCoversTree DEF EntriesMatchWalk, TypeOK
  <2>2. entries # <<>>
    BY <1>4, <2>1, EmptySeq DEF EntryNodes
  <2>3. PICK atAdd \in BOOLEAN : archive' = Stored(atAdd)
    BY <1>4, <2>2 DEF Close, Drop
  <2> QED
    BY <2>1, <2>3, StoredType, CreateAssumption DEF EntryNodes
<1> QED
  BY <1>1, <1>3, <1>4 DEF WalkInv, TrueArchivesAll

LEMMA OthersPreserve ==
  ASSUME IInv,
         OpenFails \/ Open \/ Throw \/ OtherCloses \/ (\E f \in Files : Resize(f)) \/ UNCHANGED vars
  PROVE  (WalkInv /\ EntriesDistinct /\ ParentsPrecede /\ TrueArchivesAll)'
<1> USE DEF IInv
<1>1. CASE OpenFails \/ Open
  <2>1. /\ entries' = <<>> /\ visited' = {} /\ archive' = archive
    BY <1>1, Zenon DEF OpenFails, Open, Begin
  <2>2. Len(entries') = 0
    BY <2>1, EmptySeq
  <2>3. EntriesDistinct' /\ ParentsPrecede'
    BY <2>2 DEF EntriesDistinct, ParentsPrecede, NamesDistinct, ParentsFirst
  <2>4. cpc' = "walk" => archive = NoArchive /\ iters' = {Root} /\ cur' = Root
    BY <1>1 DEF OpenFails, Open, Return
  <2>5. EntryNodes(entries') = {}
    BY <2>2 DEF EntryNodes
  <2>6. WalkInv'
    BY <2>1, <2>4, <2>5 DEF WalkInv, Chain, LeftIsDone, EntriesMatchWalk
  <2>7. TrueArchivesAll'
    BY <1>1 DEF TrueArchivesAll, OpenFails, Open, Return
  <2> QED
    BY <2>3, <2>6, <2>7
<1>2. CASE Throw
  BY <1>2 DEF Throw, Return, walkVars, WalkInv, EntriesDistinct, ParentsPrecede, TrueArchivesAll,
              NamesDistinct, ParentsFirst
<1>3. CASE OtherCloses
  BY <1>3 DEF OtherCloses, walkVars, WalkInv, Chain, LeftIsDone, EntriesMatchWalk, EntryNodes,
              EntriesDistinct, ParentsPrecede, TrueArchivesAll, NamesDistinct, ParentsFirst
<1>4. CASE (\E f \in Files : Resize(f)) \/ UNCHANGED vars
  <2>1. UNCHANGED <<cpc, cres, iters, cur, visited, entries, dropped, raced, archive>>
    BY <1>4 DEF Resize, vars, createVars, walkVars
  <2> QED
    BY <2>1 DEF WalkInv, Chain, LeftIsDone, EntriesMatchWalk, EntryNodes, EntriesDistinct,
                ParentsPrecede, TrueArchivesAll, NamesDistinct, ParentsFirst
<1> QED
  BY <1>1, <1>2, <1>3, <1>4

LEMMA NextIInv == IInv /\ [Next]_vars => IInv'
<1> SUFFICES ASSUME IInv, [Next]_vars PROVE IInv'
  OBVIOUS
<1>1. TypeOK'
  BY NextType DEF IInv
<1>2. (WalkInv /\ EntriesDistinct /\ ParentsPrecede /\ TrueArchivesAll)'
  BY VisitPreserves, LeavePreserves, ClosePreserves, OthersPreserve
  DEF Next, Create, Walk
<1> QED
  BY <1>1, <1>2 DEF IInv

THEOREM Invariance == Spec => []IInv
  BY InitIInv, NextIInv, PTL DEF Spec

(***************************************************************************)
(* What the walk writes can be extracted: no node twice, and every         *)
(* directory before what it holds.                                         *)
(***************************************************************************)
THEOREM ArchiveIsOrdered == Spec => [](EntriesDistinct /\ ParentsPrecede)
  BY Invariance, PTL DEF IInv

(***************************************************************************)
(* A call that returns true and ignored no failure has archived the tree,  *)
(* whatever its depth and whatever order the iterators have.               *)
(***************************************************************************)
THEOREM TreeIsArchived == Spec => []TrueArchivesAll
  BY Invariance, PTL DEF IInv

(***************************************************************************)
(* An archive is replaced only if it appeared after the zip_open of the    *)
(* call that replaces it.                                                  *)
(***************************************************************************)
THEOREM ExclusiveOpen == Spec => ReplacesOnlyInRace
<1>1. IInv /\ [Next]_vars => (archive # NoArchive /\ archive' # archive => raced') \/ UNCHANGED vars
  <2> SUFFICES ASSUME IInv, Next, archive # NoArchive, archive' # archive PROVE raced'
    BY DEF vars
  <2>1. CASE Close
    BY <2>1 DEF Close, IInv, WalkInv
  <2>2. CASE OtherCloses
    BY <2>2 DEF OtherCloses
  <2>3. ~ Close /\ ~ OtherCloses => archive' = archive
    BY DEF Next, Create, Walk, OpenFails, Open, Begin, AddDir, AddFile, SkipFile, Throw, LeaveDir, Resize
  <2> QED
    BY <2>1, <2>2, <2>3
<1> QED
  BY <1>1, Invariance, PTL DEF Spec, ReplacesOnlyInRace

-----------------------------------------------------------------------------
\* A buffer that fits the 16 bit length is stored whole.
LEMMA StoredMetaWhole ==
  ASSUME NEW b \in Seq(Nat), Len(b) < MetaWidth
  PROVE  StoredMeta(b) = b
  BY CreateAssumption, ModAtMost, LenProperties, SubSeqFull DEF StoredMeta

LEMMA MetaNext == TypeOK /\ MetaIsOwn /\ [Next]_vars => MetaIsOwn'
<1> SUFFICES ASSUME TypeOK, MetaIsOwn, [Next]_vars PROVE MetaIsOwn'
  OBVIOUS
<1>1. DOMAIN entries = 1..Len(entries)
  BY LenProperties DEF TypeOK
<1>2. CASE entries' = entries /\ dropped \subseteq dropped'
  BY <1>2 DEF MetaIsOwn
<1>3. CASE entries' = <<>>
  <2>1. DOMAIN entries' = {}
    BY <1>3
  <2> QED
    BY <2>1 DEF MetaIsOwn
<1>4. ASSUME NEW n \in Nodes, NEW s \in Nat, NEW m \in Seq(Nat),
             dropped \subseteq dropped',
             entries' = Append(entries, Entry(n, s, m)),
             (n \in Files /\ Len(Meta[n]) < MetaWidth /\ "extra" \notin dropped') => m = Meta[n]
      PROVE  MetaIsOwn'
  <2>1. /\ DOMAIN entries' = 1..Len(entries')
        /\ Len(entries') = Len(entries) + 1 /\ Len(entries) \in Nat
        /\ \A i \in 1..Len(entries) : entries'[i] = entries[i]
        /\ entries'[Len(entries')] = Entry(n, s, m)
    BY <1>4, EntryType, AppendEntry, AppendType, LenProperties DEF TypeOK
  <2>2. ASSUME NEW i \in DOMAIN entries'
        PROVE  LET e == entries'[i]
               IN  (e.node \in Files /\ Len(Meta[e.node]) < MetaWidth /\ "extra" \notin dropped')
                     => e.meta = Meta[e.node]
    <3>1. CASE i \in 1..Len(entries)
      BY <1>1, <1>4, <2>1, <3>1 DEF MetaIsOwn
    <3>2. CASE i = Len(entries')
      BY <1>4, <2>1, <3>2 DEF Entry
    <3> QED
      BY <2>1, <2>2, <3>1, <3>2
  <2> QED
    BY <2>2 DEF MetaIsOwn
<1>5. ASSUME NEW n \in Nodes, AddDir(n) PROVE MetaIsOwn'
  <2>1. n \notin Files
    BY <1>5, TreeAssumption DEF AddDir
  <2> QED
    BY <1>2, <1>4, <1>5, <2>1, EmptyType DEF AddDir, Keep, Drop
<1>6. ASSUME NEW n \in Nodes, AddFile(n) PROVE MetaIsOwn'
  <2>1. Meta[n] \in Seq(Nat) /\ disk[n] \in Nat
    BY <1>6, CreateAssumption DEF AddFile, TypeOK
  <2>2. StoredMeta(Meta[n]) \in Seq(Nat) /\ (Len(Meta[n]) < MetaWidth => StoredMeta(Meta[n]) = Meta[n])
    BY <2>1, StoredMetaType, StoredMetaWhole
  <2>3. CASE entries' = entries
    BY <1>2, <1>6, <2>3 DEF AddFile, Keep, Drop
  <2>4. CASE entries' = Append(entries, Entry(n, disk[n], StoredMeta(Meta[n]))) /\ Keep
    BY <1>4, <2>1, <2>2, <2>4 DEF Keep
  <2>5. CASE entries' = Append(entries, Entry(n, disk[n], <<>>)) /\ Drop("extra")
    BY <1>4, <2>1, <2>5, EmptyType DEF Drop
  <2> QED
    BY <1>6, <2>3, <2>4, <2>5 DEF AddFile, FilledMeta
<1>7. CASE OpenFails \/ Open
  BY <1>3, <1>7, Zenon DEF OpenFails, Open, Begin
<1>8. ASSUME NEW n \in Nodes, SkipFile(n) PROVE MetaIsOwn'
  BY <1>2, <1>8 DEF SkipFile, Drop
<1>9. CASE Throw \/ LeaveDir \/ Close \/ OtherCloses \/ UNCHANGED vars \/ \E f \in Files : Resize(f)
  BY <1>2, <1>9 DEF Throw, LeaveDir, Close, Keep, Drop, OtherCloses, Resize, vars, createVars
<1> QED
  BY <1>5, <1>6, <1>7, <1>8, <1>9 DEF Next, Create, Walk

(***************************************************************************)
(* Metadata that fits is stored with its own file, though one buffer       *)
(* serves all files.                                                       *)
(***************************************************************************)
THEOREM MetadataIsOwn == Spec => []MetaIsOwn
<1>1. Init => MetaIsOwn
  BY DEF Init, MetaIsOwn
<1> QED
  BY <1>1, MetaNext, TypeCorrect, PTL DEF Spec

-----------------------------------------------------------------------------
(***************************************************************************)
(* The steps a walk has left at most: two for every node that is still to  *)
(* be given, which may be a directory to go into and to come back from,    *)
(* and one for every zip_add_dir to come back from.                        *)
(***************************************************************************)
StepsLeft == 2 * Cardinality(Nodes \ visited) + Cardinality(iters)

LEMMA FiniteWalk ==
  ASSUME IsFiniteSet(Nodes), TypeOK
  PROVE  /\ IsFiniteSet(Nodes \ visited) /\ Cardinality(Nodes \ visited) \in Nat
         /\ IsFiniteSet(iters) /\ Cardinality(iters) \in Nat
<1>1. IsFiniteSet(Nodes \ visited)
  BY FS_Subset
<1>2. Nodes \cup {Root} = Dirs \cup Files \cup {Root} /\ IsFiniteSet(Nodes \cup {Root})
  BY FS_AddElement DEF Nodes
<1>3. iters \in SUBSET (Nodes \cup {Root})
  BY <1>2 DEF TypeOK
<1>4. IsFiniteSet(iters)
  BY <1>2, <1>3, FS_Subset
<1> QED
  BY <1>1, <1>4, FS_CardinalityType

(***************************************************************************)
(* The walk of a finite tree ends, whatever fails and whatever other       *)
(* programs do: every step of it returns or leaves fewer steps, and what   *)
(* others do leaves as many.                                               *)
(***************************************************************************)
WalkAdvances ==
  [][cpc = "walk" =>
       /\ StepsLeft \in Nat
       /\ Walk => cpc' = "returned" \/ StepsLeft' < StepsLeft
       /\ cpc' = "walk" => StepsLeft' \in Nat /\ StepsLeft' <= StepsLeft]_vars

THEOREM WalkIsFinite ==
  ASSUME IsFiniteSet(Nodes)
  PROVE  Spec => WalkAdvances
<1> DEFINE Advance ==
             /\ StepsLeft \in Nat
             /\ Walk => cpc' = "returned" \/ StepsLeft' < StepsLeft
             /\ cpc' = "walk" => StepsLeft' \in Nat /\ StepsLeft' <= StepsLeft
<1>1. ASSUME IInv, cpc = "walk", Next
      PROVE  Advance
  <2> DEFINE left == Cardinality(Nodes \ visited)
             live == Cardinality(iters)
  <2>1. TypeOK /\ left \in Nat /\ live \in Nat /\ IsFiniteSet(Nodes \ visited) /\ IsFiniteSet(iters)
    BY <1>1, FiniteWalk DEF IInv
  <2>2. cur \in iters
    BY <1>1 DEF IInv, WalkInv, Chain
  <2>3. ASSUME NEW n \in Nodes, AddDir(n) \/ AddFile(n) \/ SkipFile(n)
        PROVE  StepsLeft' \in Nat /\ StepsLeft' < StepsLeft
    <3>1. n \in Nodes \ visited /\ (Nodes \ visited)' = (Nodes \ visited) \ {n}
      BY <2>3 DEF AddDir, AddFile, SkipFile, Visit, Children
    <3>2. Cardinality((Nodes \ visited) \ {n}) = left - 1 /\ IsFiniteSet((Nodes \ visited) \ {n})
      BY <2>1, <3>1, FS_RemoveElement
    <3>3. Cardinality((Nodes \ visited) \ {n}) \in Nat
      BY <3>2, FS_CardinalityType
    <3>4. iters' = iters \/ iters' = iters \cup {n}
      BY <2>3 DEF AddDir, AddFile, SkipFile
    <3>5. Cardinality(iters \cup {n}) \in {live, live + 1}
      BY <2>1, FS_AddElement
    <3>6. Cardinality(iters') \in {live, live + 1}
      BY <3>4, <3>5
    <3>7. StepsLeft' = 2 * Cardinality((Nodes \ visited) \ {n}) + Cardinality(iters')
      BY <3>1 DEF StepsLeft
    <3>8. StepsLeft = 2 * left + live
      BY DEF StepsLeft
    <3> DEFINE l == Cardinality((Nodes \ visited) \ {n})  i == Cardinality(iters')
    <3>9. l = left - 1 /\ l \in Nat /\ i \in {live, live + 1} /\ left \in Nat /\ live \in Nat
          /\ StepsLeft' = 2 * l + i /\ StepsLeft = 2 * left + live
      BY <2>1, <3>2, <3>3, <3>6, <3>7, <3>8
    <3> HIDE DEF left, live, l, i
    <3> QED
      BY <3>9
  <2>4. ASSUME LeaveDir
        PROVE  StepsLeft' \in Nat /\ StepsLeft' < StepsLeft
    <3>1. visited' = visited /\ iters' = iters \ {cur}
      BY <2>4 DEF LeaveDir
    <3>2. Cardinality(iters \ {cur}) = live - 1 /\ IsFiniteSet(iters \ {cur})
      BY <2>1, <2>2, FS_RemoveElement
    <3>3. live - 1 \in Nat
      BY <3>2, FS_CardinalityType
    <3>4. StepsLeft' = 2 * left + (live - 1) /\ StepsLeft = 2 * left + live
      BY <3>1, <3>2 DEF StepsLeft
    <3> HIDE DEF left, live
    <3> QED
      BY <2>1, <3>3, <3>4
  <2>5. Walk => cpc' = "returned" \/ (StepsLeft' \in Nat /\ StepsLeft' < StepsLeft)
    <3>1. Close => cpc' = "returned"
      BY DEF Close, Return
    <3> QED
      BY <2>3, <2>4, <3>1 DEF Walk
  <2>6. StepsLeft \in Nat
    <3>1. StepsLeft = 2 * left + live
      BY DEF StepsLeft
    <3> HIDE DEF left, live
    <3> QED
      BY <2>1, <3>1
  <2>7. ASSUME cpc' = "walk"
        PROVE  StepsLeft' \in Nat /\ StepsLeft' <= StepsLeft
    <3>1. CASE Walk
      <4>1. StepsLeft' \in Nat /\ StepsLeft' < StepsLeft
        BY <2>5, <2>7, <3>1
      <4> QED
        BY <2>6, <4>1
    <3>2. CASE OtherCloses \/ \E f \in Files : Resize(f)
      <4>1. StepsLeft' = StepsLeft
        BY <3>2 DEF OtherCloses, Resize, walkVars, StepsLeft
      <4> QED
        BY <2>6, <4>1
    <3>3. ~ (OpenFails \/ Open \/ Throw)
      BY <1>1, <2>7 DEF OpenFails, Open, Begin, Throw, Return, IInv, WalkInv
    <3> QED
      BY <1>1, <3>1, <3>2, <3>3 DEF Next, Create
  <2> QED
    BY <2>5, <2>6, <2>7
<1>2. IInv /\ [Next]_vars => [cpc = "walk" => Advance]_vars
  BY <1>1
<1> QED
  BY <1>2, Invariance, PTL DEF Spec, WalkAdvances

=============================================================================
