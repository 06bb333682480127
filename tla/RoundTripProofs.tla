--------------------------- MODULE RoundTripProofs ---------------------------
(***************************************************************************)
(* What test_archive.cpp is about, proved for every tree and however the   *)
(* two sides interleave: the invariants of archive_create and of           *)
(* archive_extract, put together where they meet, at the archive.          *)
(***************************************************************************)
EXTENDS ArchiveRoundTrip, ArchiveCreateProofs, FiniteSetTheorems, WellFoundedInduction

XP == INSTANCE ArchiveExtractProofs WITH InitArchives <- {NoArchive}

\* What ArchiveExtract assumes of its constants, said of those given to it.
LEMMA TreeIsTree == XP!TreeAssumption
  BY TreeAssumption DEF XP!TreeAssumption, XP!Nodes, XP!Children, Nodes, Children

LEMMA ExtractConstants == XP!ExtractAssumption
  BY RoundTripAssumption, CreateAssumption
  DEF XP!ExtractAssumption, XP!AnyEntry, XP!Nodes, AnyEntry, Nodes

-----------------------------------------------------------------------------
(***************************************************************************)
(* The steps of X are those that ArchiveExtractProofs is about, and none   *)
(* of them touches the archive.                                            *)
(***************************************************************************)
LEMMA SameInit == X!Init => XP!Init
  BY DEF X!Init, XP!Init, X!Absent, XP!Absent

LEMMA SameCardinality == \A S : X!Cardinality(S) = XP!Cardinality(S)
  BY DEF X!Cardinality, XP!Cardinality

LEMMA SameStep == X!Next => XP!Next /\ archive' = archive
<1> USE DEF X!Begin, XP!Begin, X!MoreEntries, XP!MoreEntries, X!current, XP!current,
            X!Holds, XP!Holds, X!Return, XP!Return, X!NextEntry, XP!NextEntry,
            X!FaultsLeft, XP!FaultsLeft, X!Report, XP!Report, X!Miss, XP!Miss,
            X!KeepPart, XP!KeepPart, X!CountEntry, XP!CountEntry, X!CanMake, XP!CanMake,
            X!destVars, XP!destVars, X!faultVars, XP!faultVars, X!callVars, XP!callVars,
            XP!Next, XP!Extract, XP!Step
<1>1. CASE X!Open  BY <1>1 DEF X!Open, XP!Open
<1>2. CASE X!OpenFails  BY <1>2 DEF X!OpenFails, XP!OpenFails
<1>3. CASE X!SkipEntry  BY <1>3, SameCardinality DEF X!SkipEntry, XP!SkipEntry
<1>4. CASE X!ExtractDir  BY <1>4, SameCardinality DEF X!ExtractDir, XP!ExtractDir
<1>5. CASE X!FailDir  BY <1>5, SameCardinality DEF X!FailDir, XP!FailDir
<1>6. CASE X!OpenFile
  BY <1>6, SameCardinality DEF X!OpenFile, XP!OpenFile, X!LookUpMeta, XP!LookUpMeta
<1>7. CASE X!FailFile  BY <1>7, SameCardinality DEF X!FailFile, XP!FailFile
<1>8. CASE X!ReadChunk  BY <1>8, SameCardinality DEF X!ReadChunk, XP!ReadChunk
<1>9. CASE X!EndOfFile  BY <1>9, SameCardinality DEF X!EndOfFile, XP!EndOfFile
<1>10. CASE X!ReadFails  BY <1>10, SameCardinality DEF X!ReadFails, XP!ReadFails
<1>11. CASE X!Finish  BY <1>11 DEF X!Finish, XP!Finish
<1>12. CASE X!Crash  BY <1>12 DEF X!Crash, XP!Crash
<1> QED
  BY <1>1, <1>2, <1>3, <1>4, <1>5, <1>6, <1>7, <1>8, <1>9, <1>10, <1>11, <1>12
  DEF X!Next, X!Extract, X!Step

-----------------------------------------------------------------------------
(***************************************************************************)
(* What archive_create knows of the archive it makes.  The entries have    *)
(* the sizes of the source as long as nobody changes it, and so has the    *)
(* archive whichever size zip_close stores.                                *)
(***************************************************************************)
SizesCurrent(a) ==
  \A i \in 1..Len(a) : a[i].node \in Files => a[i].size = disk[a[i].node]

MetaWhole(a) ==
  \A i \in 1..Len(a) :
    (a[i].node \in Files /\ Len(Meta[a[i].node]) < MetaWidth) => a[i].meta = Meta[a[i].node]

Packed ==
  /\ XP!WellFormed(archive)
  /\ EntryNodes(archive) = Nodes
  /\ ~ dirty => SizesCurrent(archive)
  /\ MetaWhole(archive)

PackedAll == cpc = "returned" /\ cres = "true" /\ dropped = {} /\ Nodes # {}

PackingInv ==
  /\ ~ raced
  /\ (cpc = "walk" /\ ~ dirty) => SizesCurrent(entries)
  /\ PackedAll => Packed

CreateInv == IInv /\ MetaIsOwn /\ PackingInv

LEMMA InitCreate == Init => CreateInv
<1> SUFFICES ASSUME Init PROVE CreateInv
  OBVIOUS
<1>1. MetaIsOwn
  BY DEF Init, MetaIsOwn
<1>2. PackingInv
  BY DEF Init, PackingInv, PackedAll
<1> QED  BY <1>1, <1>2, InitIInv DEF CreateInv

\* A step that visits n adds an entry of n's size.
LEMMA VisitSizes ==
  ASSUME CreateInv, NEW n \in Nodes, AddDir(n) \/ AddFile(n) \/ SkipFile(n)
  PROVE  PackingInv'
<1>1. /\ cpc = "walk" /\ cpc' = "walk"
      /\ UNCHANGED <<disk, dirty, raced>>
  BY DEF AddDir, AddFile, SkipFile, Visit, diskVars
<1>2. entries' = entries \/ \E s, m : /\ n \in Files => s = disk[n]
                                      /\ s \in Nat /\ m \in Seq(Nat)
                                      /\ entries' = Append(entries, Entry(n, s, m))
  <2>1. CASE AddDir(n)
    BY <2>1, EmptyType, TreeAssumption DEF AddDir
  <2>2. CASE AddFile(n)
    <3>1. n \in Files /\ disk[n] \in Nat
      BY <2>2 DEF AddFile, CreateInv, IInv, TypeOK
    <3>2. /\ StoredMeta(Meta[n]) \in Seq(Nat) /\ <<>> \in Seq(Nat)
      BY <3>1, CreateAssumption, StoredMetaType, EmptyType
    <3> QED  BY <2>2, <3>1, <3>2 DEF AddFile, FilledMeta
  <2>3. CASE SkipFile(n)
    BY <2>3 DEF SkipFile
  <2> QED  BY <2>1, <2>2, <2>3
<1>3. ASSUME ~ dirty PROVE SizesCurrent(entries)'
  <2>1. SizesCurrent(entries) /\ entries \in Seq(AnyEntry)
    BY <1>1, <1>3 DEF CreateInv, PackingInv, IInv, TypeOK
  <2>2. CASE entries' = entries
    BY <1>1, <2>1, <2>2 DEF SizesCurrent
  <2>3. ASSUME NEW s, NEW m, n \in Files => s = disk[n], s \in Nat, m \in Seq(Nat),
               entries' = Append(entries, Entry(n, s, m))
        PROVE  SizesCurrent(entries)'
    <3>1. /\ Entry(n, s, m) \in AnyEntry
          /\ Entry(n, s, m).node = n /\ Entry(n, s, m).size = s
      BY <2>3 DEF Entry, AnyEntry
    <3>2. /\ Len(entries) \in Nat /\ Len(entries') = Len(entries) + 1
          /\ \A i \in 1..Len(entries) : entries'[i] = entries[i]
          /\ entries'[Len(entries')] = Entry(n, s, m)
      BY <2>1, <2>3, <3>1, AppendEntry
    <3> SUFFICES ASSUME NEW i \in 1..Len(entries'), entries'[i].node \in Files
                 PROVE  entries'[i].size = disk'[entries'[i].node]
      BY DEF SizesCurrent
    <3>3. CASE i \in 1..Len(entries)
      BY <1>1, <2>1, <3>2, <3>3 DEF SizesCurrent
    <3>4. CASE i = Len(entries')
      BY <1>1, <2>3, <3>1, <3>2, <3>4
    <3> QED  BY <3>2, <3>3, <3>4
  <2> QED  BY <1>2, <2>2, <2>3
<1> QED  BY <1>1, <1>3 DEF CreateInv, PackingInv, PackedAll

(***************************************************************************)
(* zip_close keeps nodes and metadata, and the sizes of a source that has  *)
(* not changed.                                                            *)
(***************************************************************************)
LEMMA StoredSame ==
  ASSUME TypeOK, NEW atAdd \in BOOLEAN, NEW i \in 1..Len(entries)
  PROVE  LET e == Stored(atAdd)[i]
         IN  /\ e.node = entries[i].node /\ e.meta = entries[i].meta
             /\ e.node \in Files => e.size \in {entries[i].size, disk[e.node]}
<1>1. /\ DOMAIN entries = 1..Len(entries) /\ entries[i] \in AnyEntry
  BY LenProperties, ElementOfSeq DEF TypeOK
<1>2. PICK n \in Nodes, s \in Nat, m \in Seq(Nat) :
        entries[i] = [node |-> n, size |-> s, meta |-> m]
  BY <1>1 DEF AnyEntry
<1>3. CASE atAdd \/ n \in Dirs
  BY <1>1, <1>2, <1>3 DEF Stored
<1>4. CASE ~ (atAdd \/ n \in Dirs)
  <2>1. Stored(atAdd)[i] = [entries[i] EXCEPT !.size = disk[n]]
    BY <1>1, <1>2, <1>4 DEF Stored
  <2>2. Stored(atAdd)[i] = [node |-> n, size |-> disk[n], meta |-> m]
    BY <1>2, <2>1
  <2> QED  BY <1>2, <2>2
<1> QED  BY <1>3, <1>4

LEMMA ClosePacks ==
  ASSUME CreateInv, Close
  PROVE  PackingInv'
<1>1. /\ cpc = "walk" /\ cpc' = "returned" /\ entries' = entries
      /\ UNCHANGED <<disk, dirty, raced>> /\ dropped \subseteq dropped'
  BY DEF Close, Return, Keep, Drop, diskVars
<1>2. /\ TypeOK /\ MetaIsOwn /\ NamesDistinct(entries)
      /\ ~ dirty => SizesCurrent(entries)
  BY <1>1 DEF CreateInv, IInv, EntriesDistinct, PackingInv
<1>3. ASSUME PackedAll' PROVE Packed'
  <2>1. dropped = {} /\ ParentsFirst(entries)
    BY <1>1, <1>3 DEF PackedAll, CreateInv, IInv, ParentsPrecede
  <2>2. archive' # NoArchive /\ EntryNodes(archive') = Nodes
    BY <1>3, ClosePreserves DEF PackedAll, CreateInv, TrueArchivesAll
  <2>3. archive = NoArchive
    BY <1>1 DEF CreateInv, IInv, WalkInv, PackingInv
  <2>4. PICK atAdd \in BOOLEAN : archive' = Stored(atAdd)
    BY <1>3, <2>2, <2>3 DEF Close, Drop, PackedAll
  <2>5. /\ archive' \in Seq(AnyEntry) /\ Len(archive') = Len(entries)
        /\ \A i \in 1..Len(entries) :
             /\ archive'[i].node = entries[i].node /\ archive'[i].meta = entries[i].meta
             /\ archive'[i].node \in Files
                  => archive'[i].size \in {entries[i].size, disk[archive'[i].node]}
    BY <1>2, <2>4, StoredType, StoredSame
  <2>6. XP!WellFormed(archive')
    <3>1. ParentsFirst(archive') /\ NamesDistinct(archive')
      <4>1. NamesDistinct(archive')  BY <1>2, <2>5 DEF NamesDistinct
      <4>2. ASSUME NEW i \in 1..Len(archive'), Parent[archive'[i].node] # Root
            PROVE  \E j \in 1..(i - 1) : archive'[j].node = Parent[archive'[i].node]
        <5>1. PICK j \in 1..(i - 1) : entries[j].node = Parent[entries[i].node]
          BY <2>1, <2>5, <4>2 DEF ParentsFirst
        <5>2. j \in 1..Len(entries)
          BY <1>2, <2>5, LenProperties DEF TypeOK
        <5> QED  BY <2>5, <5>1, <5>2
      <4> QED  BY <4>1, <4>2 DEF ParentsFirst
    <3> QED
      BY <2>5, <3>1
      DEF XP!WellFormed, XP!ParentsFirst, XP!NamesDistinct, ParentsFirst, NamesDistinct,
          XP!AnyEntry, AnyEntry, XP!Nodes, Nodes
  <2>7. ~ dirty' => SizesCurrent(archive)'
    BY <1>1, <1>2, <2>5 DEF SizesCurrent
  <2>8. MetaWhole(archive')
    <3>1. DOMAIN entries = 1..Len(entries)
      BY <1>2, LenProperties DEF TypeOK
    <3> QED  BY <1>2, <2>1, <2>5, <3>1 DEF MetaWhole, MetaIsOwn
  <2> QED  BY <2>2, <2>6, <2>7, <2>8 DEF Packed
<1> QED  BY <1>1, <1>3 DEF CreateInv, PackingInv

LEMMA NextCreate == CreateInv /\ [Next]_vars => CreateInv'
<1> SUFFICES ASSUME CreateInv, [Next]_vars PROVE CreateInv'
  OBVIOUS
<1>1. IInv' /\ MetaIsOwn'
  BY NextIInv, MetaNext DEF CreateInv, IInv
<1>2. CASE OpenFails \/ Open
  <2>1. entries' = <<>> /\ ~ raced' /\ ~ (cpc' = "returned" /\ cres' = "true")
    BY <1>2 DEF OpenFails, Open, Begin, Return
  <2>2. SizesCurrent(entries)'
    <3>1. Len(entries') = 0  BY <2>1, EmptySeq
    <3> QED  BY <3>1 DEF SizesCurrent
  <2> QED  BY <1>1, <2>1, <2>2 DEF CreateInv, PackingInv, PackedAll
<1>3. CASE \E n \in Nodes : AddDir(n) \/ AddFile(n) \/ SkipFile(n)
  BY <1>1, <1>3, VisitSizes DEF CreateInv
<1>4. CASE LeaveDir
  BY <1>1, <1>4 DEF LeaveDir, CreateInv, PackingInv, PackedAll, SizesCurrent, diskVars
<1>5. CASE Close
  BY <1>1, <1>5, ClosePacks DEF CreateInv
<1>6. CASE Throw
  BY <1>1, <1>6 DEF Throw, Return, CreateInv, PackingInv, PackedAll
<1>7. CASE \E f \in Files : Resize(f)
  BY <1>1, <1>7 DEF Resize, CreateInv, PackingInv, PackedAll, Packed, MetaWhole, walkVars
<1>8. CASE OtherCloses
  BY <1>8, RoundTripAssumption DEF OtherCloses
<1>9. CASE UNCHANGED vars
  BY <1>1, <1>9 DEF vars, createVars, walkVars, diskVars, CreateInv, PackingInv, PackedAll,
                    Packed, SizesCurrent, MetaWhole
<1> QED
  BY <1>2, <1>3, <1>4, <1>5, <1>6, <1>7, <1>8, <1>9 DEF Next, Create, Walk

-----------------------------------------------------------------------------
(***************************************************************************)
(* What archive_extract knows.  Its own invariant needs an archive that is *)
(* well-formed, which one made with an ignored failure may not be; a call  *)
(* that returned before there was an archive has missed it.                *)
(***************************************************************************)
UnpackingInv ==
  /\ archive = NoArchive \/ XP!WellFormed(archive) => XP!IInv /\ XP!Results
  /\ archive = NoArchive /\ xpc = "returned" => xres = "true" /\ ~ XP!OnlyMetaMissed

RoundTripInv == CreateInv /\ UnpackingInv

LEMMA InitRoundTrip == RoundTripInit => RoundTripInv
<1> SUFFICES ASSUME RoundTripInit PROVE RoundTripInv
  OBVIOUS
<1>1. XP!Init /\ xpc = "idle"
  BY SameInit DEF RoundTripInit, XP!Init
<1>2. XP!IInv
  BY <1>1, XP!InitIInv, TreeIsTree, ExtractConstants
<1>3. XP!Results
  BY <1>1 DEF XP!Results, XP!TrueIsComplete, XP!FalseHasCause, XP!NoResume
<1> QED
  BY <1>1, <1>2, <1>3, InitCreate DEF RoundTripInit, RoundTripInv, UnpackingInv

\* A step of archive_extract leaves the archive as it is.
LEMMA ExtractStep ==
  ASSUME UnpackingInv, X!Next
  PROVE  UnpackingInv'
<1>1. XP!Next /\ archive' = archive
  BY SameStep
<1>2. ASSUME archive' = NoArchive \/ XP!WellFormed(archive')
      PROVE  (XP!IInv /\ XP!Results)'
  <2>1. XP!IInv /\ XP!Results /\ [XP!Next]_XP!vars
    BY <1>1, <1>2 DEF UnpackingInv
  <2> QED
    BY <2>1, XP!NextIInv, XP!NextResults, TreeIsTree, ExtractConstants
<1>3. ASSUME archive' = NoArchive, xpc' = "returned"
      PROVE  xres' = "true" /\ ~ XP!OnlyMetaMissed'
  <2>1. ~ XP!Active
    BY <1>1, <1>3 DEF UnpackingInv, XP!IInv, XP!CallInv
  <2>2. XP!Open \/ XP!OpenFails
    BY <1>1, <2>1
    DEF XP!Next, XP!Extract, XP!Step, XP!Active, XP!SkipEntry, XP!ExtractDir, XP!FailDir,
        XP!OpenFile, XP!FailFile, XP!MoreEntries, XP!ReadChunk, XP!EndOfFile, XP!ReadFails,
        XP!Finish, XP!Crash
  <2> QED  BY <1>1, <1>3, <2>2 DEF XP!Open, XP!OpenFails, XP!Return, XP!OnlyMetaMissed
<1> QED  BY <1>2, <1>3 DEF UnpackingInv

\* archive_create makes an archive only where there was none.
LEMMA ArchiveAppears ==
  ASSUME CreateInv, [Next]_vars
  PROVE  archive' = archive \/ archive = NoArchive
<1>1. CASE Close
  BY <1>1 DEF Close, CreateInv, PackingInv, IInv, WalkInv
<1>2. CASE OtherCloses
  BY <1>2, RoundTripAssumption DEF OtherCloses
<1>3. Next => \/ Close \/ OtherCloses \/ archive' = archive
  BY Zenon DEF Next, Create, Walk, OpenFails, Open, Begin, AddDir, AddFile, SkipFile, LeaveDir,
               Throw, Resize
<1> QED  BY <1>1, <1>2, <1>3 DEF vars

(***************************************************************************)
(* A step of archive_create makes an archive only where there was none,    *)
(* and therefore under no call of archive_extract that has opened one.     *)
(***************************************************************************)
LEMMA CreateStep ==
  ASSUME CreateInv, UnpackingInv, [Next]_vars, UNCHANGED extractVars
  PROVE  UnpackingInv'
<1>1. archive' = archive \/ archive = NoArchive
  BY ArchiveAppears
<1>2. CASE archive' = archive
  BY <1>2
  DEF UnpackingInv, extractVars, XP!IInv, XP!TypeOK, XP!CallInv, XP!Active, XP!Behind,
      XP!current, XP!Extracted, XP!HasMeta, XP!OnlyMetaMissed, XP!Results, XP!TrueIsComplete,
      XP!FalseHasCause, XP!NoResume, XP!EntryNodes
<1>3. CASE archive = NoArchive /\ archive' # NoArchive
  <2>1. XP!IInv /\ (xpc = "returned" => xres = "true" /\ ~ XP!OnlyMetaMissed)
    BY <1>3 DEF UnpackingInv
  <2>2. ~ XP!Active
    BY <1>3, <2>1 DEF XP!IInv, XP!CallInv
  <2>3. ASSUME XP!WellFormed(archive') PROVE XP!IInv'
    BY <2>1, <2>2, <2>3
    DEF extractVars, XP!IInv, XP!TypeOK, XP!CallInv, XP!Active
  <2>4. XP!Results'
    BY <2>1
    DEF extractVars, XP!Results, XP!TrueIsComplete, XP!FalseHasCause, XP!NoResume,
        XP!OnlyMetaMissed
  <2> QED  BY <1>3, <2>3, <2>4 DEF UnpackingInv
<1> QED  BY <1>1, <1>2, <1>3

LEMMA NextRoundTrip == RoundTripInv /\ [RoundTripNext]_roundTripVars => RoundTripInv'
<1> SUFFICES ASSUME RoundTripInv, [RoundTripNext]_roundTripVars PROVE RoundTripInv'
  OBVIOUS
<1> USE DEF RoundTripInv
<1>1. CASE [Next]_vars /\ UNCHANGED extractVars
  BY <1>1, NextCreate, CreateStep
<1>2. CASE X!Next /\ UNCHANGED createVars
  <2>1. UNCHANGED vars
    BY <1>2, SameStep DEF vars
  <2> QED  BY <1>2, <2>1, NextCreate, ExtractStep
<1> QED  BY <1>1, <1>2 DEF RoundTripNext, roundTripVars

-----------------------------------------------------------------------------
\* Without nodes there is no entry to make.
LEMMA NothingToPack ==
  ASSUME TypeOK, Nodes = {}
  PROVE  archive = NoArchive \/ XP!WellFormed(archive)
<1> SUFFICES ASSUME archive \in Seq(AnyEntry) PROVE XP!WellFormed(archive)
  BY DEF TypeOK
<1>1. Len(archive) = 0
  <2>1. \A i \in 1..Len(archive) : archive[i] \in AnyEntry
    BY ElementOfSeq
  <2>2. AnyEntry = {}  BY DEF AnyEntry
  <2> QED  BY <2>1, <2>2, LenProperties
<1> QED
  BY <1>1
  DEF XP!WellFormed, XP!ParentsFirst, XP!NamesDistinct, XP!AnyEntry, AnyEntry, XP!Nodes, Nodes

(***************************************************************************)
(* The copy equals the source, whatever the tree, the metadata and the     *)
(* calls before, if both calls returned true and nothing was ignored but   *)
(* failed lookups of metadata: a writer then got none, never others.       *)
(***************************************************************************)
THEOREM TreeIsRebuilt == RoundTripSpec => []RebuildsTree
<1>1. RoundTripInv => RebuildsTree
  <2> DEFINE Given(f) == xmeta[f] = Meta[f] \/ ("meta" \in missed /\ xmeta[f] = <<>>)
  <2> SUFFICES ASSUME RoundTripInv, BothTrue, Undisturbed
               PROVE  /\ dirs = Dirs
                      /\ \A f \in Files :
                           /\ data[f] = disk[f]
                           /\ Len(Meta[f]) < MetaWidth => Given(f)
    BY DEF RebuildsTree
  <2>1. CASE Nodes = {}
    <3>1. XP!IInv
      BY <2>1, NothingToPack DEF RoundTripInv, CreateInv, IInv, UnpackingInv
    <3> QED  BY <2>1, <3>1 DEF XP!IInv, XP!TypeOK, Nodes
  <2>2. CASE Nodes # {}
    <3>1. Packed /\ SizesCurrent(archive)
      BY <2>2 DEF RoundTripInv, CreateInv, PackingInv, PackedAll, Packed, BothTrue, Undisturbed
    <3>2. XP!IInv /\ XP!TrueIsComplete
      BY <3>1 DEF RoundTripInv, UnpackingInv, Packed, XP!Results
    <3>3. \A i \in 1..Len(archive) : XP!Extracted(archive[i])
      BY <3>2 DEF XP!TrueIsComplete, XP!OnlyMetaMissed, BothTrue, Undisturbed, X!OnlyMetaMissed
    <3>4. \A n \in Nodes : \E i \in 1..Len(archive) : archive[i].node = n
      BY <3>1 DEF Packed, EntryNodes
    <3>5. dirs = Dirs
      <4>1. dirs \subseteq Dirs  BY <3>2 DEF XP!IInv, XP!TypeOK
      <4>2. ASSUME NEW d \in Dirs PROVE d \in dirs
        <5>1. PICK i \in 1..Len(archive) : archive[i].node = d  BY <3>4 DEF Nodes
        <5> QED  BY <3>3, <5>1 DEF XP!Extracted
      <4> QED  BY <4>1, <4>2
    <3>6. ASSUME NEW f \in Files
          PROVE  /\ data[f] = disk[f]
                 /\ Len(Meta[f]) < MetaWidth => Given(f)
      <4>1. PICK i \in 1..Len(archive) : archive[i].node = f  BY <3>4 DEF Nodes
      <4>2. f \notin Dirs  BY TreeAssumption
      <4>3. /\ data[f] = archive[i].size
            /\ xmeta[f] = archive[i].meta \/ ("meta" \in missed /\ xmeta[f] = <<>>)
        BY <3>3, <4>1, <4>2 DEF XP!Extracted, XP!HasMeta
      <4> QED  BY <3>1, <4>1, <4>3 DEF SizesCurrent, Packed, MetaWhole
    <3> QED  BY <3>5, <3>6
  <2> QED  BY <2>1, <2>2
<1> QED  BY <1>1, InitRoundTrip, NextRoundTrip, PTL DEF RoundTripSpec

-----------------------------------------------------------------------------
\* A set of natural numbers has a smallest: induction without an operator.
LEMMA Smallest ==
  ASSUME NEW T \in SUBSET Nat, T # {}
  PROVE  \E n \in T : \A k \in T : n <= k
<1>1. \E n \in T : \A k \in T : ~ (<<k, n>> \in OpToRel(<, Nat))
  BY NatLessThanWellFounded, WFMin
<1>2. PICK n \in T : \A k \in T : ~ (<<k, n>> \in OpToRel(<, Nat))
  BY <1>1
<1>3. ASSUME NEW k \in T, k < n PROVE <<k, n>> \in OpToRel(<, Nat)
  <2>1. <<k, n>> \in Nat \X Nat /\ <<k, n>>[1] = k /\ <<k, n>>[2] = n
    OBVIOUS
  <2> QED
    BY <1>3, <2>1 DEF OpToRel
<1>4. \A k \in T : ~ (k < n)
  BY <1>2, <1>3, Zenon
<1> QED
  BY <1>4

(***************************************************************************)
(* g is the running sum of the first n weights w.                          *)
(***************************************************************************)
Running(w, n, g) ==
  /\ g \in [0..n -> Nat] /\ g[0] = 0
  /\ \A i \in 1..n : g[i] = g[i - 1] + w[i]

LEMMA RunningZero == ASSUME NEW w PROVE Running(w, 0, [i \in 0..0 |-> 0])
  BY DEF Running

LEMMA RunningOn ==
  ASSUME NEW w, NEW n \in Nat, NEW g, Running(w, n, g), w[n + 1] \in Nat
  PROVE  \E h : Running(w, n + 1, h) /\ h[n + 1] = g[n] + w[n + 1]
<1> DEFINE h == [i \in 0..(n + 1) |-> IF i = n + 1 THEN g[n] + w[n + 1] ELSE g[i]]
<1>1. \A i \in 0..n : g[i] \in Nat /\ h[i] = g[i]
  BY DEF Running
<1>2. h[n + 1] = g[n] + w[n + 1] /\ h[0] = 0 /\ g[n] \in Nat
  BY <1>1 DEF Running
<1>3. h \in [0..(n + 1) -> Nat]
  BY <1>1, <1>2
<1>4. ASSUME NEW i \in 1..(n + 1) PROVE h[i] = h[i - 1] + w[i]
  <2>1. CASE i = n + 1
    BY <1>1, <1>2, <2>1
  <2>2. CASE i \in 1..n
    <3>1. i - 1 \in 0..n /\ i \in 0..n
      BY <2>2
    <3> QED
      BY <1>1, <2>2, <3>1 DEF Running
  <2> QED
    BY <2>1, <2>2
<1> HIDE DEF h
<1>5. Running(w, n + 1, h)
  BY <1>2, <1>3, <1>4 DEF Running
<1> QED
  BY <1>2, <1>5

\* There is a running sum, and only one.
LEMMA RunningExists ==
  ASSUME NEW n \in Nat, NEW w, \A i \in 1..n : w[i] \in Nat
  PROVE  \E g : Running(w, n, g)
<1> DEFINE T == {k \in 0..n : ~ \E g : Running(w, k, g)}
<1>1. ASSUME T # {} PROVE FALSE
  <2>1. PICK k \in T : \A j \in T : k <= j
    <3>1. T \in SUBSET Nat
      OBVIOUS
    <3> HIDE DEF T
    <3> QED
      BY <1>1, <3>1, Smallest
  <2>2. k # 0
    BY <2>1, RunningZero
  <2>3. k - 1 \in 0..n /\ k - 1 \notin T /\ k \in Nat
    BY <2>1, <2>2
  <2>4. PICK g : Running(w, k - 1, g)
    BY <2>3
  <2>5. \E h : Running(w, (k - 1) + 1, h)
    BY <2>1, <2>2, <2>3, <2>4, RunningOn
  <2> QED
    BY <2>1, <2>3, <2>5
<1> QED
  BY <1>1

LEMMA RunningUnique ==
  ASSUME NEW n \in Nat, NEW w, NEW g, NEW h, Running(w, n, g), Running(w, n, h)
  PROVE  \A i \in 0..n : g[i] = h[i]
<1> DEFINE T == {k \in 0..n : g[k] # h[k]}
<1>1. ASSUME T # {} PROVE FALSE
  <2>1. PICK k \in T : \A j \in T : k <= j
    <3>1. T \in SUBSET Nat
      OBVIOUS
    <3> HIDE DEF T
    <3> QED
      BY <1>1, <3>1, Smallest
  <2>2. k # 0
    BY <2>1 DEF Running
  <2>3. k - 1 \in 0..n /\ k - 1 \notin T /\ k \in 1..n
    BY <2>1, <2>2
  <2>4. g[k - 1] = h[k - 1] /\ g[k] = g[k - 1] + w[k] /\ h[k] = h[k - 1] + w[k]
    BY <2>3 DEF Running
  <2> QED
    BY <2>1, <2>4
<1> QED
  BY <1>1

\* Two lists with the same weights have the same running sums.
LEMMA RunningSame ==
  ASSUME NEW n \in Nat, NEW w, NEW v, NEW g, Running(w, n, g), \A i \in 1..n : w[i] = v[i]
  PROVE  Running(v, n, g)
  BY DEF Running

-----------------------------------------------------------------------------
(***************************************************************************)
(* The weights of the members of s, one after the other, and their sum.    *)
(***************************************************************************)
Masked(w, n, s) == [i \in 1..n |-> IF i \in s THEN w[i] ELSE 0]

MaskedSum(w, n, s) == (CHOOSE g : Running(Masked(w, n, s), n, g))[n]

LEMMA MaskedRuns ==
  ASSUME NEW n \in Nat, NEW w, \A i \in 1..n : w[i] \in Nat, NEW s
  PROVE  \E g : Running(Masked(w, n, s), n, g) /\ MaskedSum(w, n, s) = g[n] /\ g[n] \in Nat
<1>1. \A i \in 1..n : Masked(w, n, s)[i] \in Nat
  BY DEF Masked
<1>2. \E g : Running(Masked(w, n, s), n, g)
  BY <1>1, RunningExists
<1> DEFINE c == CHOOSE g : Running(Masked(w, n, s), n, g)
<1>3. Running(Masked(w, n, s), n, c)
  BY <1>2
<1>4. MaskedSum(w, n, s) = c[n]
  BY DEF MaskedSum
<1> HIDE DEF c
<1> QED
  BY <1>3, <1>4 DEF Running

LEMMA MaskedEmpty ==
  ASSUME NEW n \in Nat, NEW w, \A i \in 1..n : w[i] \in Nat
  PROVE  MaskedSum(w, n, {}) = 0
<1>1. PICK g : Running(Masked(w, n, {}), n, g) /\ MaskedSum(w, n, {}) = g[n]
  BY MaskedRuns
<1> DEFINE h == [i \in 0..n |-> 0]
<1>2. Running(Masked(w, n, {}), n, h)
  <2>1. \A i \in 1..n : i \in 0..n /\ i - 1 \in 0..n
    OBVIOUS
  <2> QED
    BY <2>1 DEF Running, Masked
<1> QED
  BY <1>1, <1>2, RunningUnique

\* A member more adds its weight, whichever it is.
LEMMA MaskedRemove ==
  ASSUME NEW n \in Nat, NEW w, \A i \in 1..n : w[i] \in Nat,
         NEW s \in SUBSET (1..n), NEW x \in s
  PROVE  MaskedSum(w, n, s) = w[x] + MaskedSum(w, n, s \ {x})
<1>1. PICK g : /\ Running(Masked(w, n, s \ {x}), n, g)
               /\ MaskedSum(w, n, s \ {x}) = g[n]
  BY MaskedRuns
<1>2. PICK f : Running(Masked(w, n, s), n, f) /\ MaskedSum(w, n, s) = f[n]
  BY MaskedRuns
<1> DEFINE h == [i \in 0..n |-> IF i >= x THEN g[i] + w[x] ELSE g[i]]
<1>3. x \in 1..n /\ w[x] \in Nat
  OBVIOUS
<1>4. Running(Masked(w, n, s), n, h)
  <2>1. h \in [0..n -> Nat] /\ h[0] = 0
    BY <1>1, <1>3 DEF Running
  <2>2. ASSUME NEW i \in 1..n PROVE h[i] = h[i - 1] + Masked(w, n, s)[i]
    <3>1. /\ i \in 0..n /\ i - 1 \in 0..n /\ g[i] \in Nat /\ g[i - 1] \in Nat
          /\ g[i] = g[i - 1] + Masked(w, n, s \ {x})[i]
      <4>1. i \in 0..n /\ i - 1 \in 0..n
        OBVIOUS
      <4> QED
        BY <1>1, <4>1 DEF Running
    <3>2. CASE i = x
      BY <1>3, <3>1, <3>2 DEF Masked
    <3>3. CASE i # x
      <4>1. Masked(w, n, s)[i] = Masked(w, n, s \ {x})[i]
        BY <3>3 DEF Masked
      <4>2. Masked(w, n, s)[i] \in Nat
        BY DEF Masked
      <4> QED
        BY <1>3, <3>1, <3>3, <4>1, <4>2
    <3> QED
      BY <3>2, <3>3
  <2> QED
    BY <2>1, <2>2 DEF Running
<1>5. f[n] = h[n]
  BY <1>2, <1>4, RunningUnique
<1>6. n >= x /\ n \in 0..n /\ h[n] = g[n] + w[x] /\ g[n] \in Nat
  BY <1>1, <1>3 DEF Running
<1> QED
  BY <1>1, <1>2, <1>3, <1>5, <1>6

(***************************************************************************)
(* The sum that the library folds over a set, in whatever order CHOOSE     *)
(* gives its members, is that of the running sum.                          *)
(***************************************************************************)
Fold(w, S) ==
  CHOOSE iter : iter = [s \in SUBSET S |->
                          IF s = {} THEN 0
                          ELSE w[CHOOSE x \in s : TRUE] + iter[s \ {CHOOSE x \in s : TRUE}]]

\* What the library folds is Fold.
LEMMA FoldIsLibrary ==
  ASSUME NEW w, NEW S
  PROVE  MapThenSumSet(LAMBDA i : w[i], S) = Fold(w, S)[S]
  BY DEF MapThenSumSet, MapThenFoldSet, Fold

\* The recursive function that the library chooses exists: it is MaskedSum.
LEMMA FoldRecurs ==
  ASSUME NEW n \in Nat, NEW w, \A i \in 1..n : w[i] \in Nat
  PROVE  \A s \in SUBSET (1..n) :
           Fold(w, 1..n)[s] = IF s = {} THEN 0
                              ELSE w[CHOOSE x \in s : TRUE]
                                     + Fold(w, 1..n)[s \ {CHOOSE x \in s : TRUE}]
<1> DEFINE F == [s \in SUBSET (1..n) |-> MaskedSum(w, n, s)]
           Recurs(f) == f = [s \in SUBSET (1..n) |->
                               IF s = {} THEN 0
                               ELSE w[CHOOSE x \in s : TRUE] + f[s \ {CHOOSE x \in s : TRUE}]]
<1>1. ASSUME NEW s \in SUBSET (1..n)
      PROVE  F[s] = IF s = {} THEN 0
                    ELSE w[CHOOSE x \in s : TRUE] + F[s \ {CHOOSE x \in s : TRUE}]
  <2>1. CASE s = {}
    BY <2>1, MaskedEmpty
  <2>2. CASE s # {}
    <3>1. PICK x : x = CHOOSE y \in s : TRUE
      OBVIOUS
    <3>2. x \in s
      BY <2>2, <3>1
    <3>3. MaskedSum(w, n, s) = w[x] + MaskedSum(w, n, s \ {x})
      BY <3>2, MaskedRemove
    <3>4. F[s] = MaskedSum(w, n, s) /\ F[s \ {x}] = MaskedSum(w, n, s \ {x})
      OBVIOUS
    <3> QED
      BY <2>2, <3>1, <3>3, <3>4
  <2> QED
    BY <2>1, <2>2
<1>2. F = [s \in SUBSET (1..n) |-> F[s]]
  OBVIOUS
<1> HIDE DEF F
<1>3. Recurs(F)
  BY <1>1, <1>2
<1> HIDE DEF Recurs
<1> DEFINE c == CHOOSE f : Recurs(f)
<1>4. Recurs(c)
  BY <1>3
<1>5. Fold(w, 1..n) = c
  BY DEF Fold, Recurs
<1> HIDE DEF c
<1> USE DEF Recurs
<1>6. \A s \in SUBSET (1..n) :
        c[s] = IF s = {} THEN 0
               ELSE w[CHOOSE x \in s : TRUE] + c[s \ {CHOOSE x \in s : TRUE}]
  BY <1>4
<1> QED
  BY <1>5, <1>6

\* By induction over the number of members.
LEMMA FoldIsMasked ==
  ASSUME NEW n \in Nat, NEW w, \A i \in 1..n : w[i] \in Nat
  PROVE  \A s \in SUBSET (1..n) : Fold(w, 1..n)[s] = MaskedSum(w, n, s)
<1> DEFINE F == Fold(w, 1..n)
           T == {Cardinality(s) : s \in {r \in SUBSET (1..n) : F[r] # MaskedSum(w, n, r)}}
<1>1. \A s \in SUBSET (1..n) : IsFiniteSet(s) /\ Cardinality(s) \in Nat
  <2>1. IsFiniteSet(1..n)
    BY FS_Interval
  <2> SUFFICES ASSUME NEW s \in SUBSET (1..n)
               PROVE  IsFiniteSet(s) /\ Cardinality(s) \in Nat
    OBVIOUS
  <2>2. IsFiniteSet(s)
    BY <2>1, FS_Subset
  <2> QED
    BY <2>2, FS_CardinalityType
<1>2. \A s \in SUBSET (1..n) :
        F[s] = IF s = {} THEN 0
               ELSE w[CHOOSE x \in s : TRUE] + F[s \ {CHOOSE x \in s : TRUE}]
  BY FoldRecurs
<1> HIDE DEF F
<1>3. ASSUME T # {} PROVE FALSE
  <2>1. PICK k \in T : \A j \in T : k <= j
    <3>1. T \in SUBSET Nat
      BY <1>1
    <3> HIDE DEF T
    <3> QED
      BY <1>3, <3>1, Smallest
  <2>2. PICK s \in SUBSET (1..n) : F[s] # MaskedSum(w, n, s) /\ Cardinality(s) = k
    BY <2>1
  <2>3. F[s] = IF s = {} THEN 0
               ELSE w[CHOOSE x \in s : TRUE] + F[s \ {CHOOSE x \in s : TRUE}]
    BY <1>2
  <2>4. CASE s = {}
    BY <2>2, <2>3, <2>4, MaskedEmpty
  <2>5. CASE s # {}
    <3>1. PICK x : x = CHOOSE y \in s : TRUE
      OBVIOUS
    <3>2. x \in s
      BY <2>5, <3>1
    <3>3. MaskedSum(w, n, s) = w[x] + MaskedSum(w, n, s \ {x})
      BY <3>2, MaskedRemove
    <3>4. F[s] = w[x] + F[s \ {x}]
      BY <2>3, <2>5, <3>1
    <3>5. Cardinality(s \ {x}) = k - 1 /\ k \in Nat /\ s \ {x} \in SUBSET (1..n)
      BY <1>1, <2>2, <3>2, FS_RemoveElement
    <3>6. F[s \ {x}] # MaskedSum(w, n, s \ {x})
      BY <2>2, <3>3, <3>4
    <3>7. k - 1 \in T
      BY <3>5, <3>6
    <3> QED
      BY <2>1, <3>5, <3>7
  <2> QED
    BY <2>4, <2>5
<1> QED
  BY <1>3 DEF F

\* The library's sum of the weights is the last of the running sums.
LEMMA SumIsRunning ==
  ASSUME NEW n \in Nat, NEW w, \A i \in 1..n : w[i] \in Nat, NEW g, Running(w, n, g)
  PROVE  MapThenSumSet(LAMBDA i : w[i], 1..n) = g[n]
<1>1. MapThenSumSet(LAMBDA i : w[i], 1..n) = MaskedSum(w, n, 1..n)
  BY FoldIsLibrary, FoldIsMasked
<1>2. PICK f : Running(Masked(w, n, 1..n), n, f) /\ MaskedSum(w, n, 1..n) = f[n]
  BY MaskedRuns
<1>3. \A i \in 1..n : Masked(w, n, 1..n)[i] = w[i]
  BY DEF Masked
<1>4. Running(w, n, f)
  BY <1>2, <1>3, RunningSame
<1>5. f[n] = g[n]
  BY <1>4, RunningUnique
<1> QED
  BY <1>1, <1>2, <1>5

-----------------------------------------------------------------------------
(***************************************************************************)
(* The first n entries of a have t bytes.                                  *)
(***************************************************************************)
Sizes(a, n) == [i \in 1..n |-> a[i].size]

Counted(a, n, t) == \E g : Running(Sizes(a, n), n, g) /\ g[n] = t

LEMMA CountedNone == ASSUME NEW a PROVE Counted(a, 0, 0)
<1> DEFINE g == [i \in 0..0 |-> 0]
<1>1. Running(Sizes(a, 0), 0, g) /\ g[0] = 0
  BY RunningZero
<1> QED
  BY <1>1 DEF Counted

LEMMA CountedSame ==
  ASSUME NEW n \in Nat, NEW a, NEW b, NEW t, Counted(a, n, t),
         \A i \in 1..n : a[i].size = b[i].size
  PROVE  Counted(b, n, t)
<1>1. PICK g : Running(Sizes(a, n), n, g) /\ g[n] = t
  BY DEF Counted
<1>2. \A i \in 1..n : Sizes(a, n)[i] = Sizes(b, n)[i]
  BY DEF Sizes
<1>3. Running(Sizes(b, n), n, g)
  BY <1>1, <1>2, RunningSame
<1> QED
  BY <1>1, <1>3 DEF Counted

\* One entry more.
LEMMA CountedOn ==
  ASSUME NEW n \in Nat, NEW a, NEW t, Counted(a, n, t), a[n + 1].size \in Nat
  PROVE  Counted(a, n + 1, t + a[n + 1].size)
<1>1. PICK g : Running(Sizes(a, n), n, g) /\ g[n] = t
  BY DEF Counted
<1>2. /\ \A i \in 1..n : Sizes(a, n)[i] = Sizes(a, n + 1)[i]
      /\ Sizes(a, n + 1)[n + 1] = a[n + 1].size
  BY DEF Sizes
<1>3. Running(Sizes(a, n + 1), n, g)
  BY <1>1, <1>2, RunningSame
<1>4. PICK h : /\ Running(Sizes(a, n + 1), n + 1, h)
               /\ h[n + 1] = g[n] + Sizes(a, n + 1)[n + 1]
  BY <1>2, <1>3, RunningOn
<1> QED
  BY <1>1, <1>2, <1>4 DEF Counted

\* There is one total.
LEMMA CountedOnce ==
  ASSUME NEW n \in Nat, NEW a, NEW t, NEW u, Counted(a, n, t), Counted(a, n, u)
  PROVE  t = u
  BY RunningUnique DEF Counted

\* What they come to is the library's sum.
SumOf(a, s) == MapThenSumSet(LAMBDA i : a[i].size, s)

LEMMA CountedIsSum ==
  ASSUME NEW n \in Nat, NEW a, \A i \in 1..n : a[i].size \in Nat, NEW t, Counted(a, n, t)
  PROVE  SumOf(a, 1..n) = t
<1>1. PICK g : Running(Sizes(a, n), n, g) /\ g[n] = t
  BY DEF Counted
<1>2. \A i \in 1..n : Sizes(a, n)[i] \in Nat
  BY DEF Sizes
<1>3. MapThenSumSet(LAMBDA i : Sizes(a, n)[i], 1..n) = t
  BY <1>1, <1>2, SumIsRunning
<1>4. SumOf(a, 1..n) = MapThenSumSet(LAMBDA i : Sizes(a, n)[i], 1..n)
  BY DEF SumOf, MapThenSumSet, MapThenFoldSet, Sizes
<1> QED
  BY <1>3, <1>4

\* The entries of an archive have sizes.
LEMMA EntrySize ==
  ASSUME NEW a \in Seq(AnyEntry), NEW i \in 1..Len(a)
  PROVE  a[i].size \in Nat
<1>1. a[i] \in AnyEntry
  BY ElementOfSeq
<1> QED
  BY <1>1 DEF AnyEntry

-----------------------------------------------------------------------------
(***************************************************************************)
(* The total of archive_create is that of the entries it has added, also   *)
(* of files that change meanwhile; and that of the archive, if none did.   *)
(***************************************************************************)
PackTotals ==
  /\ (cpc = "walk" /\ dropped = {}) => Counted(entries, Len(entries), csize)
  /\ (cpc = "returned" /\ cres = "true" /\ dropped = {} /\ ~ dirty)
       => archive = NoArchive \/ Counted(archive, Len(archive), csize)

(***************************************************************************)
(* That of archive_extract is the sum over the entries behind it, whatever *)
(* archive it has opened: also one made with an ignored failure.           *)
(***************************************************************************)
UnpackTotals ==
  /\ xi \in Nat \ {0} /\ xsize \in Nat /\ xbase \in Nat
  /\ xpc \in {"entry", "read"} => archive # NoArchive
  /\ XP!OnlyMetaMissed =>
       /\ xpc = "entry" => /\ xi <= Len(archive) + 1
                           /\ Counted(archive, xi - 1, xsize - xbase)
       /\ xpc = "read" => xi <= Len(archive) /\ Counted(archive, xi, xsize - xbase)
       /\ (xpc = "returned" /\ xres = "true")
            => archive # NoArchive /\ Counted(archive, Len(archive), xsize - xbase)

TotalsInv == PackTotals /\ UnpackTotals

LEMMA InitTotals == RoundTripInit => TotalsInv
  BY DEF RoundTripInit, Init, X!Init, TotalsInv, PackTotals, UnpackTotals

\* One more entry, of size s, at the end.
LEMMA AppendCounted ==
  ASSUME NEW a \in Seq(AnyEntry), NEW t, Counted(a, Len(a), t),
         NEW n \in Nodes, NEW s \in Nat, NEW m \in Seq(Nat)
  PROVE  LET b == Append(a, Entry(n, s, m)) IN Counted(b, Len(b), t + s)
<1> DEFINE b == Append(a, Entry(n, s, m))
<1>1. Entry(n, s, m) \in AnyEntry /\ Entry(n, s, m).size = s
  BY DEF Entry, AnyEntry
<1>2. /\ Len(a) \in Nat /\ Len(b) = Len(a) + 1
      /\ \A i \in 1..Len(a) : b[i] = a[i]
      /\ b[Len(b)] = Entry(n, s, m)
  BY <1>1, AppendEntry
<1> HIDE DEF b
<1>3. Counted(b, Len(a), t)
  BY <1>2, CountedSame
<1>4. Counted(b, Len(a) + 1, t + b[Len(a) + 1].size)
  BY <1>1, <1>2, <1>3, CountedOn
<1>5. Counted(b, Len(b), t + s)
  BY <1>1, <1>2, <1>4
<1> QED
  BY <1>5 DEF b

LEMMA VisitTotals ==
  ASSUME CreateInv, PackTotals, NEW n \in Nodes, AddDir(n) \/ AddFile(n) \/ SkipFile(n)
  PROVE  PackTotals'
<1>1. cpc = "walk" /\ cpc' = "walk" /\ entries \in Seq(AnyEntry) /\ csize \in Nat
  BY DEF AddDir, AddFile, SkipFile, Visit, CreateInv, IInv, TypeOK
<1> SUFFICES ASSUME dropped' = {} PROVE Counted(entries', Len(entries'), csize')
  BY <1>1 DEF PackTotals
<1>2. ASSUME NEW kind, Drop(kind) PROVE FALSE
  BY <1>2 DEF Drop
<1>3. CASE AddDir(n)
  <2>1. /\ dropped = {} /\ csize' = csize + 0
        /\ entries' = Append(entries, Entry(n, 0, <<>>))
    BY <1>1, <1>2, <1>3 DEF AddDir, Keep
  <2> QED
    BY <1>1, <2>1, EmptyType, AppendCounted DEF PackTotals
<1>4. CASE AddFile(n)
  <2>1. /\ n \in Files /\ disk[n] \in Nat
        /\ StoredMeta(Meta[n]) \in Seq(Nat)
    BY <1>4, CreateAssumption, StoredMetaType DEF AddFile, CreateInv, IInv, TypeOK
  <2>2. /\ dropped = {} /\ csize' = csize + disk[n]
        /\ entries' = Append(entries, Entry(n, disk[n], StoredMeta(Meta[n])))
    BY <1>2, <1>4 DEF AddFile, Keep, FilledMeta
  <2> QED
    BY <1>1, <2>1, <2>2, AppendCounted DEF PackTotals
<1>5. CASE SkipFile(n)
  BY <1>2, <1>5 DEF SkipFile
<1> QED
  BY <1>3, <1>4, <1>5

LEMMA CloseTotals ==
  ASSUME CreateInv, PackTotals, Close
  PROVE  PackTotals'
<1>1. cpc = "walk" /\ cpc' = "returned" /\ UNCHANGED <<entries, csize, disk, dirty>>
  BY DEF Close, Return, diskVars
<1> SUFFICES ASSUME dropped' = {}, ~ dirty
             PROVE  archive' = NoArchive \/ Counted(archive', Len(archive'), csize)
  BY <1>1 DEF PackTotals
<1>2. /\ TypeOK /\ SizesCurrent(entries) /\ archive = NoArchive
  BY <1>1 DEF CreateInv, PackingInv, IInv, WalkInv
<1>3. Keep /\ Counted(entries, Len(entries), csize)
  BY <1>1 DEF Close, Keep, Drop, PackTotals
<1>4. CASE archive' = archive
  BY <1>2, <1>4
<1>5. ASSUME NEW atAdd \in BOOLEAN, archive' = Stored(atAdd)
      PROVE  Counted(archive', Len(archive'), csize)
  <2>1. archive' \in Seq(AnyEntry) /\ Len(archive') = Len(entries) /\ Len(entries) \in Nat
    BY <1>2, <1>5, StoredType, LenProperties DEF TypeOK
  <2>2. ASSUME NEW i \in 1..Len(entries) PROVE entries[i].size = archive'[i].size
    <3>1. DOMAIN entries = 1..Len(entries)
      BY <1>2, LenProperties DEF TypeOK
    <3>2. CASE entries[i].node \in Dirs
      BY <1>5, <3>1, <3>2 DEF Stored
    <3>3. CASE entries[i].node \in Files
      BY <1>2, <1>5, <3>3, StoredSame DEF SizesCurrent
    <3>4. entries[i] \in AnyEntry
      BY <1>2, <3>1, ElementOfSeq DEF TypeOK
    <3> QED
      BY <3>2, <3>3, <3>4 DEF AnyEntry, Nodes
  <2> QED
    BY <1>3, <2>1, <2>2, CountedSame
<1>6. archive' = archive \/ \E atAdd \in BOOLEAN : archive' = Stored(atAdd)
  <2>1. ~ Drop("close")
    BY DEF Drop
  <2> QED
    BY <2>1 DEF Close
<1> QED
  BY <1>4, <1>5, <1>6

LEMMA CreateTotals == CreateInv /\ PackTotals /\ [Next]_vars => PackTotals'
<1> SUFFICES ASSUME CreateInv, PackTotals, [Next]_vars PROVE PackTotals'
  OBVIOUS
<1>1. CASE OpenFails
  BY <1>1 DEF OpenFails, Return, PackTotals
<1>2. CASE Open
  <2>1. /\ entries' = <<>> /\ Len(entries') = 0
        /\ \/ cpc' = "walk" /\ csize' = 0
           \/ cpc' = "returned" /\ cres' = "false"
    BY <1>2, EmptySeq DEF Open, Begin, Return
  <2> QED
    BY <2>1, CountedNone DEF PackTotals
<1>3. CASE \E n \in Nodes : AddDir(n) \/ AddFile(n) \/ SkipFile(n)
  BY <1>3, VisitTotals
<1>4. CASE LeaveDir
  BY <1>4 DEF LeaveDir, PackTotals, diskVars
<1>5. CASE Close
  BY <1>5, CloseTotals
<1>6. CASE Throw
  BY <1>6 DEF Throw, Return, PackTotals
<1>7. CASE \E f \in Files : Resize(f)
  BY <1>7 DEF Resize, PackTotals
<1>8. CASE OtherCloses
  BY <1>8, RoundTripAssumption DEF OtherCloses
<1>9. CASE UNCHANGED vars
  BY <1>9 DEF vars, createVars, walkVars, diskVars, PackTotals
<1> QED
  BY <1>1, <1>2, <1>3, <1>4, <1>5, <1>6, <1>7, <1>8, <1>9 DEF Next, Create, Walk

-----------------------------------------------------------------------------
\* The entry that a step counts.
LEMMA CountHere ==
  ASSUME CreateInv, UnpackTotals, XP!MoreEntries, XP!CountEntry
  PROVE  /\ xsize' \in Nat
         /\ XP!OnlyMetaMissed => Counted(archive, xi, xsize' - xbase)
<1>1. archive \in Seq(AnyEntry) /\ xi \in 1..Len(archive) /\ xpc = "entry"
  <2>1. archive \in Seq(AnyEntry)
    BY DEF XP!MoreEntries, CreateInv, IInv, TypeOK, UnpackTotals
  <2>2. Len(archive) \in Nat
    BY <2>1, LenProperties
  <2> QED
    BY <2>1, <2>2 DEF XP!MoreEntries, UnpackTotals
<1>2. archive[xi].size \in Nat
  BY <1>1, EntrySize
<1>3. xsize' = xsize + archive[xi].size /\ xsize \in Nat /\ xbase \in Nat
  BY DEF XP!CountEntry, XP!current, UnpackTotals
<1>4. ASSUME XP!OnlyMetaMissed PROVE Counted(archive, xi, xsize' - xbase)
  <2>1. PICK k \in Nat : k = xi - 1 /\ xi = k + 1
    BY <1>1
  <2>2. Counted(archive, k, xsize - xbase)
    BY <1>1, <1>4, <2>1 DEF UnpackTotals
  <2>3. Counted(archive, k + 1, xsize - xbase + archive[k + 1].size)
    BY <1>2, <2>1, <2>2, CountedOn
  <2>4. xsize - xbase + archive[k + 1].size = xsize' - xbase
    BY <1>2, <1>3, <2>1
  <2> QED
    BY <2>1, <2>3, <2>4
<1> QED
  BY <1>2, <1>3, <1>4

LEMMA ExtractTotals ==
  ASSUME CreateInv, UnpackTotals, X!Next
  PROVE  UnpackTotals'
<1> USE DEF XP!OnlyMetaMissed
<1>1. XP!Next /\ archive' = archive
  BY SameStep
<1>2. xi \in Nat \ {0} /\ xi - 1 \in Nat /\ (xi + 1) - 1 = xi /\ xsize \in Nat /\ xbase \in Nat
  BY DEF UnpackTotals
<1>3. archive # NoArchive => Len(archive) \in Nat
  BY LenProperties DEF CreateInv, IInv, TypeOK
<1>4. CASE XP!Open \/ XP!OpenFails
  <2>1. xi' = 1 /\ xsize' = xsize /\ xbase' = xsize
    BY <1>4 DEF XP!Open, XP!OpenFails, XP!Begin
  <2>2. xi' - 1 = 0 /\ xsize' - xbase' = 0 /\ Counted(archive, 0, 0)
    BY <1>2, <2>1, CountedNone
  <2> QED
    BY <1>1, <1>2, <1>3, <1>4, <2>1, <2>2
    DEF XP!Open, XP!OpenFails, XP!Return, UnpackTotals
<1>5. CASE XP!SkipEntry
  <2>1. ~ XP!OnlyMetaMissed' /\ xi' = xi + 1 /\ UNCHANGED <<xsize, xbase>> /\ xpc = "entry"
    BY <1>5 DEF XP!SkipEntry, XP!MoreEntries, XP!Miss, XP!NextEntry, XP!callVars
  <2> QED
    BY <1>1, <1>2, <2>1 DEF UnpackTotals
<1>6. CASE XP!ExtractDir
  <2>1. /\ xbase' = xbase /\ missed' = missed /\ XP!MoreEntries
        /\ xsize' \in Nat
        /\ XP!OnlyMetaMissed => Counted(archive, xi, xsize' - xbase)
    BY <1>6, CountHere DEF XP!ExtractDir, XP!callVars, XP!faultVars, XP!Report
  <2>2. \/ xpc' = "entry" /\ xi' = xi + 1
        \/ xpc' = "returned" /\ xres' = "false" /\ xi' = xi
    BY <1>6 DEF XP!ExtractDir, XP!NextEntry, XP!Return
  <2> QED
    BY <1>1, <1>2, <1>3, <2>1, <2>2 DEF UnpackTotals, XP!MoreEntries
<1>7. CASE XP!FailDir \/ XP!FailFile
  <2>1. /\ xbase' = xbase /\ XP!MoreEntries /\ xsize' \in Nat
        /\ xpc' = "returned" /\ xres' = "false" /\ xi' = xi
    BY <1>7, CountHere DEF XP!FailDir, XP!FailFile, XP!Return, XP!callVars
  <2> QED
    BY <1>2, <2>1 DEF UnpackTotals
<1>8. CASE XP!OpenFile
  <2>1. /\ xbase' = xbase /\ XP!MoreEntries /\ xi' = xi
        /\ XP!OnlyMetaMissed' = XP!OnlyMetaMissed
        /\ xsize' \in Nat
        /\ XP!OnlyMetaMissed => Counted(archive, xi, xsize' - xbase)
        /\ xpc' = "read"
    BY <1>8, CountHere
    DEF XP!OpenFile, XP!LookUpMeta, XP!Miss, XP!OnlyMetaMissed, XP!callVars, XP!faultVars
  <2> QED
    BY <1>1, <1>2, <2>1 DEF UnpackTotals, XP!MoreEntries
<1>9. CASE XP!ReadChunk
  <2>1. /\ UNCHANGED <<xi, xsize, xbase, missed>> /\ xpc = "read"
        /\ \/ xpc' = "read"
           \/ xpc' = "returned" /\ xres' = "false"
    BY <1>9 DEF XP!ReadChunk, XP!Report, XP!Return, XP!callVars, XP!faultVars
  <2> QED
    BY <1>1, <2>1 DEF UnpackTotals
<1>10. CASE XP!EndOfFile
  <2>1. /\ UNCHANGED <<xsize, xbase>> /\ xi' = xi + 1 /\ xpc = "read" /\ xpc' = "entry"
        /\ XP!OnlyMetaMissed' => XP!OnlyMetaMissed
    BY <1>10 DEF XP!EndOfFile, XP!NextEntry, XP!Miss, XP!callVars, XP!faultVars
  <2> QED
    BY <1>1, <1>2, <1>3, <2>1 DEF UnpackTotals
<1>11. CASE XP!ReadFails
  BY <1>11 DEF XP!ReadFails, XP!Return, XP!callVars, UnpackTotals
<1>12. CASE XP!Finish
  <2>1. /\ UNCHANGED <<xi, xsize, xbase, missed>> /\ xpc = "entry"
        /\ xpc' = "returned" /\ xi > Len(archive)
    BY <1>12 DEF XP!Finish, XP!Return, XP!callVars, XP!faultVars
  <2>2. archive # NoArchive /\ (XP!OnlyMetaMissed => Len(archive) = xi - 1)
    BY <1>2, <1>3, <2>1 DEF UnpackTotals
  <2> QED
    BY <1>1, <2>1, <2>2 DEF UnpackTotals
<1>13. CASE XP!Crash
  BY <1>13 DEF XP!Crash, UnpackTotals
<1> QED
  BY <1>1, <1>4, <1>5, <1>6, <1>7, <1>8, <1>9, <1>10, <1>11, <1>12, <1>13
  DEF XP!Next, XP!Extract, XP!Step

\* An archive that appears is not one that has been opened.
LEMMA AppearTotals ==
  ASSUME CreateInv, UnpackTotals, [Next]_vars, UNCHANGED extractVars
  PROVE  UnpackTotals'
<1> USE DEF XP!OnlyMetaMissed
<1>1. archive' = archive \/ archive = NoArchive
  BY ArchiveAppears
<1>2. CASE archive' = archive
  BY <1>2 DEF UnpackTotals, extractVars
<1>3. CASE archive = NoArchive
  <2>1. ~ xpc \in {"entry", "read"} /\ ~ (XP!OnlyMetaMissed /\ xpc = "returned" /\ xres = "true")
    BY <1>3 DEF UnpackTotals
  <2> QED
    BY <2>1 DEF UnpackTotals, extractVars
<1> QED
  BY <1>1, <1>2, <1>3

LEMMA NextTotals == RoundTripInv /\ TotalsInv /\ [RoundTripNext]_roundTripVars => TotalsInv'
<1> SUFFICES ASSUME RoundTripInv, TotalsInv, [RoundTripNext]_roundTripVars PROVE TotalsInv'
  OBVIOUS
<1> USE DEF RoundTripInv, TotalsInv
<1>1. CASE [Next]_vars /\ UNCHANGED extractVars
  BY <1>1, CreateTotals, AppearTotals
<1>2. CASE X!Next /\ UNCHANGED createVars
  <2>1. UNCHANGED vars
    BY <1>2, SameStep DEF vars
  <2> QED  BY <1>2, <2>1, CreateTotals, ExtractTotals
<1> QED  BY <1>1, <1>2 DEF RoundTripNext, roundTripVars

LEMMA TotalsHold == RoundTripSpec => [](RoundTripInv /\ TotalsInv)
  BY InitRoundTrip, NextRoundTrip, InitTotals, NextTotals, PTL DEF RoundTripSpec

(***************************************************************************)
(* Both sides arrive at the same number of bytes, for every tree and       *)
(* however they interleave: if both calls returned true, nothing was       *)
(* ignored and the source did not change.                                  *)
(***************************************************************************)
THEOREM TotalsAreEqual == RoundTripSpec => []TotalsAgree
<1>1. RoundTripInv /\ TotalsInv => TotalsAgree
  <2> SUFFICES ASSUME RoundTripInv, TotalsInv, BothTrue, Undisturbed
               PROVE  xsize - xbase = csize
    BY DEF TotalsAgree
  <2>1. archive # NoArchive /\ Counted(archive, Len(archive), xsize - xbase)
    BY DEF TotalsInv, UnpackTotals, XP!OnlyMetaMissed, BothTrue, Undisturbed, X!OnlyMetaMissed
  <2>2. Counted(archive, Len(archive), csize)
    BY <2>1 DEF TotalsInv, PackTotals, BothTrue, Undisturbed
  <2>3. Len(archive) \in Nat
    BY <2>1, LenProperties DEF RoundTripInv, CreateInv, IInv, TypeOK
  <2> QED
    BY <2>1, <2>2, <2>3, CountedOnce
<1> QED
  BY <1>1, TotalsHold, PTL

(***************************************************************************)
(* archive_extract adds the size of each entry once, whatever archive it   *)
(* was given: if it returned true and has not missed anything.             *)
(***************************************************************************)
THEOREM TotalIsSum == RoundTripSpec => []TotalIsSumOfEntries
<1>1. RoundTripInv /\ TotalsInv => TotalIsSumOfEntries
  <2> SUFFICES ASSUME RoundTripInv, TotalsInv,
                      xpc = "returned", xres = "true", XP!OnlyMetaMissed
               PROVE  xsize - xbase = MapThenSumSet(LAMBDA i : archive[i].size, DOMAIN archive)
    BY DEF TotalIsSumOfEntries, X!OnlyMetaMissed, XP!OnlyMetaMissed
  <2>1. archive # NoArchive /\ Counted(archive, Len(archive), xsize - xbase)
    BY DEF TotalsInv, UnpackTotals
  <2>2. archive \in Seq(AnyEntry)
    BY <2>1 DEF RoundTripInv, CreateInv, IInv, TypeOK
  <2>3. Len(archive) \in Nat /\ DOMAIN archive = 1..Len(archive)
    BY <2>2, LenProperties
  <2>4. \A i \in 1..Len(archive) : archive[i].size \in Nat
    BY <2>2, EntrySize
  <2>5. SumOf(archive, DOMAIN archive) = xsize - xbase
    BY <2>1, <2>3, <2>4, CountedIsSum
  <2> QED
    BY <2>5 DEF SumOf
<1> QED
  BY <1>1, TotalsHold, PTL

=============================================================================
