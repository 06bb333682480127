------------------------- MODULE ArchiveExtractProofs -------------------------
(***************************************************************************)
(* The safety properties of ArchiveExtract, proved for every tree, every   *)
(* archive that archive_create makes of it and every bound.                *)
(***************************************************************************)
EXTENDS ArchiveExtract, SequenceTheorems, TLAPS

LEMMA EntryOfArchive ==
  ASSUME WellFormed(archive), NEW i \in 1..Len(archive)
  PROVE  /\ archive[i].node \in Nodes
         /\ archive[i].size \in Nat
         /\ archive[i].meta \in Seq(Nat)
<1>1. archive[i] \in AnyEntry
  BY ElementOfSeq DEF WellFormed
<1> QED
  BY <1>1 DEF AnyEntry

LEMMA ArchiveLen ==
  ASSUME WellFormed(archive)
  PROVE  Len(archive) \in Nat
  BY LenProperties DEF WellFormed

LEMMA InitType == Init => TypeOK
<1> SUFFICES ASSUME Init PROVE TypeOK
  OBVIOUS
<1>1. xmeta \in [Files -> Seq(Nat)]
  BY EmptySeq DEF Init
<1>2. data \in [Files -> Nat \cup {Absent}]
  BY DEF Init
<1>3. archive = NoArchive \/ WellFormed(archive)
  BY ExtractAssumption DEF Init
<1> QED
  BY <1>1, <1>2, <1>3 DEF Init, TypeOK


(***************************************************************************)
(* The inductive invariant.                                                *)
(***************************************************************************)
IInv == TypeOK /\ CallInv

LEMMA InitIInv == Init => IInv
  BY InitType DEF IInv, Init, CallInv, Active

\* The entry a call is at, and what distinguishes it from those behind it.
LEMMA Current ==
  ASSUME IInv, Active, xi <= Len(archive)
  PROVE  /\ WellFormed(archive) /\ archive # NoArchive
         /\ Len(archive) \in Nat /\ xi \in 1..Len(archive)
         /\ current.node \in Nodes /\ current.size \in Nat /\ current.meta \in Seq(Nat)
         /\ \A j \in Behind : j \in 1..Len(archive) /\ archive[j].node # current.node
         /\ 1..xi = Behind \cup {xi}
<1>1. WellFormed(archive) /\ archive # NoArchive /\ xi \in Nat \ {0}
  BY DEF IInv, TypeOK, CallInv
<1>2. Len(archive) \in Nat /\ xi \in 1..Len(archive)
  BY <1>1, ArchiveLen
<1>3. current.node \in Nodes /\ current.size \in Nat /\ current.meta \in Seq(Nat)
  BY <1>1, <1>2, EntryOfArchive DEF current
<1>4. 1..xi = Behind \cup {xi}
  BY <1>1 DEF Behind
<1>5. ASSUME NEW j \in Behind
      PROVE  j \in 1..Len(archive) /\ archive[j].node # current.node
  <2>1. j \in 1..Len(archive) /\ j # xi
    BY <1>1, <1>2 DEF Behind
  <2> QED
    BY <1>1, <1>2, <2>1 DEF WellFormed, NamesDistinct, current
<1> QED
  BY <1>1, <1>2, <1>3, <1>4, <1>5

(***************************************************************************)
(* Steps that end a call, whatever they leave in the destination.          *)
(***************************************************************************)
LEMMA EndPreserves ==
  ASSUME IInv, xpc' \in {"idle", "returned"}, xres' \in {"none", "true", "false"},
         UNCHANGED <<xi, fsz, xbase, inherited, attempts, archive>>,
         xsize' \in Nat,
         dirs \subseteq dirs', dirs' \subseteq Dirs,
         data' \in [Files -> Nat \cup {Absent}], xmeta' = xmeta,
         reported' \subseteq ReportedKinds, missed' \subseteq MissedKinds
  PROVE  IInv'
  BY DEF IInv, TypeOK, CallInv, Active

\* A short file.
LEMMA PartType ==
  ASSUME IInv, NEW w \in Nat, KeepPart(w)
  PROVE  data' \in [Files -> Nat \cup {Absent}]
<1>1. PICK kept \in 0..w : data' = [data EXCEPT ![current.node] = kept]
  BY DEF KeepPart
<1> DEFINE Counts == Nat \cup {Absent}
<1>2. kept \in Counts
  OBVIOUS
<1>3. data \in [Files -> Counts]
  BY DEF IInv, TypeOK
<1> HIDE DEF Counts
<1>4. data' \in [Files -> Counts]
  BY <1>1, <1>2, <1>3
<1> QED
  BY <1>4 DEF Counts

LEMMA ReportType ==
  ASSUME TypeOK, NEW k \in ReportedKinds, Report(k)
  PROVE  reported' \subseteq ReportedKinds /\ missed' = missed
  BY DEF TypeOK, Report

LEMMA BeginPreserves ==
  ASSUME IInv, Open \/ OpenFails
  PROVE  IInv'
<1>1. /\ attempts' = attempts + 1 /\ xbase' = xsize /\ inherited' = dirs /\ reported' = {}
      /\ xi' = 1 /\ fsz' = 0 /\ UNCHANGED <<xsize, destVars, archive>>
  BY DEF Open, OpenFails, Begin
<1>2. /\ xpc' \in {"entry", "returned"} /\ xres' \in {"none", "true", "false"}
      /\ missed' \subseteq MissedKinds
      /\ xpc' = "entry" => archive # NoArchive
  BY DEF Open, OpenFails, Return, MissedKinds
<1>3. TypeOK'
  BY <1>1, <1>2 DEF IInv, TypeOK, destVars
<1>4. Behind' = {}
  BY <1>1 DEF Behind
<1>5. xpc' = "entry" => xi' <= Len(archive') + 1
  BY <1>1, <1>2, ArchiveLen DEF IInv, TypeOK
<1> QED
  BY <1>1, <1>2, <1>3, <1>4, <1>5 DEF IInv, CallInv, Active, destVars

(***************************************************************************)
(* Steps that go on to the next entry: SkipEntry, ExtractDir, EndOfFile.   *)
(***************************************************************************)
LEMMA AdvancePreserves ==
  ASSUME IInv, Active, xi <= Len(archive), NextEntry,
         NEW e, e = current,
         UNCHANGED <<xres, fsz, xmeta, callVars, archive>>,
         xsize' \in Nat,
         dirs \subseteq dirs', dirs' \subseteq dirs \cup {current.node}, dirs' \subseteq Dirs,
         data' \in [Files -> Nat \cup {Absent}],
         reported' \subseteq ReportedKinds, missed' \subseteq MissedKinds, missed \subseteq missed',
         "stat" \notin missed' => current.node \in dirs' \cup Files,
         OnlyMetaMissed' => /\ data' = data
                            /\ Extracted(e)'
                            /\ current.node \notin inherited
  PROVE  IInv'
<1>1. /\ WellFormed(archive) /\ archive # NoArchive
      /\ Len(archive) \in Nat /\ xi \in 1..Len(archive)
      /\ current.node \in Nodes
  BY Current
<1>2. xi' = xi + 1 /\ xpc' = "entry" /\ UNCHANGED <<xbase, inherited, attempts>>
  BY DEF NextEntry, callVars
<1>3. TypeOK'
  BY <1>1, <1>2 DEF IInv, TypeOK
<1>4. Behind' = Behind \cup {xi}
  BY <1>1, <1>2 DEF Behind
<1>5. /\ inherited' \subseteq dirs'
      /\ archive' # NoArchive
      /\ xi' <= Len(archive') + 1
  BY <1>1, <1>2 DEF IInv, CallInv
<1>6. \A d \in dirs' \ inherited' : \E j \in Behind' : archive'[j].node = d
  BY <1>2, <1>4 DEF IInv, CallInv, current
<1>7. "stat" \notin missed' => \A j \in Behind' : archive'[j].node \in dirs' \cup Files
  BY <1>4 DEF IInv, CallInv, current
<1>8. ASSUME OnlyMetaMissed', NEW j \in Behind'
      PROVE  Extracted(archive[j])' /\ archive'[j].node \notin inherited'
  <2>1. CASE j = xi
    <3>1. archive'[j] = e
      BY <1>2, <2>1 DEF current
    <3> QED
      BY <1>2, <1>8, <2>1, <3>1 DEF current, Extracted, HasMeta
  <2>2. CASE j \in Behind
    <3>1. OnlyMetaMissed
      BY <1>8 DEF OnlyMetaMissed
    <3>2. Extracted(archive[j]) /\ archive[j].node \notin inherited
      BY <2>2, <3>1 DEF IInv, CallInv
    <3> QED
      BY <1>2, <1>8, <3>2 DEF Extracted, HasMeta
  <2> QED
    BY <1>4, <2>1, <2>2
<1> QED
  BY <1>2, <1>3, <1>5, <1>6, <1>7, <1>8 DEF IInv, CallInv, Active


LEMMA SkipPreserves == IInv /\ SkipEntry => IInv'
<1> SUFFICES ASSUME IInv, SkipEntry PROVE IInv'
  OBVIOUS
<1>1. Active /\ xi <= Len(archive)
  BY DEF SkipEntry, MoreEntries, Active
<1>2. missed' = missed \cup {"stat"} /\ reported' = reported /\ ~ OnlyMetaMissed'
  BY DEF SkipEntry, Miss, OnlyMetaMissed
<1>3. /\ NextEntry
      /\ UNCHANGED <<xres, fsz, xsize, dirs, data, xmeta, callVars, archive>>
  BY DEF SkipEntry, destVars
<1> QED
  BY <1>1, <1>2, <1>3, AdvancePreserves DEF IInv, TypeOK, MissedKinds

\* The size of the entry is added to the total.
LEMMA CountType ==
  ASSUME IInv, MoreEntries, CountEntry
  PROVE  xsize' \in Nat
  BY Current DEF IInv, TypeOK, CountEntry, MoreEntries, Active

LEMMA DirPreserves == IInv /\ (ExtractDir \/ FailDir) => IInv'
<1> SUFFICES ASSUME IInv, ExtractDir \/ FailDir PROVE IInv'
  OBVIOUS
<1>1. /\ MoreEntries /\ Active /\ xi <= Len(archive) /\ current.node \in Dirs
      /\ UNCHANGED <<fsz, data, xmeta, callVars, archive>>
  BY DEF ExtractDir, FailDir, MoreEntries, Active, destVars
<1>2. xsize' \in Nat
  BY <1>1, CountType DEF ExtractDir, FailDir
<1>3. current.node \in Nodes
  BY <1>1, Current
<1>4. CASE ExtractDir
  <2>1. /\ dirs' = dirs \cup {current.node} /\ current.node \notin dirs
        /\ dirs' \subseteq Dirs
    BY <1>1, <1>4 DEF ExtractDir, CanMake, IInv, TypeOK
  <2>2. CASE NextEntry /\ UNCHANGED <<xres, faultVars>>
    <3>1. reported' = reported /\ missed' = missed /\ xres' = xres
      BY <2>2 DEF faultVars
    <3>2. PICK e : e = current
      OBVIOUS
    <3>3. Extracted(e)' /\ current.node \notin inherited
      BY <1>1, <2>1, <3>2 DEF Extracted, IInv, CallInv
    <3> QED
      BY <1>1, <1>2, <2>1, <2>2, <3>1, <3>2, <3>3, AdvancePreserves DEF IInv, TypeOK
  <2>3. CASE Report("dirCallback") /\ Return("false") /\ UNCHANGED xi
    <3>1. reported' \subseteq ReportedKinds /\ missed' = missed
      BY <2>3, ReportType DEF IInv, ReportedKinds
    <3> QED
      BY <1>1, <1>2, <2>1, <2>3, <3>1, EndPreserves DEF Return, callVars, IInv, TypeOK
  <2> QED
    BY <1>4, <2>2, <2>3 DEF ExtractDir
<1>5. CASE FailDir
  <2>1. reported' \subseteq ReportedKinds /\ missed' = missed
    BY <1>5, ReportType DEF FailDir, IInv, TypeOK, ReportedKinds, faultVars
  <2>2. UNCHANGED <<xi, dirs>> /\ Return("false")
    BY <1>5 DEF FailDir, destVars
  <2> QED
    BY <1>1, <1>2, <2>1, <2>2, EndPreserves DEF Return, callVars, IInv, TypeOK
<1> QED
  BY <1>4, <1>5

LEMMA FailFilePreserves == IInv /\ FailFile => IInv'
<1> SUFFICES ASSUME IInv, FailFile PROVE IInv'
  OBVIOUS
<1>1. xsize' \in Nat
  BY CountType DEF FailFile
<1>2. reported' \subseteq ReportedKinds /\ missed' = missed
  BY ReportType DEF FailFile, IInv, TypeOK, ReportedKinds, faultVars
<1>3. UNCHANGED <<xi, fsz, dirs, data, xmeta, xbase, inherited, attempts, archive>> /\ Return("false")
  BY DEF FailFile, destVars, callVars
<1> QED
  BY <1>1, <1>2, <1>3, EndPreserves DEF Return, IInv, TypeOK

LEMMA OpenFilePreserves == IInv /\ OpenFile => IInv'
<1> SUFFICES ASSUME IInv, OpenFile PROVE IInv'
  OBVIOUS
<1>1. /\ Active /\ xi <= Len(archive) /\ current.node \in Files
      /\ data' = [data EXCEPT ![current.node] = 0]
      /\ LookUpMeta
      /\ fsz' = 0 /\ xpc' = "read"
      /\ UNCHANGED <<xres, xi, dirs, xbase, inherited, attempts, archive>>
  BY DEF OpenFile, MoreEntries, Active, callVars
<1>2. /\ current.node \in Nodes /\ current.size \in Nat /\ current.meta \in Seq(Nat)
      /\ \A j \in Behind : archive[j].node # current.node
  BY <1>1, Current
<1>3. xsize' \in Nat
  BY CountType DEF OpenFile
<1>given. PICK given \in {current.meta, <<>>} :
        /\ xmeta' = [xmeta EXCEPT ![current.node] = given]
        /\ given = current.meta \/ "meta" \in missed'
  BY <1>1 DEF LookUpMeta, Miss
<1>faults. /\ reported' = reported /\ missed \subseteq missed'
      /\ missed' \subseteq missed \cup {"meta"}
  BY <1>1 DEF LookUpMeta, Miss, faultVars
<1>4. data' \in [Files -> Nat \cup {Absent}] /\ xmeta' \in [Files -> Seq(Nat)]
  <2>1. given \in Seq(Nat)
    BY <1>2, EmptySeq
  <2> QED
    BY <1>1, <1>2, <1>given, <2>1 DEF IInv, TypeOK
<1>5. TypeOK'
  BY <1>1, <1>3, <1>4, <1>faults DEF IInv, TypeOK, MissedKinds
<1>6. Behind' = Behind /\ current' = current
  BY <1>1 DEF Behind, current
<1>7. ASSUME OnlyMetaMissed', NEW j \in Behind'
      PROVE  Extracted(archive[j])' /\ archive'[j].node \notin inherited'
  <2>1. OnlyMetaMissed
    BY <1>7, <1>faults DEF OnlyMetaMissed
  <2>2. /\ Extracted(archive[j]) /\ archive[j].node \notin inherited
        /\ archive[j].node # current.node
    BY <1>1, <1>2, <1>6, <2>1 DEF IInv, CallInv
  <2>3. /\ data'[archive[j].node] = data[archive[j].node]
        /\ xmeta'[archive[j].node] = xmeta[archive[j].node]
    <3>1. CASE archive[j].node \in Files
      BY <1>1, <1>given, <2>2, <3>1 DEF IInv, TypeOK
    <3>2. CASE archive[j].node \notin Files
      <4>1. DOMAIN data = Files /\ DOMAIN xmeta = Files
        BY DEF IInv, TypeOK
      <4> QED
        BY <1>1, <1>given, <2>2, <3>2, <4>1
    <3> QED
      BY <3>1, <3>2
  <2> QED
    BY <1>1, <1>faults, <2>2, <2>3 DEF Extracted, HasMeta
<1>8. /\ data'[current.node] = 0 /\ xmeta'[current.node] = given
  BY <1>1, <1>given DEF IInv, TypeOK
<1>9. CallInv'
  <2>1. inherited' \subseteq dirs' /\ archive' # NoArchive /\ xi' <= Len(archive') /\ xi' <= Len(archive') + 1
    BY <1>1 DEF IInv, CallInv
  <2>2. \A d \in dirs' \ inherited' : \E j \in Behind' : archive'[j].node = d
    BY <1>1, <1>6 DEF IInv, CallInv
  <2>3. "stat" \notin missed' => \A j \in Behind' : archive'[j].node \in dirs' \cup Files
    BY <1>1, <1>6, <1>faults DEF IInv, CallInv
  <2>4. /\ (current.node)' \in Files
        /\ data'[(current.node)'] = fsz'
        /\ fsz' <= (current.size)'
        /\ HasMeta(current)'
    BY <1>1, <1>2, <1>6, <1>8, <1>given DEF HasMeta
  <2> QED
    BY <2>1, <2>2, <2>3, <2>4, <1>7 DEF CallInv
<1> QED
  BY <1>5, <1>9 DEF IInv

\* What holds while a file is being read.
LEMMA Reading ==
  ASSUME IInv, xpc = "read"
  PROVE  /\ Active /\ xi <= Len(archive)
         /\ current.node \in Files /\ current.size \in Nat /\ fsz \in Nat
         /\ data[current.node] = fsz /\ HasMeta(current)
         /\ \A j \in Behind : archive[j].node # current.node
<1>1. Active /\ xi <= Len(archive)
  BY DEF IInv, CallInv, Active
<1> QED
  BY <1>1, Current DEF IInv, TypeOK, CallInv

LEMMA ReadChunkPreserves == IInv /\ ReadChunk => IInv'
<1> SUFFICES ASSUME IInv, ReadChunk PROVE IInv'
  OBVIOUS
<1>1. /\ xpc = "read"
      /\ UNCHANGED <<xi, xsize, dirs, xmeta, xbase, inherited, attempts, archive>>
  BY DEF ReadChunk, callVars
<1>2. PICK v \in 1..BufCap :
        /\ fsz + v <= current.size
        /\ \/ /\ fsz' = fsz + v
              /\ data' = [data EXCEPT ![current.node] = @ + v]
              /\ UNCHANGED <<xpc, xres, faultVars>>
           \/ /\ Report("write")
              /\ Return("false")
              /\ KeepPart(fsz + v)
              /\ UNCHANGED fsz
  BY DEF ReadChunk
<1>3. v \in Nat /\ fsz \in Nat /\ fsz + v \in Nat
  BY <1>2, ExtractAssumption DEF IInv, TypeOK
<1>4. CASE /\ fsz' = fsz + v
           /\ data' = [data EXCEPT ![current.node] = @ + v]
           /\ UNCHANGED <<xpc, xres, faultVars>>
  <2>1. UNCHANGED <<xpc, xres, reported, missed>>
    BY <1>4 DEF faultVars
  <2>2. /\ current.node \in Files /\ data[current.node] = fsz
        /\ HasMeta(current)
        /\ \A j \in Behind : archive[j].node # current.node
    BY <1>1, Reading
  <2>3. data' = [data EXCEPT ![current.node] = fsz + v]
    BY <1>4, <2>2
  <2>4. data' \in [Files -> Nat \cup {Absent}] /\ data'[current.node] = fsz'
    BY <1>3, <1>4, <2>2, <2>3 DEF IInv, TypeOK
  <2>5. TypeOK'
    BY <1>1, <1>3, <1>4, <2>1, <2>4 DEF IInv, TypeOK
  <2>6. Behind' = Behind /\ current' = current
    BY <1>1 DEF Behind, current
  <2>7. ASSUME OnlyMetaMissed', NEW j \in Behind'
        PROVE  Extracted(archive[j])' /\ archive'[j].node \notin inherited'
    <3>1. OnlyMetaMissed
      BY <2>1, <2>7 DEF OnlyMetaMissed
    <3>2. /\ Extracted(archive[j]) /\ archive[j].node \notin inherited
          /\ archive[j].node # current.node
      BY <1>1, <2>2, <2>6, <3>1 DEF IInv, CallInv, Active
    <3>3. data'[archive[j].node] = data[archive[j].node]
      BY <2>3, <3>2 DEF IInv, TypeOK
    <3> QED
      BY <1>1, <2>1, <3>2, <3>3 DEF Extracted, HasMeta
  <2>8. CallInv'
    <3>1. /\ inherited' \subseteq dirs' /\ archive' # NoArchive /\ xi' <= Len(archive')
          /\ xi' <= Len(archive') + 1
          /\ \A d \in dirs' \ inherited' : \E j \in Behind' : archive'[j].node = d
          /\ "stat" \notin missed' => \A j \in Behind' : archive'[j].node \in dirs' \cup Files
      BY <1>1, <2>1, <2>6 DEF IInv, CallInv, Active
    <3>2. /\ (current.node)' \in Files
          /\ data'[(current.node)'] = fsz'
          /\ fsz' <= (current.size)'
          /\ HasMeta(current)'
      BY <1>1, <1>2, <1>4, <2>1, <2>2, <2>4, <2>6 DEF HasMeta
    <3> QED
      BY <3>1, <3>2, <2>7 DEF CallInv
  <2> QED
    BY <2>5, <2>8 DEF IInv
<1>5. CASE Report("write") /\ Return("false") /\ KeepPart(fsz + v) /\ UNCHANGED fsz
  <2>1. reported' \subseteq ReportedKinds /\ missed' = missed
    BY <1>5, ReportType DEF IInv, ReportedKinds
  <2>2. data' \in [Files -> Nat \cup {Absent}]
    BY <1>3, <1>5, PartType
  <2> QED
    BY <1>1, <1>5, <2>1, <2>2, EndPreserves DEF Return, IInv, TypeOK
<1> QED
  BY <1>2, <1>4, <1>5

LEMMA EndOfFilePreserves == IInv /\ EndOfFile => IInv'
<1> SUFFICES ASSUME IInv, EndOfFile PROVE IInv'
  OBVIOUS
<1>1. /\ xpc = "read" /\ fsz = current.size /\ NextEntry
      /\ UNCHANGED <<xres, fsz, xsize, dirs, xmeta, callVars, archive>>
  BY DEF EndOfFile
<1>2. /\ Active /\ xi <= Len(archive)
      /\ current.node \in Files /\ data[current.node] = fsz /\ fsz \in Nat
      /\ HasMeta(current)
  BY <1>1, Reading
<1>3. data' \in [Files -> Nat \cup {Absent}]
  BY <1>2, PartType DEF EndOfFile, IInv, TypeOK
<1>4. /\ reported' \subseteq ReportedKinds /\ missed' \subseteq MissedKinds /\ missed \subseteq missed'
      /\ OnlyMetaMissed' => data' = data
  <2>1. CASE UNCHANGED <<data, faultVars>>
    BY <2>1 DEF faultVars, IInv, TypeOK
  <2>2. CASE Miss("endOfData") /\ UNCHANGED data
    BY <2>2 DEF Miss, IInv, TypeOK, MissedKinds
  <2>3. CASE Miss("flush")
    <3>1. missed' = missed \cup {"flush"} /\ reported' = reported
      BY <2>3 DEF Miss
    <3> QED
      BY <3>1 DEF IInv, TypeOK, MissedKinds, OnlyMetaMissed
  <2> QED
    BY <2>1, <2>2, <2>3 DEF EndOfFile
<1>5. PICK e : e = current
  OBVIOUS
<1>6. current.node \notin inherited /\ current.node \notin Dirs
  BY <1>2, TreeAssumption DEF IInv, TypeOK
<1>7. OnlyMetaMissed' => Extracted(e)'
  BY <1>1, <1>2, <1>4, <1>5, <1>6 DEF Extracted, HasMeta
<1> QED
  BY <1>1, <1>2, <1>3, <1>4, <1>5, <1>6, <1>7, AdvancePreserves DEF IInv, TypeOK

LEMMA StopPreserves == IInv /\ (ReadFails \/ Finish \/ Crash) => IInv'
<1> SUFFICES ASSUME IInv, ReadFails \/ Finish \/ Crash PROVE IInv'
  OBVIOUS
<1>1. CASE ReadFails
  <2>1. reported' \subseteq ReportedKinds /\ missed' = missed
    BY <1>1, ReportType DEF ReadFails, IInv, ReportedKinds
  <2>2. data' \in [Files -> Nat \cup {Absent}]
    BY <1>1, PartType DEF ReadFails, IInv, TypeOK
  <2>3. UNCHANGED <<xi, fsz, xsize, dirs, xmeta, xbase, inherited, attempts, archive>> /\ Return("false")
    BY <1>1 DEF ReadFails, callVars
  <2> QED
    BY <2>1, <2>2, <2>3, EndPreserves DEF Return, IInv, TypeOK
<1>2. CASE Finish
  BY <1>2, EndPreserves DEF Finish, Return, destVars, faultVars, callVars, IInv, TypeOK
<1>3. CASE Crash
  <2>1. data' \in [Files -> Nat \cup {Absent}]
    BY <1>3, PartType DEF Crash, IInv, TypeOK
  <2> QED
    BY <1>3, <2>1 DEF Crash, IInv, TypeOK, CallInv, Active
<1> QED
  BY <1>1, <1>2, <1>3

LEMMA NextIInv == IInv /\ [Next]_vars => IInv'
<1>1. IInv /\ UNCHANGED vars => IInv'
  BY DEF IInv, TypeOK, CallInv, Active, Behind, Extracted, HasMeta, OnlyMetaMissed, current, vars,
         extractVars, destVars, faultVars, callVars
<1> QED
  BY <1>1, BeginPreserves, SkipPreserves, DirPreserves, FailFilePreserves, OpenFilePreserves,
     ReadChunkPreserves, EndOfFilePreserves, StopPreserves
  DEF Next, Extract, Step

THEOREM Invariance == Spec => []IInv
  BY InitIInv, NextIInv, PTL DEF Spec

(***************************************************************************)
(* Every variable of the model of archive_extract keeps its type.          *)
(***************************************************************************)
THEOREM TypeCorrect == Spec => []TypeOK
  BY Invariance, PTL DEF IInv

-----------------------------------------------------------------------------
(***************************************************************************)
(* What a call returns.  The three properties speak of the state after the *)
(* return, which only the next call changes.                               *)
(***************************************************************************)
Results == TrueIsComplete /\ FalseHasCause /\ NoResume

\* An entry that cannot be made although nothing was skipped was there
\* before the call; a missing parent was skipped.
LEMMA DirHasCause ==
  ASSUME IInv, Active, xi <= Len(archive), ~ Holds(Parent[current.node]) \/ current.node \in dirs
  PROVE  "stat" \in missed \/ \E i \in 1..xi : archive[i].node \in inherited
<1>1. /\ WellFormed(archive) /\ xi \in 1..Len(archive)
      /\ \A j \in Behind : archive[j].node # current.node
      /\ 1..xi = Behind \cup {xi}
      /\ current.node \in Nodes
  BY Current
<1>2. CASE current.node \in dirs
  BY <1>1, <1>2 DEF IInv, CallInv, current
<1>3. CASE ~ Holds(Parent[current.node])
  <2> SUFFICES ASSUME "stat" \notin missed PROVE FALSE
    OBVIOUS
  <2>1. Parent[current.node] # Root /\ Parent[current.node] \notin dirs
    BY <1>3 DEF Holds
  <2>2. PICK j \in 1..(xi - 1) : archive[j].node = Parent[current.node]
    BY <1>1, <2>1 DEF WellFormed, ParentsFirst, current
  <2>3. Parent[current.node] \in dirs \cup Files
    BY <2>2 DEF IInv, CallInv, Behind
  <2>4. Parent[current.node] \in Dirs \cup {Root}
    BY <1>1, TreeAssumption
  <2> QED
    BY <2>1, <2>3, <2>4, TreeAssumption
<1> QED
  BY <1>2, <1>3

LEMMA FailHasCause ==
  ASSUME IInv, FailDir \/ FailFile \/ ReadFails \/ (ExtractDir /\ xpc' = "returned")
               \/ (ReadChunk /\ xpc' = "returned")
  PROVE  Results'
<1>1. CASE reported' # {} /\ xres' = "false"
  BY <1>1 DEF Results, TrueIsComplete, FalseHasCause, NoResume
<1>2. CASE /\ xres' = "false" /\ Active /\ xi <= Len(archive)
           /\ ~ Holds(Parent[current.node]) \/ current.node \in dirs
           /\ UNCHANGED <<xi, missed, inherited, archive>>
  BY <1>2, DirHasCause DEF Results, TrueIsComplete, FalseHasCause, NoResume
<1>3. CASE FailDir
  BY <1>1, <1>2, <1>3 DEF FailDir, MoreEntries, Active, CanMake, Report, Return, faultVars, callVars
<1>4. CASE FailFile
  BY <1>1, <1>2, <1>4 DEF FailFile, MoreEntries, Active, Report, Return, faultVars, callVars
<1>5. CASE ReadFails
  BY <1>1, <1>5 DEF ReadFails, Report, Return
<1>6. CASE ExtractDir /\ xpc' = "returned"
  BY <1>1, <1>6 DEF ExtractDir, NextEntry, Report, Return
<1>7. CASE ReadChunk /\ xpc' = "returned"
  BY <1>1, <1>7 DEF ReadChunk, Report, Return
<1> QED
  BY <1>3, <1>4, <1>5, <1>6, <1>7

LEMMA FinishIsComplete == IInv /\ Finish => Results'
<1> SUFFICES ASSUME IInv, Finish PROVE Results'
  OBVIOUS
<1>1. /\ xpc = "entry" /\ xi > Len(archive) /\ Active
      /\ xres' = "true"
      /\ UNCHANGED <<dirs, data, xmeta, missed, inherited, archive>>
  BY DEF Finish, Return, Active, destVars, faultVars, callVars
<1>2. Behind = 1..Len(archive)
  BY <1>1, ArchiveLen DEF IInv, TypeOK, CallInv, Behind
<1>3. OnlyMetaMissed =>
        \A j \in 1..Len(archive) : Extracted(archive[j]) /\ archive[j].node \notin inherited
  BY <1>1, <1>2 DEF IInv, CallInv
<1> QED
  BY <1>1, <1>3 DEF Results, TrueIsComplete, FalseHasCause, NoResume, Extracted, HasMeta,
                    OnlyMetaMissed, EntryNodes

LEMMA NextResults == IInv /\ Results /\ [Next]_vars => Results'
<1> SUFFICES ASSUME IInv, Results, [Next]_vars PROVE Results'
  OBVIOUS
<1>1. CASE xpc' # "returned"
  BY <1>1 DEF Results, TrueIsComplete, FalseHasCause, NoResume
<1>2. CASE OpenFails
  BY <1>2 DEF OpenFails, Return, Results, TrueIsComplete, FalseHasCause, NoResume, OnlyMetaMissed
<1>3. CASE UNCHANGED vars
  BY <1>3 DEF vars, extractVars, destVars, faultVars, callVars, Results, TrueIsComplete,
              FalseHasCause, NoResume, Extracted, HasMeta, OnlyMetaMissed, EntryNodes
<1>4. Open \/ SkipEntry \/ OpenFile \/ EndOfFile \/ Crash => xpc' # "returned"
  BY DEF Open, SkipEntry, OpenFile, EndOfFile, Crash, NextEntry
<1> QED
  BY <1>1, <1>2, <1>3, <1>4, FailHasCause, FinishIsComplete DEF Next, Extract, Step

LEMMA ResultsHold == Spec => []Results
<1>1. Init => Results
  BY DEF Init, Results, TrueIsComplete, FalseHasCause, NoResume
<1> QED
  BY <1>1, NextResults, Invariance, PTL DEF Spec

(***************************************************************************)
(* True means complete, but for metadata whose lookup failed unnoticed:    *)
(* for every tree and archive, whatever was in the destination.            *)
(***************************************************************************)
THEOREM ExtractionIsComplete == Spec => []TrueIsComplete
  BY ResultsHold, PTL DEF Results

(***************************************************************************)
(* False has a reason that the caller can find: a failed library call or   *)
(* callback, a directory that was there, or an entry that was skipped.     *)
(***************************************************************************)
THEOREM FailureHasCause == Spec => []FalseHasCause
  BY ResultsHold, PTL DEF Results

\* A call that finds a directory of the archive never succeeds.
THEOREM ExtractionNeverResumes == Spec => []NoResume
  BY ResultsHold, PTL DEF Results

-----------------------------------------------------------------------------
(***************************************************************************)
(* ArchiveExtract implements TreeCopy, for every tree, archive and bound,  *)
(* and with it keeps what TreeCopy promises of the destination.            *)
(***************************************************************************)
\* The state that TreeCopy sees, as one tuple.
seen == <<archive, Active, xres, ~ OnlyMetaMissed, <<dirs, data>>>>

LEMMA InitCopies == Init => Copy!Init
  BY DEF OnlyMetaMissed, Init, Copy!Init, Active, Absent, Copy!Absent

LEMMA HoldsSame == ASSUME NEW d PROVE Holds(d) <=> Copy!Holds(d)
  BY DEF Holds, Copy!Holds

LEMMA StutterCopies == IInv /\ UNCHANGED vars => UNCHANGED seen
  BY DEF vars, extractVars, destVars, faultVars, callVars, seen, Active, OnlyMetaMissed

LEMMA BeginCopies == IInv /\ (Open \/ OpenFails) => Copy!Next
<1>1. ASSUME IInv, Open PROVE Copy!Start /\ UNCHANGED archive
  BY <1>1 DEF OnlyMetaMissed, Open, Begin, Copy!Start, Active, destVars, Copy!dest
<1>2. ASSUME IInv, OpenFails PROVE Copy!Blind /\ UNCHANGED archive
  BY <1>2 DEF OnlyMetaMissed, OpenFails, Begin, Return, Copy!Blind, Active, destVars, Copy!dest
<1> QED
  BY <1>1, <1>2 DEF Copy!Next

\* What a step may do to the entry a call is at.
LEMMA ChangeHere ==
  ASSUME IInv, Active, xi <= Len(archive), Copy!MakeDir(current) \/ Copy!Fill(current)
  PROVE  Copy!Change
<1>1. xi \in 1..Len(archive)
  BY Current
<1> QED
  BY <1>1 DEF Copy!Change, current

\* Bytes of the file that a call is reading.
LEMMA PartFills ==
  ASSUME IInv, xpc = "read", NEW k \in Nat, k <= current.size, dirs' = dirs,
         data' = [data EXCEPT ![current.node] = k]
  PROVE  Copy!Change
<1>1. /\ current.node \in Files /\ current.size \in Nat
      /\ data[current.node] # Absent /\ Active /\ xi <= Len(archive)
  BY Reading DEF Absent
<1>2. k \in 0..current.size
  BY <1>1
<1>3. Copy!Fill(current)
  BY <1>1, <1>2 DEF Copy!Fill, Absent, Copy!Absent
<1> QED
  BY <1>1, <1>3, ChangeHere

LEMMA SkipCopies == IInv /\ SkipEntry => Copy!Next
<1> SUFFICES ASSUME IInv, SkipEntry PROVE Copy!Next
  OBVIOUS
<1>1. Copy!Work /\ UNCHANGED archive
  BY DEF SkipEntry, MoreEntries, Miss, NextEntry, Active, OnlyMetaMissed, Copy!Work, Copy!Change,
         Copy!dest, destVars
<1> QED
  BY <1>1 DEF Copy!Next

LEMMA DirCopies == IInv /\ (ExtractDir \/ FailDir) => Copy!Next
<1>1. ASSUME IInv, ExtractDir PROVE Copy!Next
  <2>1. /\ Active /\ xi <= Len(archive) /\ current.node \in Dirs
        /\ CanMake(current.node) /\ dirs' = dirs \cup {current.node}
        /\ UNCHANGED <<data, archive, missed>>
        /\ \/ Active' /\ xres' = xres
           \/ ~ Active' /\ xres' = "false"
    BY <1>1 DEF ExtractDir, MoreEntries, Active, NextEntry, Return, Report, faultVars
  <2>2. Copy!MakeDir(current)
    BY <2>1 DEF Copy!MakeDir, CanMake, Holds, Copy!Holds
  <2>3. Copy!Change
    BY <1>1, <2>1, <2>2, ChangeHere
  <2>4. Copy!Work \/ Copy!Fail
    BY <2>1, <2>3 DEF OnlyMetaMissed, Copy!Work, Copy!Fail
  <2> QED
    BY <2>1, <2>4 DEF Copy!Next
<1>2. ASSUME IInv, FailDir PROVE Copy!Next
  <2>1. Copy!Fail /\ UNCHANGED archive
    BY <1>2 DEF OnlyMetaMissed, FailDir, MoreEntries, Active, Return, Report, faultVars, destVars, Copy!Fail,
                Copy!Change, Copy!dest
  <2> QED
    BY <2>1 DEF Copy!Next
<1> QED
  BY <1>1, <1>2

LEMMA FileCopies == IInv /\ (OpenFile \/ FailFile) => Copy!Next
<1>1. ASSUME IInv, OpenFile PROVE Copy!Next
  <2>1. /\ Active /\ xi <= Len(archive) /\ current.node \in Files
        /\ Holds(Parent[current.node]) /\ data' = [data EXCEPT ![current.node] = 0]
        /\ UNCHANGED <<dirs, archive, xres>> /\ Active'
        /\ OnlyMetaMissed' = OnlyMetaMissed
    BY <1>1 DEF OpenFile, MoreEntries, Active, LookUpMeta, Miss, OnlyMetaMissed, faultVars
  <2>2. 0 \in 0..current.size
    BY <1>1, <2>1, Current
  <2>3. Copy!Fill(current)
    BY <2>1, <2>2, HoldsSame DEF Copy!Fill
  <2>4. Copy!Change
    BY <1>1, <2>1, <2>3, ChangeHere
  <2>5. Copy!Work
    BY <2>1, <2>4 DEF Copy!Work
  <2> QED
    BY <2>1, <2>5 DEF Copy!Next
<1>2. ASSUME IInv, FailFile PROVE Copy!Next
  <2>1. Copy!Fail /\ UNCHANGED archive
    BY <1>2 DEF OnlyMetaMissed, FailFile, MoreEntries, Active, Return, Report, faultVars, destVars, Copy!Fail,
                Copy!Change, Copy!dest
  <2> QED
    BY <2>1 DEF Copy!Next
<1> QED
  BY <1>1, <1>2

\* Any file cut short.
LEMMA KeepPartFills ==
  ASSUME IInv, xpc = "read", NEW w \in Nat, w <= current.size, dirs' = dirs, KeepPart(w)
  PROVE  Copy!Change
<1>1. PICK k \in 0..w : data' = [data EXCEPT ![current.node] = k]
  BY DEF KeepPart
<1>2. k \in Nat /\ k <= current.size
  BY <1>1, Reading
<1> QED
  BY <1>1, <1>2, PartFills

LEMMA ReadCopies == IInv /\ (ReadChunk \/ EndOfFile \/ ReadFails) => Copy!Next
<1>1. ASSUME IInv, ReadChunk PROVE Copy!Next
  <2>1. xpc = "read" /\ Active /\ UNCHANGED <<dirs, archive>>
    BY <1>1 DEF ReadChunk, Active
  <2>2. PICK v \in 1..BufCap :
          /\ fsz + v <= current.size
          /\ \/ /\ data' = [data EXCEPT ![current.node] = @ + v]
                /\ UNCHANGED <<xpc, xres, faultVars>>
             \/ Report("write") /\ Return("false") /\ KeepPart(fsz + v)
    BY <1>1 DEF ReadChunk
  <2>3. fsz + v \in Nat /\ data[current.node] = fsz
    BY <1>1, <2>1, Reading, ExtractAssumption
  <2>4. Copy!Change
    BY <1>1, <2>1, <2>2, <2>3, PartFills, KeepPartFills
  <2>5. CASE UNCHANGED <<xpc, xres, faultVars>>
    <3>1. Active' /\ xres' = xres /\ missed' = missed
      BY <2>1, <2>5 DEF Active, faultVars
    <3> QED
      BY <2>1, <2>4, <3>1 DEF OnlyMetaMissed, Copy!Work, Copy!Next
  <2>6. CASE Report("write") /\ Return("false")
    <3>1. ~ Active' /\ xres' = "false" /\ missed' = missed
      BY <2>6 DEF Active, Report, Return
    <3> QED
      BY <2>1, <2>4, <3>1 DEF OnlyMetaMissed, Copy!Fail, Copy!Next
  <2> QED
    BY <2>2, <2>5, <2>6
<1>2. ASSUME IInv, EndOfFile PROVE Copy!Next
  <2>1. /\ xpc = "read" /\ Active /\ Active' /\ UNCHANGED <<dirs, archive, xres>>
        /\ fsz = current.size /\ fsz \in Nat
        /\ (~ OnlyMetaMissed') \in {~ OnlyMetaMissed, TRUE}
    BY <1>2, Reading DEF EndOfFile, Active, NextEntry, Miss, faultVars, OnlyMetaMissed
  <2>2. Copy!Change
    <3>1. CASE UNCHANGED data
      BY <2>1, <3>1 DEF Copy!Change, Copy!dest
    <3>2. CASE KeepPart(fsz)
      BY <1>2, <2>1, <3>2, KeepPartFills
    <3> QED
      BY <1>2, <3>1, <3>2 DEF EndOfFile
  <2>3. Copy!Work
    BY <2>1, <2>2 DEF Copy!Work
  <2> QED
    BY <2>1, <2>3 DEF Copy!Next
<1>3. ASSUME IInv, ReadFails PROVE Copy!Next
  <2>1. /\ xpc = "read" /\ Active /\ ~ Active' /\ UNCHANGED <<dirs, archive, missed>>
        /\ xres' = "false" /\ fsz \in Nat /\ fsz <= current.size /\ KeepPart(fsz)
    BY <1>3, Reading DEF ReadFails, Active, Return, Report
  <2>2. Copy!Fail
    BY <1>3, <2>1, KeepPartFills DEF OnlyMetaMissed, Copy!Fail
  <2> QED
    BY <2>1, <2>2 DEF Copy!Next
<1> QED
  BY <1>1, <1>2, <1>3

LEMMA FinishCopies == IInv /\ Finish => Copy!Next
<1> SUFFICES ASSUME IInv, Finish PROVE Copy!Next
  OBVIOUS
<1>1. /\ Active /\ ~ Active' /\ xres' = "true" /\ UNCHANGED <<dirs, data, missed, archive>>
      /\ xi > Len(archive)
  BY DEF Finish, Active, Return, destVars, faultVars
<1>2. OnlyMetaMissed => Copy!Complete
  <2>1. WellFormed(archive) /\ Behind = 1..Len(archive)
    BY <1>1, ArchiveLen DEF IInv, TypeOK, CallInv, Behind
  <2> QED
    BY <1>1, <2>1 DEF IInv, CallInv, Copy!Complete, Extracted
<1>3. Copy!Succeed
  BY <1>1, <1>2 DEF OnlyMetaMissed, Copy!Succeed, Copy!dest
<1> QED
  BY <1>1, <1>3 DEF Copy!Next

LEMMA CrashCopies == IInv /\ Crash => Copy!Next
<1> SUFFICES ASSUME IInv, Crash PROVE Copy!Next
  OBVIOUS
<1>1. /\ Active /\ ~ Active' /\ xres' = "none" /\ missed' = {} /\ UNCHANGED <<dirs, archive>>
  BY DEF Crash, Active
<1>2. Copy!Change
  <2>1. CASE xpc = "read"
    <3>1. fsz \in Nat /\ fsz <= current.size
      BY <2>1, Reading DEF IInv, CallInv
    <3> QED
      BY <1>1, <2>1, <3>1, KeepPartFills DEF Crash
  <2>2. CASE xpc # "read"
    BY <1>1, <2>2 DEF Crash, Copy!Change, Copy!dest
  <2> QED
    BY <2>1, <2>2
<1>3. Copy!Die
  BY <1>1, <1>2 DEF OnlyMetaMissed, Copy!Die
<1> QED
  BY <1>1, <1>3 DEF Copy!Next

LEMMA NextCopies == IInv /\ [Next]_vars => [Copy!Next]_seen
  BY StutterCopies, BeginCopies, SkipCopies, DirCopies, FileCopies, ReadCopies, FinishCopies,
     CrashCopies DEF Next, Extract, Step

(***************************************************************************)
(* archive_extract implements TreeCopy.                                    *)
(***************************************************************************)
THEOREM ExtractionCopies == Spec => CopiesTree
  BY InitCopies, NextCopies, Invariance, PTL
     DEF Spec, CopiesTree, Copy!Spec, Copy!vars, Copy!dest, seen

-----------------------------------------------------------------------------
LEMMA ChangeKeepsPart ==
  ASSUME Copy!PartOfTree, Copy!Change, UNCHANGED archive,
         data \in [Files -> Nat \cup {Absent}]
  PROVE  Copy!PartOfTree'
<1>1. CASE UNCHANGED <<dirs, data>>
  BY <1>1 DEF Copy!PartOfTree, Copy!Holds
<1>2. ASSUME NEW i \in 1..Len(archive), Copy!MakeDir(archive[i])
      PROVE  Copy!PartOfTree'
  <2>1. dirs' = dirs \cup {archive[i].node} /\ data' = data /\ Copy!Holds(Parent[archive[i].node])
    BY <1>2 DEF Copy!MakeDir
  <2> QED
    BY <1>2, <2>1 DEF Copy!PartOfTree, Copy!Holds
<1>3. ASSUME NEW i \in 1..Len(archive), Copy!Fill(archive[i])
      PROVE  Copy!PartOfTree'
  <2>1. PICK k \in 0..archive[i].size : data' = [data EXCEPT ![archive[i].node] = k]
    BY <1>3 DEF Copy!Fill
  <2>2. /\ dirs' = dirs
        /\ data[archive[i].node] # Copy!Absent \/ Copy!Holds(Parent[archive[i].node])
        /\ archive[i].node \in Files
    BY <1>3 DEF Copy!Fill
  <2>3. ASSUME NEW f \in Files, data'[f] # Copy!Absent
        PROVE  /\ Copy!Holds(Parent[f])
               /\ \E j \in 1..Len(archive) : archive[j].node = f /\ data'[f] \in 0..archive[j].size
    <3>1. CASE f = archive[i].node
      BY <2>1, <2>2, <3>1 DEF Copy!PartOfTree
    <3>2. CASE f # archive[i].node
      BY <2>1, <2>3, <3>2 DEF Copy!PartOfTree
    <3> QED
      BY <3>1, <3>2
  <2> QED
    BY <2>2, <2>3 DEF Copy!PartOfTree, Copy!Holds
<1> QED
  BY <1>1, <1>2, <1>3 DEF Copy!Change, Copy!dest

(***************************************************************************)
(* After any number of calls and crashes the destination is part of the    *)
(* tree that was archived.                                                 *)
(***************************************************************************)
THEOREM DestinationStaysPart == Spec => []DestinationIsPart
<1>1. Init => Copy!PartOfTree
  BY DEF Init, Copy!PartOfTree, Absent, Copy!Absent
<1>2. IInv /\ Copy!PartOfTree /\ [Copy!Next]_seen => Copy!PartOfTree'
  <2>1. ASSUME Copy!PartOfTree, UNCHANGED <<dirs, data, archive>> PROVE Copy!PartOfTree'
    BY <2>1 DEF Copy!PartOfTree, Copy!Holds
  <2>2. ASSUME IInv, Copy!PartOfTree, Copy!Next PROVE Copy!PartOfTree'
    BY <2>1, <2>2, ChangeKeepsPart
       DEF IInv, TypeOK, Copy!Next, Copy!Start, Copy!Blind, Copy!Work, Copy!Succeed, Copy!Fail,
           Copy!Die, Copy!dest
  <2> QED
    BY <2>1, <2>2 DEF seen
<1>3. Spec => []Copy!PartOfTree
  BY <1>1, <1>2, NextCopies, Invariance, PTL DEF Spec
<1>4. Copy!PartOfTree => DestinationIsPart
  BY DEF DestinationIsPart
<1> QED
  BY <1>3, <1>4, PTL

-----------------------------------------------------------------------------
\* What a call still has to do: the entries it is not done with, and what is
\* left of the file it is reading.
EntriesLeft == Len(archive) + 1 - xi
BytesLeft == current.size - fsz

(***************************************************************************)
(* A call gets on with every step, whatever fails: it returns, or is done  *)
(* with one more entry, or goes from the head of the loop to the data of   *)
(* the same entry, or has less of that data left; and there are only so    *)
(* many entries and so much data.                                          *)
(***************************************************************************)
CallAdvances ==
  [][Step =>
       \/ xpc' = "returned"
       \/ /\ {EntriesLeft, EntriesLeft'} \subseteq Nat
          /\ \/ xpc' = "entry" /\ EntriesLeft' < EntriesLeft
             \/ xpc = "entry" /\ xpc' = "read" /\ EntriesLeft' = EntriesLeft
             \/ /\ xpc = "read" /\ xpc' = "read" /\ EntriesLeft' = EntriesLeft
                /\ {BytesLeft, BytesLeft'} \subseteq Nat
                /\ BytesLeft' < BytesLeft]_vars

THEOREM CallIsFinite == Spec => CallAdvances
<1> DEFINE Advance ==
             /\ {EntriesLeft, EntriesLeft'} \subseteq Nat
             /\ \/ xpc' = "entry" /\ EntriesLeft' < EntriesLeft
                \/ xpc = "entry" /\ xpc' = "read" /\ EntriesLeft' = EntriesLeft
                \/ /\ xpc = "read" /\ xpc' = "read" /\ EntriesLeft' = EntriesLeft
                   /\ {BytesLeft, BytesLeft'} \subseteq Nat
                   /\ BytesLeft' < BytesLeft
<1>1. ASSUME IInv, Active, xi <= Len(archive), NextEntry, UNCHANGED archive
      PROVE  Advance
  <2>1. Len(archive) \in Nat /\ xi \in 1..Len(archive)
    BY <1>1, Current
  <2>2. xpc' = "entry" /\ EntriesLeft' = Len(archive) + 1 - (xi + 1)
    BY <1>1 DEF NextEntry, EntriesLeft
  <2> QED
    BY <2>1, <2>2 DEF EntriesLeft
<1>2. ASSUME IInv, OpenFile
      PROVE  Advance
  <2>1. /\ Active /\ xi <= Len(archive) /\ xpc = "entry" /\ xpc' = "read"
        /\ UNCHANGED <<xi, archive>>
    BY <1>2 DEF OpenFile, MoreEntries, Active
  <2>2. Len(archive) \in Nat /\ xi \in 1..Len(archive)
    BY <1>2, <2>1, Current
  <2> QED
    BY <2>1, <2>2 DEF EntriesLeft
<1>3. ASSUME IInv, ReadChunk
      PROVE  xpc' = "returned" \/ Advance
  <2>1. xpc = "read" /\ UNCHANGED <<xi, archive>>
    BY <1>3 DEF ReadChunk
  <2>2. /\ Active /\ xi <= Len(archive) /\ current.size \in Nat /\ fsz \in Nat
    BY <1>3, <2>1, Reading
  <2>3. Len(archive) \in Nat /\ xi \in 1..Len(archive)
    BY <1>3, <2>2, Current
  <2>4. current' = current
    BY <2>1 DEF current
  <2>5. PICK v \in 1..BufCap :
          /\ fsz + v <= current.size
          /\ (fsz' = fsz + v /\ xpc' = xpc) \/ xpc' = "returned"
    BY <1>3 DEF ReadChunk, Return
  <2>6. v \in Nat \ {0}
    BY ExtractAssumption
  <2>7. ASSUME fsz' = fsz + v, xpc' = xpc
        PROVE  Advance
    <3>1. EntriesLeft' = EntriesLeft /\ EntriesLeft \in Nat
      BY <2>1, <2>3 DEF EntriesLeft
    <3>2. BytesLeft = current.size - fsz /\ BytesLeft' = current.size - (fsz + v)
      BY <2>4, <2>7 DEF BytesLeft
    <3>3. {BytesLeft, BytesLeft'} \subseteq Nat /\ BytesLeft' < BytesLeft
      BY <2>2, <2>5, <2>6, <3>2
    <3> QED
      BY <2>1, <2>7, <3>1, <3>3
  <2> QED
    BY <2>5, <2>7
<1>4. ASSUME IInv, SkipEntry \/ ExtractDir \/ EndOfFile
      PROVE  xpc' = "returned" \/ Advance
  <2>1. Active /\ xi <= Len(archive) /\ UNCHANGED archive
    BY <1>4 DEF SkipEntry, ExtractDir, EndOfFile, MoreEntries, Active, IInv, CallInv
  <2>2. xpc' = "returned" \/ NextEntry
    BY <1>4 DEF SkipEntry, ExtractDir, EndOfFile, Return
  <2> QED
    BY <1>1, <1>4, <2>1, <2>2
<1>5. FailDir \/ FailFile \/ ReadFails \/ Finish => xpc' = "returned"
  BY DEF FailDir, FailFile, ReadFails, Finish, Return
<1>6. IInv /\ Step => xpc' = "returned" \/ Advance
  <2> HIDE DEF Advance
  <2> QED
    BY <1>2, <1>3, <1>4, <1>5 DEF Step
<1>7. IInv /\ [Next]_vars => [Step => xpc' = "returned" \/ Advance]_vars
  BY <1>6
<1> QED
  BY <1>7, Invariance, PTL DEF Spec, CallAdvances

=============================================================================
