--------------------------- MODULE ArchiveExtract ---------------------------
(***************************************************************************)
(* do_archive_extract (utility/src/archive.cpp) with the callbacks of      *)
(* archive_extract, which create directories and files below _root.        *)
(*                                                                         *)
(* The destination outlives a call: it keeps what a failed call, or a      *)
(* process that died in one, has left, and the next call starts from that. *)
(* The total _runcompressed_size belongs to the caller, and the code only  *)
(* ever adds to it; the caller modelled here passes the same variable to   *)
(* every call.                                                             *)
(*                                                                         *)
(* `reported' and `missed' are the failures of one call that make it       *)
(* return false and those it does not notice; the code has neither.        *)
(***************************************************************************)
EXTENDS SourceTree, Integers

CONSTANTS
  NoArchive,     \* no file exists at _zip_path
  InitArchives,  \* what may be at _zip_path
  BufCap,        \* bufcp: the most zip_fread returns at once
  MaxAttempts,   \* bound on the number of calls
  MaxFaults      \* bound on the failures of one call

AnyEntry == [node : Nodes, size : Nat, meta : Seq(Nat)]

\* The archives that archive_create makes, see ArchiveCreate.
WellFormed(a) ==
  /\ a \in Seq(AnyEntry)
  /\ ParentsFirst(a)
  /\ NamesDistinct(a)

ASSUME ExtractAssumption ==
  /\ NoArchive \notin Seq(AnyEntry)
  /\ \A a \in InitArchives : a = NoArchive \/ WellFormed(a)
  /\ BufCap \in Nat \ {0}
  /\ {MaxAttempts, MaxFaults} \subseteq Nat

VARIABLES
  xpc,        \* "idle", "entry" (head of the loop), "read" or "returned"
  xres,       \* the outcome of the call: "none", "true" or "false"
  xi,         \* the index of the current entry
  fsz,        \* how much of the current file has been read
  xsize,      \* _runcompressed_size
  xbase,      \* its value when the call began
  dirs,       \* the directories that exist in the destination
  data,       \* for each file there, how many bytes it has; Absent if none
  xmeta,      \* the metadata its writer was created with
  inherited,  \* the directories that existed when the call began
  reported,   \* the failures that made this call return false
  missed,     \* the failures this call has not noticed
  attempts,   \* the number of calls so far
  archive     \* what is at _zip_path

destVars == <<dirs, data, xmeta>>
faultVars == <<reported, missed>>
callVars == <<xbase, inherited, attempts>>
extractVars == <<xpc, xres, xi, fsz, xsize, destVars, faultVars, callVars>>
vars == <<extractVars, archive>>

Absent == -1

ReportedKinds == {"mkdir", "dirCallback", "fopen", "writer", "write", "read"}
MissedKinds == {"open", "stat", "meta", "endOfData", "flush"}

\* The call has missed nothing but metadata.
OnlyMetaMissed == missed \subseteq {"meta"}

Init ==
  /\ xpc = "idle" /\ xres = "none" /\ xi = 1 /\ fsz = 0
  /\ xsize = 0 /\ xbase = 0
  /\ dirs = {} /\ inherited = {}
  /\ data = [f \in Files |-> Absent]
  /\ xmeta = [f \in Files |-> <<>>]
  /\ reported = {} /\ missed = {}
  /\ attempts = 0
  /\ archive \in InitArchives

current == archive[xi]
MoreEntries == xpc = "entry" /\ xi <= Len(archive)
Holds(d) == d = Root \/ d \in dirs

Return(result) == xpc' = "returned" /\ xres' = result
NextEntry == xpc' = "entry" /\ xi' = xi + 1

KeepPart(written) == \E kept \in 0..written : data' = [data EXCEPT ![current.node] = kept]

FaultsLeft == Cardinality(reported \cup missed) < MaxFaults
Report(kind) == FaultsLeft /\ reported' = reported \cup {kind} /\ UNCHANGED missed
Miss(kind) == FaultsLeft /\ missed' = missed \cup {kind} /\ UNCHANGED reported

-----------------------------------------------------------------------------
\* Variant: the entries are counted from 0.
BeginAtZero ==
  /\ xpc \in {"idle", "returned"} /\ attempts < MaxAttempts
  /\ attempts' = attempts + 1
  /\ xbase' = xsize
  /\ inherited' = dirs
  /\ reported' = {}
  /\ xi' = 0 /\ fsz' = 0
  /\ UNCHANGED <<xsize, destVars, archive>>

(***************************************************************************)
(* zip_open and zip_get_num_entries.  The handle is not tested: when       *)
(* zip_open fails the number of entries is -1, the loop is not entered and *)
(* the call returns true.                                                  *)
(***************************************************************************)
Begin ==
  /\ xpc \in {"idle", "returned"} /\ attempts < MaxAttempts
  /\ attempts' = attempts + 1
  /\ xbase' = xsize
  /\ inherited' = dirs
  /\ reported' = {}
  /\ xi' = 1 /\ fsz' = 0
  /\ UNCHANGED <<xsize, destVars, archive>>

Open ==
  /\ Begin
  /\ archive # NoArchive
  /\ xpc' = "entry" /\ xres' = "none"
  /\ missed' = {}

OpenFails ==
  /\ Begin
  /\ Return("true")
  /\ missed' = {"open"}

\* zip_stat_index fails: the entry is skipped.
SkipEntry ==
  /\ MoreEntries
  /\ Miss("stat")
  /\ NextEntry
  /\ UNCHANGED <<xres, fsz, xsize, destVars, callVars, archive>>

\* Variant: a directory that exists is taken for made.
CanMakeAgain(d) == Holds(Parent[d])

\* Variant: the destination itself is not seen to exist.
CanMakeNested(d) == Parent[d] \in dirs /\ d \notin dirs

(***************************************************************************)
(* An entry whose name ends in '/'.  create_directory is true only if it   *)
(* made the directory: it is false if the directory is there already or    *)
(* its parent is not.                                                      *)
(***************************************************************************)
CanMake(d) == Holds(Parent[d]) /\ d \notin dirs

\* Variant: = for +=.
CountEntryAssigns == xsize' = current.size

CountEntry == xsize' = xsize + current.size

ExtractDir ==
  /\ MoreEntries
  /\ current.node \in Dirs
  /\ CountEntry
  /\ CanMake(current.node)
  /\ dirs' = dirs \cup {current.node}
  /\ \/ NextEntry /\ UNCHANGED <<xres, faultVars>>
     \/ Report("dirCallback") /\ Return("false") /\ UNCHANGED xi
  /\ UNCHANGED <<fsz, data, xmeta, callVars, archive>>

FailDir ==
  /\ MoreEntries
  /\ current.node \in Dirs
  /\ CountEntry
  /\ \/ ~ CanMake(current.node) /\ UNCHANGED faultVars
     \/ Report("mkdir")
  /\ Return("false")
  /\ UNCHANGED <<xi, fsz, destVars, callVars, archive>>

(***************************************************************************)
(* The metadata that the writer is created with.  The lookup of the extra  *)
(* field may fail (it reads the archive) and its result is not tested: the *)
(* writer then gets none, as for an entry that has none, and the call goes *)
(* on.  archive_extract's own writer leaves the metadata unused.           *)
(***************************************************************************)
LookUpMeta ==
  \/ /\ xmeta' = [xmeta EXCEPT ![current.node] = current.meta]
     /\ UNCHANGED faultVars
  \/ /\ current.meta # <<>> /\ Miss("meta")
     /\ xmeta' = [xmeta EXCEPT ![current.node] = <<>>]

\* Variant: the file is opened for appending.
OpenFileAppends ==
  /\ MoreEntries
  /\ current.node \in Files
  /\ CountEntry
  /\ Holds(Parent[current.node])
  /\ data' = [data EXCEPT ![current.node] = IF @ = Absent THEN 0 ELSE @]
  /\ LookUpMeta
  /\ fsz' = 0
  /\ xpc' = "read"
  /\ UNCHANGED <<xres, xi, dirs, callVars, archive>>

(***************************************************************************)
(* Any other entry: zip_fopen_index, the lookup of the metadata and the    *)
(* writer, an ofstream that truncates the file and needs its directory.    *)
(***************************************************************************)
OpenFile ==
  /\ MoreEntries
  /\ current.node \in Files
  /\ CountEntry
  /\ Holds(Parent[current.node])
  /\ data' = [data EXCEPT ![current.node] = 0]
  /\ LookUpMeta
  /\ fsz' = 0
  /\ xpc' = "read"
  /\ UNCHANGED <<xres, xi, dirs, callVars, archive>>

FailFile ==
  /\ MoreEntries
  /\ current.node \in Files
  /\ CountEntry
  /\ \/ Report("fopen") \/ Report("writer")
     \/ ~ Holds(Parent[current.node]) /\ UNCHANGED faultVars
  /\ Return("false")
  /\ UNCHANGED <<xi, fsz, destVars, callVars, archive>>

\* Variant: all of bufcp is written, whatever part of it was read.
ReadChunkWholeBuffer ==
  /\ xpc = "read"
  /\ \E v \in 1..BufCap :
       /\ fsz + v <= current.size
       /\ fsz' = fsz + v
       /\ data' = [data EXCEPT ![current.node] = @ + BufCap]
  /\ UNCHANGED <<xpc, xres, faultVars>>
  /\ UNCHANGED <<xi, xsize, dirs, xmeta, callVars, archive>>

(***************************************************************************)
(* One round of the loop that zip_fread drives.  A file whose writer is    *)
(* destroyed early has any part of what was written to it.  An entry that  *)
(* archive_create made gives no more data than its size: libzip has        *)
(* counted the one when it wrote the other.                                *)
(***************************************************************************)
ReadChunk ==
  /\ xpc = "read"
  /\ \E v \in 1..BufCap :
       /\ fsz + v <= current.size
       /\ \/ /\ fsz' = fsz + v
             /\ data' = [data EXCEPT ![current.node] = @ + v]
             /\ UNCHANGED <<xpc, xres, faultVars>>
          \/ /\ Report("write")
             /\ Return("false")
             /\ KeepPart(fsz + v)
             /\ UNCHANGED fsz
  /\ UNCHANGED <<xi, xsize, dirs, xmeta, callVars, archive>>

\* Variant: the number of bytes is not compared with the entry's size.
EndOfFileUnchecked ==
  /\ xpc = "read"
  /\ NextEntry
  /\ UNCHANGED <<data, faultVars>>
  /\ UNCHANGED <<xres, fsz, xsize, dirs, xmeta, callVars, archive>>

\* Variant: the loop is left only after some data.
EndOfFileNotEmpty ==
  /\ xpc = "read"
  /\ fsz = current.size /\ fsz > 0
  /\ NextEntry
  /\ UNCHANGED <<data, faultVars>>
  /\ UNCHANGED <<xres, fsz, xsize, dirs, xmeta, callVars, archive>>

(***************************************************************************)
(* zip_fread returns 0 or less, which ends the loop whether it is the end  *)
(* of the data or an error.  Only the number of bytes tells the two apart: *)
(* an error after the last byte, which is where libzip compares the CRC,   *)
(* passes for the end.  The ofstream is destroyed here; what it still has  *)
(* to flush may be lost without the code learning of it.                   *)
(***************************************************************************)
EndOfFile ==
  /\ xpc = "read"
  /\ fsz = current.size
  /\ NextEntry
  /\ \/ UNCHANGED <<data, faultVars>>
     \/ Miss("endOfData") /\ UNCHANGED data
     \/ /\ Miss("flush")
        /\ KeepPart(fsz)
  /\ UNCHANGED <<xres, fsz, xsize, dirs, xmeta, callVars, archive>>

ReadFails ==
  /\ xpc = "read"
  /\ fsz < current.size
  /\ Report("read")
  /\ Return("false")
  /\ KeepPart(fsz)
  /\ UNCHANGED <<xi, fsz, xsize, dirs, xmeta, callVars, archive>>

Finish ==
  /\ xpc = "entry" /\ xi > Len(archive)
  /\ Return("true")
  /\ UNCHANGED <<xi, fsz, xsize, destVars, faultVars, callVars, archive>>

(***************************************************************************)
(* External: the process dies inside the call.  A new one finds the        *)
(* destination as it is, its open file possibly short, and its own total   *)
(* at 0.                                                                   *)
(***************************************************************************)
Crash ==
  /\ xpc \in {"entry", "read"}
  /\ xpc' = "idle" /\ xres' = "none"
  /\ xi' = 1 /\ fsz' = 0 /\ xsize' = 0 /\ xbase' = 0
  /\ IF xpc = "read"
     THEN KeepPart(fsz)
     ELSE UNCHANGED data
  /\ reported' = {} /\ missed' = {}
  /\ UNCHANGED <<dirs, xmeta, inherited, attempts, archive>>

-----------------------------------------------------------------------------
Step ==
  \/ SkipEntry
  \/ ExtractDir \/ FailDir
  \/ OpenFile \/ FailFile
  \/ ReadChunk \/ EndOfFile \/ ReadFails
  \/ Finish

Extract == Open \/ OpenFails \/ Step \/ Crash

Next == Extract

Spec == Init /\ [][Next]_vars

\* A call that has begun goes on until it returns or its process dies.
FairSpec == Spec /\ WF_vars(Step)

-----------------------------------------------------------------------------
TypeOK ==
  /\ xpc \in {"idle", "entry", "read", "returned"}
  /\ xres \in {"none", "true", "false"}
  /\ xi \in Nat \ {0} /\ fsz \in Nat /\ xsize \in Nat /\ xbase \in Nat
  /\ dirs \subseteq Dirs /\ inherited \subseteq Dirs
  /\ data \in [Files -> Nat \cup {Absent}]
  /\ xmeta \in [Files -> Seq(Nat)]
  /\ reported \subseteq ReportedKinds /\ missed \subseteq MissedKinds
  /\ attempts \in Nat
  /\ archive = NoArchive \/ WellFormed(archive)

\* The writer of the file of entry e got its metadata, or none if a lookup
\* has failed.
HasMeta(e) ==
  \/ xmeta[e.node] = e.meta
  \/ "meta" \in missed /\ xmeta[e.node] = <<>>

\* The destination has the node of entry e as the archive has it.
Extracted(e) ==
  IF e.node \in Dirs
  THEN e.node \in dirs
  ELSE data[e.node] = e.size /\ HasMeta(e)

(***************************************************************************)
(* A call that returns true has rebuilt every entry completely, whatever   *)
(* an earlier call or a crash left in the destination: short reads, failed *)
(* writes, refused callbacks and missing directories are all reported, and *)
(* the failures of MissedKinds are the only ones that are not.  If it is   *)
(* the metadata of a file that was missed, the rest is still there, and    *)
(* the writer of each file got either its own metadata or none: never, say,*)
(* those of the file before or of an earlier call.                         *)
(***************************************************************************)
TrueIsComplete ==
  (xpc = "returned" /\ xres = "true" /\ OnlyMetaMissed)
    => \A i \in 1..Len(archive) : Extracted(archive[i])

(***************************************************************************)
(* A call does not fail by itself: false means that a library call or a    *)
(* callback has failed, that the destination already held a directory of   *)
(* the archive, or that an entry was skipped before.                       *)
(***************************************************************************)
FalseHasCause ==
  (xpc = "returned" /\ xres = "false")
    => \/ reported # {} \/ "stat" \in missed
       \/ \E i \in 1..xi : archive[i].node \in inherited

(***************************************************************************)
(* Extraction cannot be resumed: once a directory of the archive exists,   *)
(* because a call or a process that died in one has made it, no call on    *)
(* that destination returns true again unless it fails to see the entry.   *)
(***************************************************************************)
NoResume ==
  (xpc = "returned" /\ xres = "true" /\ OnlyMetaMissed)
    => EntryNodes(archive) \cap inherited = {}

(***************************************************************************)
(* Why these hold: what a call under way knows.  The directories it found  *)
(* and those it made are all there is; it has made those of the entries    *)
(* behind it unless it skipped one; those entries are complete unless it   *)
(* missed some of their data; and the file being read has what was read so *)
(* far.                                                                    *)
(***************************************************************************)
Active == xpc \in {"entry", "read"}
Behind == 1..(xi - 1)

CallInv ==
  /\ inherited \subseteq dirs
  /\ Active =>
       /\ archive # NoArchive
       /\ xi <= Len(archive) + 1
       /\ \A d \in dirs \ inherited : \E j \in Behind : archive[j].node = d
       /\ "stat" \notin missed => \A j \in Behind : archive[j].node \in dirs \cup Files
       /\ OnlyMetaMissed => \A j \in Behind :
                              Extracted(archive[j]) /\ archive[j].node \notin inherited
  /\ xpc = "read" =>
       /\ xi <= Len(archive)
       /\ current.node \in Files
       /\ data[current.node] = fsz
       /\ fsz <= current.size
       /\ HasMeta(current)

\* Every call that begins returns or dies.
CallsEnd == xpc \in {"entry", "read"} ~> xpc \in {"idle", "returned"}

-----------------------------------------------------------------------------
Copy == INSTANCE TreeCopy WITH
          busy <- Active, result <- xres, excused <- ~ OnlyMetaMissed

(***************************************************************************)
(* The calls implement TreeCopy: one new directory or one changed file per *)
(* step, and no true before all is there or some of it was missed.         *)
(***************************************************************************)
CopiesTree == Copy!Spec

\* See PartOfTree of TreeCopy.
DestinationIsPart == archive # NoArchive => Copy!PartOfTree

=============================================================================
