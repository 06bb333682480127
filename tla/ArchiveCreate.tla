---------------------------- MODULE ArchiveCreate ----------------------------
(***************************************************************************)
(* archive_create (utility/src/archive.cpp): open an archive that must not *)
(* exist, walk the tree below _root adding one entry per node, and write   *)
(* everything with zip_close.                                              *)
(*                                                                         *)
(* The recursion of zip_add_dir is the set of directories whose            *)
(* directory_iterator is live: they form a chain from Root to `cur', so    *)
(* returning from zip_add_dir moves `cur' to its parent.  A                *)
(* directory_iterator gives its children in any order.                     *)
(*                                                                         *)
(* libzip reads the files only inside zip_close, so a file may change      *)
(* after file_size() was added to the total: Resize is another program     *)
(* writing to it.  The archive appears only with zip_close too, by a       *)
(* rename: OtherCloses is another program that was making an archive under *)
(* the same name and gets there first.  Every failure of a library call    *)
(* that the code does not look at is remembered in `dropped', which the    *)
(* code does not have.                                                     *)
(***************************************************************************)
EXTENDS SourceTree

CONSTANTS
  Meta,        \* what _meta_fnc appends to the metadata buffer for each file
  MetaWidth,   \* 2^16: the length of an extra field is a 16 bit integer
  NoArchive,   \* no file exists at _zip_path
  Others,      \* the archives other programs may put there
  MaxSize,     \* bound on the size of a file
  MaxCalls,    \* bound on the number of calls of archive_create
  MaxDropped,  \* bound on the ignored failures of one call
  MaxResizes   \* bound on the changes other programs make to files

AnyEntry == [node : Nodes, size : Nat, meta : Seq(Nat)]

ASSUME CreateAssumption ==
  /\ Meta \in [Files -> Seq(Nat)]
  /\ MetaWidth \in Nat \ {0}
  /\ NoArchive \notin Seq(AnyEntry)
  /\ Others \subseteq Seq(AnyEntry)
  /\ {MaxSize, MaxCalls, MaxDropped, MaxResizes} \subseteq Nat

VARIABLES
  cpc,         \* "idle", "walk" or "returned"
  cres,        \* the outcome of the call: "none", "true", "false", "threw"
  iters,       \* the directories with a live directory_iterator
  cur,         \* the innermost of them
  visited,     \* the nodes the iterators have given so far
  entries,     \* the entries of *pzip, in the order they were added
  metaData,    \* the buffer meta_data shared by all files of a call
  csize,       \* _runcompressed_size
  disk,        \* the size each source file has now
  resizes,     \* how often another program has changed a file
  dirty,       \* whether that happened during this call
  dropped,     \* the failures this call has ignored
  calls,       \* the number of calls so far
  raced,       \* whether another program made an archive during this call
  archive      \* what is at _zip_path

walkVars == <<iters, cur, visited>>
diskVars == <<disk, resizes, dirty>>
createVars == <<cpc, cres, walkVars, entries, metaData, csize, diskVars, dropped, calls, raced>>
vars == <<createVars, archive>>

DroppedKinds == {"source", "add", "dir", "extra", "close"}

-----------------------------------------------------------------------------
Init ==
  /\ cpc = "idle" /\ cres = "none"
  /\ iters = {} /\ cur = Root /\ visited = {}
  /\ entries = <<>> /\ metaData = <<>>
  /\ csize = 0
  /\ disk \in [Files -> 0..MaxSize] /\ resizes = 0 /\ dirty = FALSE
  /\ dropped = {}
  /\ calls = 0 /\ raced = FALSE
  /\ archive = NoArchive

Return(result) == cpc' = "returned" /\ cres' = result

\* A failed library call whose result the code does not look at.
Drop(kind) ==
  /\ Cardinality(dropped) < MaxDropped
  /\ dropped' = dropped \cup {kind}

Keep == dropped' = dropped

-----------------------------------------------------------------------------
(***************************************************************************)
(* The head of archive_create.  zip_open with ZIP_CREATE | ZIP_EXCL fails  *)
(* when the archive exists, and may fail anyway: then the caller's total   *)
(* is left alone.  Once it has succeeded the total is cleared, and the     *)
(* call ends with false, without a zip_close, if _root is not a directory. *)
(***************************************************************************)
Begin ==
  /\ cpc \in {"idle", "returned"} /\ calls < MaxCalls
  /\ calls' = calls + 1
  /\ visited' = {} /\ entries' = <<>> /\ metaData' = <<>>
  /\ dropped' = {} /\ dirty' = FALSE /\ raced' = FALSE
  /\ UNCHANGED <<disk, resizes, archive>>

OpenFails ==
  /\ Begin
  /\ Return("false")
  /\ UNCHANGED <<iters, cur, csize>>

\* Variant: zip_open without ZIP_EXCL.
OpenNotExclusive ==
  /\ Begin
  /\ csize' = 0
  /\ cpc' = "walk" /\ cres' = "none" /\ iters' = {Root} /\ cur' = Root

\* Variant: the total is not cleared.
OpenKeepsTotal ==
  /\ Begin
  /\ archive = NoArchive
  /\ cpc' = "walk" /\ cres' = "none" /\ iters' = {Root} /\ cur' = Root
  /\ UNCHANGED csize

Open ==
  /\ Begin
  /\ archive = NoArchive
  /\ csize' = 0
  /\ \/ cpc' = "walk" /\ cres' = "none" /\ iters' = {Root} /\ cur' = Root
     \/ Return("false") /\ UNCHANGED <<iters, cur>>

(***************************************************************************)
(* The iterator of `cur' gives n: the loops of archive_create and          *)
(* zip_add_dir.                                                            *)
(***************************************************************************)
Visit(n) ==
  /\ cpc = "walk"
  /\ n \in Children(cur) \ visited
  /\ visited' = visited \cup {n}

\* Variant: the entry of the directory is forgotten.
AddDirNoEntry(n) ==
  /\ n \in Dirs
  /\ Visit(n)
  /\ iters' = iters \cup {n} /\ cur' = n
  /\ UNCHANGED <<cpc, cres, entries, dropped, metaData, csize, diskVars, calls, raced, archive>>

\* zip_add_dir up to its own loop; the result of zip_dir_add is only logged.
AddDir(n) ==
  /\ n \in Dirs
  /\ Visit(n)
  /\ \/ Keep /\ entries' = Append(entries, Entry(n, 0, <<>>))
     \/ Drop("dir") /\ UNCHANGED entries
  /\ iters' = iters \cup {n} /\ cur' = n
  /\ UNCHANGED <<cpc, cres, metaData, csize, diskVars, calls, raced, archive>>

\* Variant: the buffer is not cleared.
FilledMetaKept(n) == metaData \o Meta[n]

\* The buffer after clear() and _meta_fnc.
FilledMeta(n) == Meta[n]

\* What the extra field holds: its length is cut to 16 bits.
StoredMeta(buffer) == SubSeq(buffer, 1, Len(buffer) % MetaWidth)

\* Variant: the size of a file is taken off the total.
AddFileSubtracts(n) ==
  /\ n \in Files
  /\ Visit(n)
  /\ csize' = csize - disk[n]
  /\ metaData' = FilledMeta(n)
  /\ entries' = Append(entries, Entry(n, disk[n], StoredMeta(metaData')))
  /\ UNCHANGED <<cpc, cres, iters, cur, dropped, diskVars, calls, raced, archive>>

(***************************************************************************)
(* zip_add_file.  The size is counted before zip_file_add can fail.        *)
(***************************************************************************)
AddFile(n) ==
  /\ n \in Files
  /\ Visit(n)
  /\ csize' = csize + disk[n]
  /\ \/ /\ Drop("add")
        /\ UNCHANGED <<entries, metaData>>
     \/ /\ metaData' = FilledMeta(n)
        /\ \/ Keep /\ entries' = Append(entries, Entry(n, disk[n], StoredMeta(metaData')))
           \/ /\ metaData' # <<>>
              /\ Drop("extra")
              /\ entries' = Append(entries, Entry(n, disk[n], <<>>))
  /\ UNCHANGED <<cpc, cres, iters, cur, diskVars, calls, raced, archive>>

\* zip_source_file fails: the file is skipped.
SkipFile(n) ==
  /\ n \in Files
  /\ Visit(n)
  /\ Drop("source")
  /\ UNCHANGED <<cpc, cres, iters, cur, entries, metaData, csize, diskVars, calls, raced, archive>>

\* file_size() or a directory_iterator throws: *pzip is never closed.  So it
\* is if the process dies.
Throw ==
  /\ cpc = "walk"
  /\ Return("threw")
  /\ UNCHANGED <<walkVars, entries, metaData, csize, diskVars, dropped, calls, raced, archive>>

\* Variant: the recursion returns before its loop is done.
LeaveDirEarly ==
  /\ cpc = "walk" /\ cur # Root
  /\ iters' = iters \ {cur} /\ cur' = Parent[cur]
  /\ UNCHANGED <<cpc, cres, visited, entries, metaData, csize, diskVars, dropped, calls, raced, archive>>

\* The loop of zip_add_dir is done: back to its caller's loop.
LeaveDir ==
  /\ cpc = "walk" /\ cur # Root
  /\ Children(cur) \subseteq visited
  /\ iters' = iters \ {cur} /\ cur' = Parent[cur]
  /\ UNCHANGED <<cpc, cres, visited, entries, metaData, csize, diskVars, dropped, calls, raced, archive>>

(***************************************************************************)
(* zip_close.  What it stores for a file is its size when it was added or  *)
(* its size now, which of the two depends on the library's build; a file   *)
(* that has shrunk has only its new size to give.  An archive without      *)
(* entries is not written at all.  The result is ignored: the call returns *)
(* true also when nothing was written.                                     *)
(***************************************************************************)
Stored(atAdd) ==
  [i \in DOMAIN entries |->
     IF atAdd \/ entries[i].node \in Dirs
     THEN entries[i]
     ELSE [entries[i] EXCEPT !.size = disk[entries[i].node]]]

NoneShrunk == \A i \in DOMAIN entries :
                entries[i].node \in Files => entries[i].size <= disk[entries[i].node]

\* Variant: the archive is closed from wherever the walk is.
CloseAnywhere ==
  /\ cpc = "walk"
  /\ Return("true")
  /\ Keep /\ archive' = IF entries = <<>> THEN archive ELSE Stored(FALSE)
  /\ UNCHANGED <<walkVars, entries, metaData, csize, diskVars, calls, raced>>

\* Variant: the archive is closed only if every node was added.
CloseComplete ==
  /\ cpc = "walk" /\ cur = Root
  /\ Nodes \subseteq EntryNodes(entries)
  /\ Return("true")
  /\ Keep /\ archive' = Stored(FALSE)
  /\ UNCHANGED <<walkVars, entries, metaData, csize, diskVars, calls, raced>>

Close ==
  /\ cpc = "walk" /\ cur = Root
  /\ Children(Root) \subseteq visited
  /\ Return("true")
  /\ \/ /\ Keep
        /\ \E atAdd \in BOOLEAN :
             /\ atAdd => NoneShrunk
             /\ archive' = IF entries = <<>> THEN archive ELSE Stored(atAdd)
     \/ /\ Drop("close")
        /\ UNCHANGED archive
  /\ UNCHANGED <<walkVars, entries, metaData, csize, diskVars, calls, raced>>

\* Another program writes to a source file.
Resize(f) ==
  /\ resizes < MaxResizes
  /\ resizes' = resizes + 1
  /\ \E s \in (0..MaxSize) \ {disk[f]} : disk' = [disk EXCEPT ![f] = s]
  /\ dirty' = TRUE
  /\ UNCHANGED <<cpc, cres, walkVars, entries, metaData, csize, dropped, calls, raced, archive>>

\* Another program's zip_close.
OtherCloses ==
  /\ cpc = "walk" /\ ~ raced
  /\ raced' = TRUE
  /\ archive' \in Others
  /\ UNCHANGED <<cpc, cres, walkVars, entries, metaData, csize, diskVars, dropped, calls>>

-----------------------------------------------------------------------------
Walk ==
  \/ \E n \in Nodes : AddDir(n) \/ AddFile(n) \/ SkipFile(n)
  \/ LeaveDir
  \/ Close

Create == OpenFails \/ Open \/ Walk \/ Throw

Next == Create \/ OtherCloses \/ \E f \in Files : Resize(f)

Spec == Init /\ [][Next]_vars

\* A call that has begun is executed to its end, unless it throws; calls need
\* not be made.
FairSpec == Spec /\ WF_vars(Walk)

-----------------------------------------------------------------------------
TypeOK ==
  /\ cpc \in {"idle", "walk", "returned"}
  /\ cres \in {"none", "true", "false", "threw"}
  /\ iters \subseteq Dirs \cup {Root}
  /\ cur \in Dirs \cup {Root}
  /\ visited \subseteq Nodes
  /\ entries \in Seq(AnyEntry)
  /\ metaData \in Seq(Nat)
  /\ csize \in Nat
  /\ disk \in [Files -> Nat]
  /\ resizes \in Nat /\ dirty \in BOOLEAN
  /\ dropped \subseteq DroppedKinds
  /\ calls \in Nat /\ raced \in BOOLEAN
  /\ archive \in Seq(AnyEntry) \cup {NoArchive}

(***************************************************************************)
(* do_archive_extract creates directories one level at a time, so an       *)
(* archive is only usable if every directory comes before what it holds.   *)
(* It does, as long as no zip_dir_add was dropped.                         *)
(***************************************************************************)
ParentsPrecede == "dir" \notin dropped => ParentsFirst(entries)

\* The walk never adds a node twice: create_directory on the second entry of
\* a directory would make the whole extraction fail.
EntriesDistinct == NamesDistinct(entries)

(***************************************************************************)
(* A call that returns true and has ignored no failure has written every   *)
(* node of the tree: the walk neither stops early nor loses a subtree when *)
(* zip_add_dir returns.                                                    *)
(***************************************************************************)
TrueArchivesAll ==
  (cpc = "returned" /\ cres = "true" /\ dropped = {} /\ Nodes # {})
    => archive # NoArchive /\ EntryNodes(archive) = Nodes

(***************************************************************************)
(* The metadata an entry carries is what _meta_fnc produced for that very  *)
(* file, though all files share one buffer; unless it does not fit the 16  *)
(* bit length of an extra field or storing it failed.                      *)
(***************************************************************************)
MetaIsOwn ==
  \A i \in DOMAIN entries :
    LET e == entries[i]
    IN  (e.node \in Files /\ Len(Meta[e.node]) < MetaWidth /\ "extra" \notin dropped)
          => e.meta = Meta[e.node]

(***************************************************************************)
(* ZIP_EXCL: a call replaces an archive that is already there only if it   *)
(* appeared after the call's own zip_open, however many calls are made and *)
(* however they end.  zip_close does not look again.                       *)
(***************************************************************************)
ReplacesOnlyInRace ==
  [][archive # NoArchive /\ archive' # archive => raced']_vars

(***************************************************************************)
(* Why these hold: what the recursion knows.  The live iterators are a     *)
(* chain of directories, each but Root given by the one before it, that    *)
(* ends in `cur'; a directory that was given and is not live has given     *)
(* everything it holds; an entry stands for every node that was given,     *)
(* unless a failure was ignored; and there is no archive until somebody    *)
(* closes one.                                                             *)
(***************************************************************************)
Chain ==
  /\ Root \in iters /\ cur \in iters
  /\ \A d \in iters \ {Root} :
       /\ d \in visited
       /\ Parent[d] \in iters
       /\ Parent[d] # cur
  /\ \A d, e \in iters \ {Root} : Parent[d] = Parent[e] => d = e

LeftIsDone == \A d \in (visited \cap Dirs) \ iters : Children(d) \subseteq visited

EntriesMatchWalk ==
  /\ EntryNodes(entries) \subseteq visited
  /\ "dir" \notin dropped => visited \cap Dirs \subseteq EntryNodes(entries)
  /\ dropped = {} => visited \subseteq EntryNodes(entries)

WalkInv ==
  cpc = "walk" =>
    /\ Chain
    /\ LeftIsDone
    /\ EntriesMatchWalk
    /\ ~ raced => archive = NoArchive

\* The walk of a finite tree ends, whatever fails on the way.
CallsReturn == cpc = "walk" ~> cpc = "returned"

=============================================================================
