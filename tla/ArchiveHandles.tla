--------------------------- MODULE ArchiveHandles ---------------------------
(***************************************************************************)
(* A process that extracts archives one after the other.  Every call of    *)
(* do_archive_extract that gets an archive open keeps it open, because no  *)
(* return of it is preceded by a zip_close (utility/src/archive.cpp:130).  *)
(* A process has MaxHandles files open at most; the ofstream of a file is  *)
(* one of them as long as the file is written.                             *)
(***************************************************************************)
EXTENDS ArchiveExtract

CONSTANT MaxHandles  \* a natural number

VARIABLES
  handles,  \* the archives this process has left open
  lifetime  \* the calls it has made

handlesVars == <<vars, handles, lifetime>>

HandlesInit == Init /\ handles = 0 /\ lifetime = 0

HandlesLeft == handles < MaxHandles

\* What one call keeps open.
Opens == 1

CallExtract ==
  /\ lifetime' = lifetime + 1
  /\ \/ Open /\ HandlesLeft /\ handles' = handles + Opens
     \/ OpenFails /\ (archive = NoArchive \/ ~ HandlesLeft) /\ UNCHANGED handles

\* The writer of a file cannot be opened.
NoWriter ==
  /\ ~ HandlesLeft
  /\ MoreEntries /\ current.node \in Files
  /\ CountEntry
  /\ Return("false")
  /\ UNCHANGED <<xi, fsz, destVars, faultVars, callVars, archive>>

HandlesNext ==
  \/ CallExtract
  \/ Step /\ (OpenFile => HandlesLeft) /\ UNCHANGED <<handles, lifetime>>
  \/ NoWriter /\ UNCHANGED <<handles, lifetime>>
  \/ Crash /\ handles' = 0 /\ lifetime' = 0

HandlesSpec == HandlesInit /\ [][HandlesNext]_handlesVars

-----------------------------------------------------------------------------
(***************************************************************************)
(* What test_archive.cpp:77-78 expect of a call that returns true: of an   *)
(* archive that is there and has data, something is counted.  Claimed for  *)
(* calls in which nothing fails but what the process has used up itself.   *)
(***************************************************************************)
TrueCounts ==
  ( /\ xpc = "returned" /\ xres = "true"
    /\ missed \subseteq {"open"} /\ archive # NoArchive
    /\ \E i \in DOMAIN archive : archive[i].size # 0 )
      => xsize - xbase # 0

=============================================================================
