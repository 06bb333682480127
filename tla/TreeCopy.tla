------------------------------- MODULE TreeCopy -------------------------------
(***************************************************************************)
(* What archive_extract is to those who call it: it copies an archive to a *)
(* destination a piece at a time, and says whether all of it is there.     *)
(* The destination is shared with the calls before and those after, and is *)
(* never put back; a call may be cut off.  `excused' says that something   *)
(* went wrong which the call cannot notice.                                *)
(***************************************************************************)
EXTENDS SourceTree, Integers

CONSTANTS NoArchive, InitArchives  \* see ArchiveExtract

VARIABLES
  archive,  \* what is copied
  busy,     \* a call is under way
  result,   \* what the last one returned
  excused,  \* whether it missed a failure
  dirs,     \* the directories of the destination
  data      \* how much each of its files has, Absent if it is not there

dest == <<dirs, data>>
vars == <<archive, busy, result, excused, dest>>

Absent == -1

Init ==
  /\ archive \in InitArchives
  /\ busy = FALSE /\ result = "none" /\ excused = FALSE
  /\ dirs = {} /\ data = [f \in Files |-> Absent]

Holds(d) == d = Root \/ d \in dirs

\* A new directory, in one that is there.
MakeDir(e) ==
  /\ e.node \in Dirs \ dirs
  /\ Holds(Parent[e.node])
  /\ dirs' = dirs \cup {e.node}
  /\ UNCHANGED data

\* A file, new or not, gets some of its bytes, or loses some.
Fill(e) ==
  /\ e.node \in Files
  /\ data[e.node] # Absent \/ Holds(Parent[e.node])
  /\ \E k \in 0..e.size : data' = [data EXCEPT ![e.node] = k]
  /\ UNCHANGED dirs

Change == UNCHANGED dest \/ \E i \in 1..Len(archive) : MakeDir(archive[i]) \/ Fill(archive[i])

Complete ==
  \A i \in 1..Len(archive) :
    LET e == archive[i]
    IN  IF e.node \in Dirs THEN e.node \in dirs ELSE data[e.node] = e.size

-----------------------------------------------------------------------------
Start ==
  /\ ~ busy
  /\ archive # NoArchive
  /\ busy' = TRUE /\ result' = "none" /\ excused' = FALSE
  /\ UNCHANGED dest

\* A call that gets nowhere and does not notice.
Blind ==
  /\ ~ busy
  /\ busy' = FALSE /\ result' = "true" /\ excused' = TRUE
  /\ UNCHANGED dest

Work ==
  /\ busy
  /\ busy' = TRUE /\ excused' \in {excused, TRUE}
  /\ Change
  /\ UNCHANGED result

Succeed ==
  /\ busy
  /\ excused \/ Complete
  /\ busy' = FALSE /\ result' = "true"
  /\ UNCHANGED <<excused, dest>>

Fail ==
  /\ busy
  /\ busy' = FALSE /\ result' = "false"
  /\ Change
  /\ UNCHANGED excused

Die ==
  /\ busy
  /\ busy' = FALSE /\ result' = "none" /\ excused' = FALSE
  /\ Change

Next == (Start \/ Blind \/ Work \/ Succeed \/ Fail \/ Die) /\ UNCHANGED archive

Spec == Init /\ [][Next]_vars

-----------------------------------------------------------------------------
(***************************************************************************)
(* After every call and every crash the destination is part of the tree    *)
(* that was archived: nothing is there that the archive does not have,     *)
(* nothing is longer than it was, and everything has its directory.        *)
(***************************************************************************)
PartOfTree ==
  /\ \A d \in dirs : Holds(Parent[d]) /\ \E i \in 1..Len(archive) : archive[i].node = d
  /\ \A f \in Files :
       data[f] # Absent =>
         /\ Holds(Parent[f])
         /\ \E i \in 1..Len(archive) : archive[i].node = f /\ data[f] \in 0..archive[i].size

=============================================================================
