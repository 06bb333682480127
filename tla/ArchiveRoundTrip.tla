--------------------------- MODULE ArchiveRoundTrip ---------------------------
(***************************************************************************)
(* What utility/test/test_archive.cpp does, with the faults it does not    *)
(* have: archive_create packs a tree and archive_extract, of the same      *)
(* process or of another one, rebuilds it somewhere else.  They share      *)
(* nothing but the file at _zip_path and interleave freely.                *)
(*                                                                         *)
(* The archive is only ever put in place whole, so a step of the one is a  *)
(* step of its own module and leaves the variables of the other alone.     *)
(***************************************************************************)
EXTENDS ArchiveCreate, FiniteSetsExt

CONSTANTS BufCap, MaxAttempts, MaxFaults  \* see ArchiveExtract

VARIABLES xpc, xres, xi, fsz, xsize, xbase, dirs, data, xmeta,
          inherited, reported, missed, attempts  \* see ArchiveExtract

X == INSTANCE ArchiveExtract WITH InitArchives <- {NoArchive}

\* One program makes the archive: there is nobody else to race with.  The
\* others are what ArchiveExtract assumes of its constants.
ASSUME RoundTripAssumption ==
  /\ Others = {}
  /\ BufCap \in Nat \ {0}
  /\ {MaxAttempts, MaxFaults} \subseteq Nat

extractVars == <<xpc, xres, xi, fsz, xsize, xbase, dirs, data, xmeta,
                 inherited, reported, missed, attempts>>
roundTripVars == <<vars, extractVars>>

RoundTripInit == Init /\ X!Init

RoundTripNext ==
  \/ Next /\ UNCHANGED extractVars
  \/ X!Next /\ UNCHANGED createVars

RoundTripSpec == RoundTripInit /\ [][RoundTripNext]_roundTripVars

-----------------------------------------------------------------------------
\* Both calls have returned true.
BothTrue ==
  /\ cpc = "returned" /\ cres = "true"
  /\ xpc = "returned" /\ xres = "true"

\* No failure was ignored by either, but for that of looking up metadata,
\* and the source has not changed since.
Undisturbed == dropped = {} /\ ~ dirty /\ X!OnlyMetaMissed

(***************************************************************************)
(* If both calls return true, nothing that they do not look at has failed  *)
(* and the source is still what it was, then the destination has all of    *)
(* its directories, and each of its files with the source's size: whatever *)
(* calls that returned false, threw or died there were before, on either   *)
(* side.  The writer of a file got the metadata that _meta_fnc gave for it *)
(* if they fit, or none if their lookup has failed.                        *)
(***************************************************************************)
RebuildsTree ==
  (BothTrue /\ Undisturbed)
    => /\ dirs = Dirs
       /\ \A f \in Files :
            /\ data[f] = disk[f]
            /\ Len(Meta[f]) < MetaWidth =>
                 xmeta[f] = Meta[f] \/ ("meta" \in missed /\ xmeta[f] = <<>>)

(***************************************************************************)
(* The two totals agree, as test_archive.cpp:78 wants, if what the caller  *)
(* passed to archive_extract is subtracted: it only ever adds to it.       *)
(***************************************************************************)
TotalsAgree == (BothTrue /\ Undisturbed) => xsize - xbase = csize

(***************************************************************************)
(* Seen from the side that extracts, which knows nothing of the other: a   *)
(* call that returns true has added the sizes of the entries of the        *)
(* archive, each of them once.                                             *)
(***************************************************************************)
TotalIsSumOfEntries ==
  (xpc = "returned" /\ xres = "true" /\ X!OnlyMetaMissed)
    => xsize - xbase = MapThenSumSet(LAMBDA i : archive[i].size, DOMAIN archive)

-----------------------------------------------------------------------------
(***************************************************************************)
(* The test itself: it extracts only after archive_create returned true    *)
(* (test_archive.cpp:73), and ends with that.                              *)
(***************************************************************************)
TestNext ==
  \/ xpc = "idle" /\ Next /\ UNCHANGED extractVars
  \/ cpc = "returned" /\ cres = "true" /\ X!Next /\ UNCHANGED createVars

TestSpec == RoundTripInit /\ [][TestNext]_roundTripVars

(***************************************************************************)
(* The check at its end (test_archive.cpp:78): both calls returned true,   *)
(* so the totals agree and are not 0.  Claimed for a source that has data  *)
(* and that nobody changes, and an archive that opens if it is there.      *)
(***************************************************************************)
TestCheck ==
  ( /\ BothTrue
    /\ ~ dirty
    /\ \E f \in Files : disk[f] # 0
    /\ X!OnlyMetaMissed \/ archive = NoArchive )
      => csize = xsize /\ xsize # 0

=============================================================================
