-------------------------- MODULE MCArchiveHandles --------------------------
(***************************************************************************)
(* A process that may have two files open and makes four calls.            *)
(***************************************************************************)
EXTENDS ArchiveHandles, TLC

CONSTANTS root, d1, f1, f2

MCDirs == {d1}
MCFiles == {f1, f2}
MCParent == (d1 :> root) @@ (f1 :> root) @@ (f2 :> d1)

MCInitArchives ==
  { NoArchive,
    << Entry(f1, 1, <<>>) >>,
    << Entry(f1, 1, <<>>), Entry(d1, 0, <<>>), Entry(f2, 2, <<>>) >> }

=============================================================================
