-------------------------- MODULE MCArchiveExtract --------------------------
(***************************************************************************)
(* archive_extract of archives of the tree of MCArchiveCreate: the whole   *)
(* tree, with the file of a directory before and after its subdirectory,   *)
(* an archive of files only, and none.  A file is empty, or as long as one *)
(* read of zip_fread, or longer.                                           *)
(***************************************************************************)
EXTENDS ArchiveExtract, TLC

CONSTANTS root, d1, d2, f1, f2, f3

MCDirs == {d1, d2}
MCFiles == {f1, f2, f3}
MCParent == (d1 :> root) @@ (f1 :> root) @@ (f2 :> d1) @@ (d2 :> d1) @@ (f3 :> d2)

Directory(d) == Entry(d, 0, <<>>)

MCInitArchives ==
  { NoArchive,
    << Entry(f1, 3, <<7>>), Directory(d1), Directory(d2), Entry(f3, 2, <<>>),
       Entry(f2, 0, <<8>>) >>,
    << Directory(d1), Entry(f2, 3, <<>>), Directory(d2), Entry(f1, 1, <<7>>) >>,
    << Entry(f1, 2, <<>>) >> }

=============================================================================
