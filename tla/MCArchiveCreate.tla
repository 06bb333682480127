--------------------------- MODULE MCArchiveCreate ---------------------------
(***************************************************************************)
(* archive_create on the tree                                              *)
(*      root/f1   root/d1/f2   root/d1/d2/   root/d1/d2/f3                 *)
(* in which a directory holds a file and a directory, so that the walk has *)
(* to come back to a directory it has not finished.                        *)
(***************************************************************************)
EXTENDS ArchiveCreate, TLC

CONSTANTS root, d1, d2, f1, f2, f3

MCDirs == {d1, d2}
MCFiles == {f1, f2, f3}
MCParent == (d1 :> root) @@ (f1 :> root) @@ (f2 :> d1) @@ (d2 :> d1) @@ (f3 :> d2)

\* f1 has metadata, f2 has none, f3 has exactly as much as overflows the
\* 16 bit length, here two bits wide.
MCMeta == (f1 :> <<7, 8>>) @@ (f2 :> <<>>) @@ (f3 :> <<1, 2, 3, 4>>)
MCMetaWidth == 4

MCOthers == { << Entry(f1, 0, <<>>) >> }

=============================================================================
