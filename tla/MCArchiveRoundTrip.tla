-------------------------- MODULE MCArchiveRoundTrip --------------------------
(***************************************************************************)
(* archive_create and archive_extract on the tree                          *)
(*      root/f1   root/d1/f2   root/d1/d2/                                 *)
(* with a file at each level and a directory in a directory.               *)
(***************************************************************************)
EXTENDS ArchiveRoundTrip, TLC

CONSTANTS root, d1, d2, f1, f2

MCDirs == {d1, d2}
MCFiles == {f1, f2}
MCParent == (d1 :> root) @@ (f1 :> root) @@ (f2 :> d1) @@ (d2 :> d1)

\* f1's metadata overflows the 16 bit length, here two bits wide.
MCMeta == (f1 :> <<1, 2, 3, 4, 5>>) @@ (f2 :> <<9>>)
MCMetaWidth == 4

=============================================================================
