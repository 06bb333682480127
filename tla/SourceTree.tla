----------------------------- MODULE SourceTree -----------------------------
(***************************************************************************)
(* The directory tree that archive_create packs and archive_extract        *)
(* rebuilds (utility/src/archive.cpp).  Names are abstracted to the nodes  *)
(* they denote: the path of a node below _root and the path of its parent  *)
(* are all the code derives from a name.                                   *)
(***************************************************************************)
EXTENDS Naturals, FiniteSets, Sequences

CONSTANTS
  Root,       \* the directory named by _root; it gets no entry of its own
  Dirs,       \* the directories below it
  Files,      \* everything below it that is_directory() is false of
  Parent      \* the directory that holds each of them

Nodes == Dirs \cup Files

Children(d) == {n \in Nodes : Parent[n] = d}

(***************************************************************************)
(* Root, Dirs and Files are disjoint, and every node is reached from Root: *)
(* a set that holds the children of Root and of its own directories holds  *)
(* every node.  A tree in which a symbolic link leads back to an ancestor  *)
(* is excluded; zip_add_dir would not return from it.                      *)
(***************************************************************************)
ASSUME TreeAssumption ==
  /\ Root \notin Nodes
  /\ Dirs \cap Files = {}
  /\ Parent \in [Nodes -> Dirs \cup {Root}]
  /\ \A S \in SUBSET Nodes :
        (\A d \in {Root} \cup (S \cap Dirs) : Children(d) \subseteq S) => S = Nodes

(***************************************************************************)
(* An entry of an archive: the node it names, its uncompressed size and    *)
(* the metadata stored in its extra field 0x3333.                          *)
(***************************************************************************)
Entry(n, size, meta) == [node |-> n, size |-> size, meta |-> meta]

\* Every entry comes after the entry of its parent directory.
ParentsFirst(a) ==
  \A i \in 1..Len(a) :
    \/ Parent[a[i].node] = Root
    \/ \E j \in 1..(i - 1) : a[j].node = Parent[a[i].node]

\* No two entries name the same node.
NamesDistinct(a) ==
  \A i, j \in 1..Len(a) : a[i].node = a[j].node => i = j

EntryNodes(a) == {a[i].node : i \in 1..Len(a)}

=============================================================================
