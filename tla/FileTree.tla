-------------------------------- MODULE FileTree --------------------------------
(***************************************************************************)
(* What the file system of MP4 promises (filesys/filesys.h): a tree of     *)
(* directories and of files of fixed size, in which each operation touches *)
(* the file or the directory it is about and nothing else, and an          *)
(* operation that fails changes nothing.                                   *)
(***************************************************************************)
EXTENDS Integers, SequencesExt

CONSTANTS Sizes, Values, Blank

VARIABLE tree \* the files and the directories; a directory has no data

Dir(path) == [path |-> path, isDir |-> TRUE, data |-> <<>>]

\* The path is not in use, and is in the root or in a directory of the tree.
HasPlace(path, nodes) ==
  /\ \A n \in nodes : n.path # path
  /\ Len(path) = 1 \/ Dir(Front(path)) \in nodes

Adds(old, new) ==
  \E n \in new \ old :
    /\ HasPlace(n.path, old)
    /\ new = old \cup {n}
    /\ n.isDir \/ (Len(n.data) \in Sizes /\ \A i \in DOMAIN n.data : n.data[i] = Blank)

\* A file, or a directory with all that is below it.
Deletes(old, new) == \E n \in old : new = {m \in old : ~IsPrefix(n.path, m.path)}

Updates(old, new) ==
  \E n \in old : \E i \in DOMAIN n.data, value \in Values :
    new = (old \ {n}) \cup {[n EXCEPT !.data[i] = value]}

TInit == tree = {}
TNext == \E old \in {tree}, new \in {tree'} : Adds(old, new) \/ Deletes(old, new) \/ Updates(old, new)
TSpec == TInit /\ [][TNext]_tree
===============================================================================
