------------------------------ MODULE MCFileSystem ------------------------------
(* FileSystem on a small disk. *)
EXTENDS FileSystem

Symmetry == Permutations(Names)
===============================================================================
