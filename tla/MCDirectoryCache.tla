-------------------------- MODULE MCDirectoryCache --------------------------
(***************************************************************************)
(* DirectoryCache with two people, an administrator with two statements    *)
(* and a clock that outlasts a cached answer and the token made from it.   *)
(***************************************************************************)
EXTENDS DirectoryCache, TLC

Symmetry == Permutations(Readers)
=============================================================================
