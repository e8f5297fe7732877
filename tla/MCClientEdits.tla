--------------------------- MODULE MCClientEdits ---------------------------
(***************************************************************************)
(* ClientEdits with two controls, f and g.                                 *)
(***************************************************************************)
EXTENDS ClientEdits, TLC

\* The controls are alike.
Symmetry == Permutations(Fields)
=============================================================================
