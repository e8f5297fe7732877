--------------------------- MODULE MCRecordCreate ---------------------------
(***************************************************************************)
(* RecordCreate with enough creators for one of them to lose every attempt *)
(* it has.                                                                 *)
(***************************************************************************)
EXTENDS RecordCreate, TLC

\* The creators are interchangeable.
RequestSymmetry == Permutations(Requests)
=============================================================================
