---------------------------- MODULE MCRecordEdit ----------------------------
(***************************************************************************)
(* RecordEdit on a small instance: a Visit with its two times, whose order *)
(* is checked after the merge, and requests that overlap on neither, one   *)
(* or both of them.                                                        *)
(***************************************************************************)
EXTENDS RecordEdit, TLC

MCFields == {"arrival", "departure"}
MCInitRow == [arrival |-> 0, departure |-> 1]
MCValidRows == {rw \in [MCFields -> 0 .. 1] : rw.arrival <= rw.departure}
MCPatches ==
  {<<>>, "arrival" :> 1, "departure" :> 0, [arrival |-> 0, departure |-> 0]}
MCBodies ==
  {<< <<>>, TRUE>>, <<"arrival" :> 1, TRUE>>, <<"departure" :> 0, FALSE>>,
   <<[arrival |-> 0, departure |-> 0], FALSE>>}

\* The requests are interchangeable.
RequestSymmetry == Permutations(Requests)
=============================================================================
