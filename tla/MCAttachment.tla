---------------------------- MODULE MCAttachment ----------------------------
(***************************************************************************)
(* Attachment with two Incidents to attach to, so that the record can be   *)
(* taken from one to the other, a third that does not exist, and edits of  *)
(* the summary.                                                            *)
(***************************************************************************)
EXTENDS Attachment, TLC

MCIncidents == {"i1", "i2"}
MCInitRow == [incident |-> NoIncident, summary |-> "old"]
MCPatches ==
  {"incident" :> "i1", "incident" :> "i2", "incident" :> NoIncident,
   "incident" :> Missing, "summary" :> "new"}

\* The requests are interchangeable.
RequestSymmetry == Permutations(Requests)
=============================================================================
