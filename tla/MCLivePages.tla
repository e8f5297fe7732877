----------------------------- MODULE MCLivePages -----------------------------
(***************************************************************************)
(* LivePages with two pages of one browser about two records: the page of  *)
(* an Incident and the table of the Field Reports; and with two pages      *)
(* about Visits.                                                           *)
(***************************************************************************)
EXTENDS LivePages, TLC

MCRecords == {"incident", "fieldReport"}
MCSubject == [p \in BrowserPages |-> IF p = "p1" THEN "incident" ELSE "fieldReport"]

MCVisitRecords == {"visit"}
MCVisitSubject == [p \in BrowserPages |-> "visit"]

\* The changes are interchangeable.
ChangeSymmetry == Permutations(Changes)
=============================================================================
