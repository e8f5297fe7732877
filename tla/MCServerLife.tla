---------------------------- MODULE MCServerLife ----------------------------
(* Small instances of ServerLife for TLC: the start of two servers of       *)
(* different code over a database of any version, and the requests of one   *)
(* of them over a database that is up to date.                              *)
(*                                                                          *)
(* Five of the repository's scripts stand one after the other for all.  As  *)
(* there, the later ones shape what the earlier ones have shaped, up to a   *)
(* version from which every object is shaped once.                          *)
EXTENDS ServerLife, TLC

CONSTANTS a, b, q1, q2

MCServers == {a, b}
MCRequests == {q1, q2}
MCCode == a :> 5 @@ b :> 6
MCMaxVersion == 6

\* REPORT_ENTRY.TEXT, the key EVENT_ACCESS_TO_EVENT, EVENT_ACCESS.MODE, the tables STAY,
\* VISIT and CONCENTRIC_STREET, and the column VERSION of INCIDENT.
MCObjects == {"TEXT", "KEY", "MODE", "STAY", "VISIT", "STREET", "VERSION"}

Modify(o, shape) == [there |-> {o}, absent |-> {}, shape |-> o :> shape]
Create(o) == [there |-> {}, absent |-> {o}, shape |-> o :> "there"]
Drop(o) == [there |-> {o}, absent |-> {}, shape |-> o :> "absent"]
Rename(o, to) == [there |-> {o}, absent |-> {to}, shape |-> o :> "absent" @@ to :> "there"]

MCScript ==
  \* 14-from-13.sql, the first two statements
  2 :> <<Modify("TEXT", "mediumtext"), Create("KEY")>> @@
  \* 27-from-26.sql, the first table and the last change
  3 :> <<Create("STAY"), Modify("MODE", "write_stays")>> @@
  \* 29-from-28.sql, the first and the last three changes, of which the second converts
  \* the rules stored
  4 :> <<Rename("STAY", "VISIT"), Modify("MODE", "both"), Modify("MODE", "write_visits")>> @@
  \* 35-from-34.sql, the last change, and 36-from-35.sql, the first
  5 :> <<Drop("STREET")>> @@
  6 :> <<Create("VERSION")>>

MCSchema ==
  LET old == [TEXT |-> "text", KEY |-> "absent", MODE |-> "write", STAY |-> "absent",
              VISIT |-> "absent", STREET |-> "there", VERSION |-> "absent"]
      v2 == [old EXCEPT !.TEXT = "mediumtext", !.KEY = "there"]
      v3 == [v2 EXCEPT !.STAY = "there", !.MODE = "write_stays"]
      v4 == [v3 EXCEPT !.STAY = "absent", !.VISIT = "there", !.MODE = "write_visits"]
      v5 == [v4 EXCEPT !.STREET = "absent"]
      v6 == [v5 EXCEPT !.VERSION = "there"]
  IN  [v \in 0 .. 6 |-> IF v = 0 THEN [o \in MCObjects |-> "absent"]
                        ELSE <<old, v2, v3, v4, v5, v6>>[v]]

\* The tables REPORT_ENTRY, EVENT_ACCESS and VISIT, and in the newer one INCIDENT.
MCCurrent ==
  LET entry == [Create("TEXT") EXCEPT !.shape = "TEXT" :> "mediumtext"]
      access == [Create("MODE") EXCEPT !.shape = "MODE" :> "write_visits" @@ "KEY" :> "there"]
      old == <<entry, access, Create("VISIT")>>
  IN  5 :> old @@ 6 :> old \o <<Create("VERSION")>>

Nothing == [q \in Requests |-> [token |-> FALSE, logAction |-> FALSE]]
Known == [token |-> TRUE, logAction |-> TRUE]
Quiet == [token |-> TRUE, logAction |-> FALSE]

MCScenarios ==
  [version : 0 .. 6, starts : {{a, b}, {b}}, ask : {Nothing}]
  \cup [version : {5}, starts : {{a}},
        ask : {q1 :> Known @@ q2 :> Known, q1 :> Quiet @@ q2 :> Quiet, q1 :> Known @@ q2 :> Nothing[q2]}]
=============================================================================
