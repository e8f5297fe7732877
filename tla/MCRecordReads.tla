--------------------------- MODULE MCRecordReads ---------------------------
(* Small instances of RecordReads for TLC. *)
EXTENDS RecordReads, TLC

CONSTANTS r1, r2, r3, v1, writer, reporter, both, anna, bo, lead, none, nil

MCRequests == {r1, r2, r3}
MCReaders == {v1}
\* A writer may do all, a reporter reads and writes its own Field Reports, and
\* someone with both roles reads all of them and writes its own.
MCUsers == {writer, reporter, both}
MCGrants == [u \in MCUsers |->
  CASE u = writer -> {"readAll", "readOwn", "writeAll", "writeOwn"}
    [] u = reporter -> {"readOwn", "writeOwn"}
    [] OTHER -> {"readAll", "readOwn", "writeOwn"}]

Attach(g, p) == [op |-> "attach", user |-> writer, ranger |-> g, role |-> p]
Detach(g) == [op |-> "detach", user |-> writer, ranger |-> g]
Strike(u, n, to) == [op |-> "strike", user |-> u, id |-> n, to |-> to]
Upload(u) == [op |-> "upload", user |-> u]
NoBody == [op |-> "none"]
Page(u) == [op |-> "page", user |-> u]
List(u, all) == [op |-> "list", user |-> u, system |-> all]
File(u, n) == [op |-> "file", user |-> u, id |-> n]

Ask(a, b, c) == r1 :> a @@ r2 :> b @@ r3 :> c
Scenario(k, there, on, asked, readBy) ==
  [kind |-> k, exists |-> there, roster |-> on, body |-> asked, read |-> [v \in MCReaders |-> readBy]]

NoRead == [op |-> "none"]

\* Three changes of the roster, of one Ranger or of two, and nobody reads.
RosterScenarios ==
  {Scenario("incident", TRUE, {}, Ask(Attach(anna, none), Attach(anna, lead), c), NoRead) :
     c \in {Detach(anna), Attach(bo, none)}}
  \cup {Scenario("visit", TRUE, {anna}, Ask(Attach(anna, lead), b, Detach(anna)), NoRead) :
          b \in {Attach(anna, none), Attach(bo, none)}}

\* Strikes of an own entry, of an upload's and without a value; a record that
\* never was; and, of a Field Report, by people who are not its authors.
StrikeScenarios ==
  {Scenario(k, TRUE, {}, Ask(Strike(writer, n, TRUE), Strike(writer, n, FALSE), NoBody), NoRead) :
     k \in Kinds, n \in {1, 2}}
  \cup {Scenario(k, TRUE, {}, Ask(Strike(writer, 2, b), Upload(writer), NoBody), NoRead) :
          k \in {"visit", "fieldReport"}, b \in {TRUE, nil}}
  \cup {Scenario("fieldReport", TRUE, {}, Ask(Strike(u, 1, TRUE), Upload(w), NoBody), NoRead) :
          u \in {reporter, both}, w \in {reporter, both}}
  \cup {Scenario(k, FALSE, {}, Ask(a, b, NoBody), NoRead) :
          k \in {"incident", "visit"}, a \in {Attach(anna, none), Upload(writer)},
          b \in {Strike(writer, 1, TRUE), Upload(both)}}

\* One or two changes while the record is read.
ReadScenarios ==
  {Scenario("incident", TRUE, on, Ask(Attach(anna, lead), Detach(anna), NoBody), Page(writer)) :
     on \in {{}, {anna}}}
  \cup {Scenario("visit", TRUE, {anna}, Ask(Attach(anna, lead), Upload(writer), NoBody), w) :
          w \in {Page(writer), File(both, 2)}}
  \cup {Scenario(k, TRUE, {anna}, Ask(Detach(anna), NoBody, NoBody), List(writer, all)) :
          k \in {"incident", "visit"}, all \in BOOLEAN}
  \cup {Scenario("fieldReport", TRUE, {}, Ask(Upload(a), NoBody, NoBody), w) :
          a \in {writer, reporter, both},
          w \in {Page(u) : u \in MCUsers} \cup {File(u, 2) : u \in MCUsers}
                \cup {List(u, s) : u \in MCUsers, s \in BOOLEAN}}

MCScenarios == RosterScenarios \cup StrikeScenarios \cup ReadScenarios
=============================================================================
