---------------------------- MODULE MCEventAdmin ----------------------------
(***************************************************************************)
(* EventReads with three Events, a group 1 with its child 2 and a third    *)
(* one, and three requests out of the edits that change who is a group or  *)
(* a parent, replacements of rules, deletions, and entries appended; two   *)
(* of them while somebody searches, lists the Events or reads the places   *)
(* of one, or while its places are imported by one or two.                 *)
(***************************************************************************)
EXTENDS EventReads, TLC

CONSTANTS v1, i1, i2

\* Everybody until 1; and the one person, when on site.
All == [kind |-> "*", name |-> "", validity |-> "always", notBefore |-> {}, notAfter |-> {1}]
Hub == [kind |-> "person", name |-> "hub", validity |-> "onsite", notBefore |-> {}, notAfter |-> {}]
MCRules == {All, Hub}
MCPeople ==
  {[handle |-> "hub", positions |-> {}, teams |-> {}, onDuty |-> "", onsite |-> TRUE]}
MCInitEvents ==
  <<[Blank EXCEPT !.group = TRUE], [Blank EXCEPT !.parent = 1, !.placed = TRUE], Blank>>
MCInitAccess ==
  [e \in Ids |-> CASE e = 1 -> [NoRules EXCEPT !["read"] = {All}]
                   [] e = 2 -> [NoRules EXCEPT !["write"] = {Hub}]
                   [] e = 3 -> [NoRules EXCEPT !["report"] = {Hub}]
                   [] OTHER -> NoRules]
MCInitEntries == {[id |-> 1, event |-> 2], [id |-> 2, event |-> 3]}

Edit(e, g, p, l) == [kind |-> "edit", id |-> e, group |-> g, parent |-> p, placed |-> l]
Nothing == [e \in Ids |-> [m \in ModeSet |-> {}]]
\* The group's rule is taken away, and its child gets two of its own.
Regranted ==
  [kind |-> "access",
   rules |-> [Nothing EXCEPT ![1] = [m \in ModeSet |-> IF m = "read" THEN {{}} ELSE {}],
                             ![2] = [m \in ModeSet |-> IF m \in {"read", "write_visits"}
                                                         THEN {{All}} ELSE {}]]]

Various ==
  <<Edit(1, {FALSE}, {}, {}), Edit(1, {}, {3}, {}), Edit(1, {FALSE}, {3}, {TRUE}),
   Edit(2, {}, {NoEvent}, {}), Edit(2, {TRUE}, {}, {FALSE}), Edit(2, {TRUE}, {NoEvent}, {}),
   Edit(3, {TRUE}, {}, {}), Edit(3, {}, {1}, {}),
   Edit(NoEvent, {}, {1}, {}),
   Regranted,
   [kind |-> "access",
    rules |-> [Nothing EXCEPT ![2] = [m \in ModeSet |-> IF m = "write" THEN {{}}
                                                        ELSE IF m = "report" THEN {{Hub}} ELSE {}]]],
   [kind |-> "delete", id |-> 1], [kind |-> "delete", id |-> 2], [kind |-> "append", id |-> 2]>>

\* Its own parent, a parent that is no group, a group with a map.
Refused == <<Edit(3, {}, {3}, {}), Edit(NoEvent, {}, {2}, {}), Edit(3, {TRUE}, {}, {TRUE})>>

Place(l) == Edit(2, {}, {}, {l})
Idle == [kind |-> "append", id |-> 4]
MCBodies ==
  Range(Various) \cup Range(Refused) \cup {Place(TRUE), Place(FALSE), Edit(2, {TRUE}, {NoEvent}, {FALSE}), Idle}

Hubs == CHOOSE p \in MCPeople : TRUE
NoRead == [v \in Readers |-> [op |-> "none"]]
NoImport == [i \in Importers |-> [event |-> 2, types |-> {}, count |-> 0]]
Search == [v \in Readers |-> [op |-> "search", person |-> Hubs, now |-> 1]]
List == [v \in Readers |->
           [op |-> "list", person |-> Hubs, now |-> 1, groups |-> TRUE, admin |-> FALSE]]
PlacesOfTwo == [v \in Readers |->
           [op |-> "places", person |-> Hubs, now |-> 1, event |-> 2, admin |-> FALSE]]

\* Two lists of camps of different lengths, one with other places too.
TwoImports == i1 :> [event |-> 2, types |-> {"camp"}, count |-> 2]
              @@ i2 :> [event |-> 2, types |-> {"camp", "other"}, count |-> 1]
OneImport == [NoImport EXCEPT ![i1] = [event |-> 2, types |-> {"camp", "art"}, count |-> 1]]
\* Three of the bodies in S, or two and one that asks for an Event that is not there;
\* who asks for which makes no difference.
Rising(n) == {k \in [Requests -> 1 .. n] : \A q, r \in Requests : q < r => k[q] <= k[r]}
Three(S) == {[r \in Requests |-> S[k[r]]] : k \in Rising(Len(S))}
Two(S) == {f \in Three(<<Idle>> \o S) : f[1] = Idle}

MCScenarios ==
  [asks : {Three(Various)}, read : {NoRead}, import : {NoImport}]
  \cup [asks : {Two(Refused \o <<Edit(1, {FALSE}, {}, {})>>)}, read : {NoRead}, import : {NoImport}]
  \cup [asks : {Two(<<Regranted, Edit(3, {}, {1}, {}), Edit(2, {TRUE}, {NoEvent}, {}),
                     Edit(1, {FALSE}, {3}, {TRUE}), Edit(2, {}, {NoEvent}, {})>>)},
        read : {Search}, import : {NoImport}]
  \cup [asks : {Two(<<Place(FALSE), Edit(2, {TRUE}, {NoEvent}, {FALSE}), [kind |-> "delete", id |-> 1]>>)},
        read : {List}, import : {NoImport}]
  \cup [asks : {Two(<<Place(TRUE), Place(FALSE), [kind |-> "delete", id |-> 2]>>)}, read : {PlacesOfTwo}, import : {OneImport}]
  \cup [asks : {Two(<<[kind |-> "delete", id |-> 2]>>)}, read : {NoRead}, import : {TwoImports}]
=============================================================================
