----------------------------- MODULE EventAdmin -----------------------------
(***************************************************************************)
(* The administration of Events: editEvents (with event groups),           *)
(* postEventAccess and deleteEvent, while report entries are appended.     *)
(*                                                                         *)
(* An edit of an Event creates the row in a statement of its own, if it    *)
(* has to, reads it back, reads the wanted parent, and writes the whole    *)
(* merged row without a guard.  Access rules are replaced one mode at a    *)
(* time, each in a transaction of its own.  A deletion lists the report    *)
(* entries by a snapshot read and then removes everything in one           *)
(* transaction.                                                            *)
(*                                                                         *)
(* The rules and the groups are what permissions are computed from, by two *)
(* pieces of code: EventPermissions for one Event, permissionsByEvent for  *)
(* the list of all of them.                                                *)
(*                                                                         *)
(* Abstractions: "placed" stands for the five columns a group may not      *)
(* have (map URL, releases, normalization); a transaction that only locks  *)
(* what others also lock takes effect at its commit.                       *)
(***************************************************************************)
EXTENDS Naturals, FiniteSets, SequencesExt

CONSTANTS
  Requests,     \* the requests; each is served by one goroutine
  MaxEvents,    \* bound on AUTO_INCREMENT of EVENT
  Rules,        \* the access rules there can be, see Rule
  People,       \* the people who may ask for something, as their claims say
  Times,        \* the moments at which they may ask
  InitEvents,   \* the rows of EVENT at first, by ID
  InitAccess,   \* the access rules at first
  InitEntries,  \* the report entries at first, each [id, event]
  Bodies        \* what a request may ask, see Body

\* A value that may be left out: the set of the value, or the empty set.
Maybe(S) == {{}} \cup {{v} : v \in S}

\* An access rule: whom it names, when it is valid, and until and from when.
Rule ==
  [kind : {"*", "person", "position", "onduty", "team"}, name : STRING,
   validity : {"always", "onsite"}, notBefore : SUBSET Nat, notAfter : SUBSET Nat]

NoEvent == 0
Ids == 1 .. MaxEvents
Modes == <<"read", "write", "report", "write_visits">>
ModeSet == {Modes[i] : i \in DOMAIN Modes}
EventRow == [group : BOOLEAN, parent : {NoEvent} \cup Ids, placed : BOOLEAN]
AccessRows == [ModeSet -> SUBSET Rules]
Entry == [id : Nat, event : Ids]

Body ==
  [kind : {"edit"}, id : {NoEvent} \cup Ids, group : Maybe(BOOLEAN),
   parent : Maybe({NoEvent} \cup Ids), placed : Maybe(BOOLEAN)]
    \cup [kind : {"access"}, rules : [Ids -> [ModeSet -> Maybe(SUBSET Rules)]]]
    \cup [kind : {"delete", "append"}, id : Ids]

ASSUME MaxEventsAssumption == MaxEvents \in Nat

ASSUME RulesAssumption == Rules \subseteq Rule

ASSUME BodiesAssumption == Bodies \subseteq Body

Blank == [group |-> FALSE, parent |-> NoEvent, placed |-> FALSE]
NoRules == [m \in ModeSet |-> {}]

\* What the server is started with is what its requests leave behind.
ASSUME InitAssumption ==
  /\ InitEvents \in Seq(EventRow)
  /\ Len(InitEvents) <= MaxEvents
  /\ \A e \in DOMAIN InitEvents :
       /\ InitEvents[e].parent \in ({NoEvent} \cup DOMAIN InitEvents) \ {e}
       /\ InitEvents[e].group => InitEvents[e].parent = NoEvent
  /\ InitAccess \in [Ids -> AccessRows]
  /\ \A e \in Ids \ DOMAIN InitEvents : InitAccess[e] = NoRules
  /\ InitEntries \subseteq Entry /\ IsFiniteSet(InitEntries)
  /\ \A x \in InitEntries :
       /\ x.id \in 1 .. Cardinality(InitEntries)
       /\ x.event \in DOMAIN InitEvents
       /\ \A y \in InitEntries : x.id = y.id => x = y

VARIABLES
  events,       \* EVENT: the rows by ID
  access,       \* EVENT_ACCESS: the rules by Event and mode
  entries,      \* REPORT_ENTRY: the IDs stored
  joins,        \* the rows that tie an entry to a record of an Event
  nextEvent,    \* AUTO_INCREMENT of EVENT
  nextEntry,    \* AUTO_INCREMENT of REPORT_ENTRY
  body,         \* body[r]: what r asks for, never changed
  pc,           \* the next statement of r's handler
  target,       \* the Event r is at work on
  merged,       \* the row r is going to write
  todo,         \* what r has yet to replace, as pairs of Event and mode
  snapshot,     \* the entries r's deletion has listed
  reply,        \* the answer r was given
  applied       \* history: what r has replaced, as pairs of Event and mode

tables == <<events, access, entries, joins, nextEvent, nextEntry>>
local == <<target, merged, todo, snapshot>>
vars == <<tables, body, pc, local, reply, applied>>

Replies == {"none", "success", "badrequest", "notfound", "error"}
Steps == {"create", "fetch", "parent", "update", "access", "find", "list", "delete",
          "append", "done"}

\* The rules a body asks to replace; a nil list leaves its mode alone.
Asked(b) ==
  IF b.kind = "access" THEN {p \in Ids \X ModeSet : b.rules[p[1]][p[2]] # {}} ELSE {}

FirstStep(b) ==
  CASE b.kind = "edit"   -> IF b.id = NoEvent THEN "create" ELSE "fetch"
    [] b.kind = "access" -> "access"
    [] b.kind = "delete" -> "find"
    [] OTHER             -> "append"

Init ==
  /\ events = InitEvents
  /\ access = InitAccess
  /\ entries = {x.id : x \in InitEntries}
  /\ joins = InitEntries
  /\ nextEvent = Len(InitEvents) + 1
  /\ nextEntry = Cardinality(InitEntries) + 1
  /\ body \in [Requests -> Bodies]
  /\ pc = [r \in Requests |-> FirstStep(body[r])]
  /\ target = [r \in Requests |-> IF body[r].kind = "access" THEN NoEvent ELSE body[r].id]
  /\ merged = [r \in Requests |-> Blank]
  /\ todo = [r \in Requests |-> Asked(body[r])]
  /\ snapshot = [r \in Requests |-> {}]
  /\ reply = [r \in Requests |-> "none"]
  /\ applied = [r \in Requests |-> {}]

Answer(r, a) ==
  /\ pc' = [pc EXCEPT ![r] = "done"]
  /\ reply' = [reply EXCEPT ![r] = a]

Goto(r, step) == pc' = [pc EXCEPT ![r] = step] /\ UNCHANGED reply
-----------------------------------------------------------------------------
\* editEvents

\* CreateEvent, which commits by itself.
CreateEvent(r) ==
  /\ pc[r] = "create"
  /\ nextEvent \in Ids
  /\ events' = [e \in DOMAIN events \cup {nextEvent} |->
                  IF e = nextEvent THEN Blank ELSE events[e]]
  /\ nextEvent' = nextEvent + 1
  /\ target' = [target EXCEPT ![r] = nextEvent]
  /\ Goto(r, "fetch")
  /\ UNCHANGED <<access, entries, joins, nextEntry, body, merged, todo, snapshot, applied>>

\* A duplicate name, or no more room below the bound.
CreateFails(r) ==
  /\ pc[r] = "create"
  /\ Answer(r, "error")
  /\ UNCHANGED <<tables, body, local, applied>>

Over(given, stored) == IF given = {} THEN stored ELSE CHOOSE v \in given : TRUE

\* The stored row with the body's values written over it.
Merge(b, row) ==
  [group |-> Over(b.group, row.group),
   parent |-> Over(b.parent, row.parent),
   placed |-> Over(b.placed, row.placed)]

\* Mutant of Allowed: the check looks at what the body asks for, not at the row
\* that will be stored.
AllowedByBody(b, row) ==
  /\ ~(b.group = {TRUE} /\ b.parent \notin {{}, {NoEvent}})
  /\ ~(b.group = {TRUE} /\ b.placed = {TRUE})

\* The checks made on the merged row.
Allowed(b, row) ==
  /\ ~(Merge(b, row).group /\ Merge(b, row).parent # NoEvent)
  /\ ~(Merge(b, row).group /\ b.placed = {TRUE})

\* Event, the stored row; the checks that need no other row follow at once.
FetchEvent(r) ==
  /\ pc[r] = "fetch"
  /\ \/ target[r] \notin DOMAIN events /\ Answer(r, "error") /\ UNCHANGED merged
     \/ /\ target[r] \in DOMAIN events
        /\ merged' = [merged EXCEPT ![r] = Merge(body[r], events[target[r]])]
        /\ LET row == events[target[r]] IN
           CASE body[r].parent = {target[r]}             -> Answer(r, "badrequest")
             [] body[r].parent \notin {{}, {NoEvent}, {target[r]}} -> Goto(r, "parent")
             [] OTHER -> IF Allowed(body[r], row) THEN Goto(r, "update")
                                                  ELSE Answer(r, "badrequest")
  /\ UNCHANGED <<tables, body, target, todo, snapshot, applied>>

\* Event for the wanted parent, and the checks that follow it.
FetchParent(r) ==
  /\ pc[r] = "parent"
  /\ \/ merged[r].parent \notin DOMAIN events /\ Answer(r, "error")
     \/ /\ merged[r].parent \in DOMAIN events
        /\ IF events[merged[r].parent].group /\ Allowed(body[r], merged[r])
             THEN Goto(r, "update")
             ELSE Answer(r, "badrequest")
  /\ UNCHANGED <<tables, body, local, applied>>

\* UpdateEvent writes the whole row.  A row that is gone is no error; a parent
\* that is gone breaks the foreign key.
UpdateEvent(r) ==
  /\ pc[r] = "update"
  /\ \/ target[r] \notin DOMAIN events /\ Answer(r, "success") /\ UNCHANGED events
     \/ /\ target[r] \in DOMAIN events
        /\ merged[r].parent \in {NoEvent} \cup DOMAIN events
        /\ events' = [events EXCEPT ![target[r]] = merged[r]]
        /\ Answer(r, "success")
     \/ /\ target[r] \in DOMAIN events
        /\ merged[r].parent \notin {NoEvent} \cup DOMAIN events
        /\ Answer(r, "error")
        /\ UNCHANGED events
  /\ UNCHANGED <<access, entries, joins, nextEvent, nextEntry, body, local, applied>>
-----------------------------------------------------------------------------
\* postEventAccess

\* getEvent for the next Event of the body; Go ranges over the map in any order.
FindAccessEvent(r) ==
  /\ pc[r] = "access"
  /\ target[r] = NoEvent
  /\ \E p \in todo[r] :
       \/ p[1] \in DOMAIN events /\ target' = [target EXCEPT ![r] = p[1]] /\ UNCHANGED <<pc, reply>>
       \/ p[1] \notin DOMAIN events /\ Answer(r, "notfound") /\ UNCHANGED target
  /\ UNCHANGED <<tables, body, merged, todo, snapshot, applied>>

\* The modes of the Event at hand that are left, the first of them.
Left(r) == {i \in DOMAIN Modes : <<target[r], Modes[i]>> \in todo[r]}
CurrentMode(r) == Modes[CHOOSE i \in Left(r) : \A j \in Left(r) : i <= j]

\* Mutant of Replaced: the former rules of all modes are cleared.
ReplacedInAllModes(rules, m, new) == [NoRules EXCEPT ![m] = new]

\* ClearEventAccessForMode, then AddEventAccess for each rule.
Replaced(rules, m, new) == [rules EXCEPT ![m] = new]

\* On to the next mode of the Event, or to the next Event.
Advance(r) ==
  /\ todo' = [todo EXCEPT ![r] = @ \ {<<target[r], CurrentMode(r)>>}]
  /\ target' = [target EXCEPT ![r] = IF Cardinality(Left(r)) = 1 THEN NoEvent ELSE @]
  /\ UNCHANGED <<pc, reply>>

\* maybeSetAccess: the transaction of one mode.  There is nothing to clear in an
\* Event that is gone, and a rule for it breaks the foreign key.
SetAccess(r) ==
  /\ pc[r] = "access"
  /\ target[r] # NoEvent
  /\ LET e == target[r]
         m == CurrentMode(r)
         new == Over(body[r].rules[e][m], {}) IN
     IF e \in DOMAIN events \/ new = {}
       THEN /\ access' = [access EXCEPT ![e] = IF e \in DOMAIN events THEN Replaced(@, m, new) ELSE @]
            /\ applied' = [applied EXCEPT ![r] = @ \cup {<<e, m>>}]
            /\ Advance(r)
       ELSE Answer(r, "error") /\ UNCHANGED <<access, todo, target, applied>>
  /\ UNCHANGED <<events, entries, joins, nextEvent, nextEntry, body, merged, snapshot>>

\* Everything asked for is done.
AccessDone(r) ==
  /\ pc[r] = "access"
  /\ target[r] = NoEvent
  /\ todo[r] = {}
  /\ Answer(r, "success")
  /\ UNCHANGED <<tables, body, local, applied>>
-----------------------------------------------------------------------------
\* deleteEvent, and the entries that others append

\* getEvent, before the transaction.
FindEvent(r) ==
  /\ pc[r] = "find"
  /\ IF target[r] \in DOMAIN events THEN Goto(r, "list") ELSE Answer(r, "notfound")
  /\ UNCHANGED <<tables, body, local, applied>>

EntriesOf(e) == {j.id : j \in {x \in joins : x.event = e}}

\* EventReportEntryIDs, a snapshot read that locks nothing.
ListEntries(r) ==
  /\ pc[r] = "list"
  /\ snapshot' = [snapshot EXCEPT ![r] = EntriesOf(target[r])]
  /\ Goto(r, "delete")
  /\ UNCHANGED <<tables, body, target, merged, todo, applied>>

\* Mutant of Detached: the children of a group are left as they are.
NotDetached(e) == events

\* DetachChildrenFromEventGroup.
Detached(e) == [x \in DOMAIN events |->
                  IF events[x].parent = e THEN [events[x] EXCEPT !.parent = NoEvent]
                                          ELSE events[x]]

\* The deletions and the commit: the joins as they now are, the entries as they
\* were listed.
DeleteRows(r) ==
  /\ pc[r] = "delete"
  /\ LET e == target[r] IN
     /\ joins' = {x \in joins : x.event # e}
     /\ entries' = entries \ snapshot[r]
     /\ access' = [access EXCEPT ![e] = NoRules]
     /\ events' = [x \in DOMAIN events \ {e} |-> Detached(e)[x]]
  /\ Answer(r, "success")
  /\ UNCHANGED <<nextEvent, nextEntry, body, local, applied>>

\* createReportEntry and the row that ties the entry to its record, in one
\* transaction.
AppendEntry(r) ==
  /\ pc[r] = "append"
  /\ \/ /\ target[r] \in DOMAIN events
        /\ entries' = entries \cup {nextEntry}
        /\ joins' = joins \cup {[id |-> nextEntry, event |-> target[r]]}
        /\ nextEntry' = nextEntry + 1
        /\ Answer(r, "success")
     \/ /\ target[r] \notin DOMAIN events
        /\ Answer(r, "error")
        /\ UNCHANGED <<entries, joins, nextEntry>>
  /\ UNCHANGED <<events, access, nextEvent, body, local, applied>>

\* Mutant of DatabaseError: the error of one mode does not end the request.
ErrorSkipsMode(r) ==
  /\ pc[r] = "access"
  /\ target[r] # NoEvent
  /\ Advance(r)
  /\ UNCHANGED <<tables, body, merged, snapshot, applied>>

\* Any statement may fail; the transaction under way is rolled back, what was
\* committed before stays.
DatabaseError(r) ==
  /\ pc[r] \notin {"create", "done"}
  /\ Answer(r, "error")
  /\ UNCHANGED <<tables, body, local, applied>>

\* Every request is answered; what is left is to stutter.
Finished ==
  /\ \A r \in Requests : pc[r] = "done"
  /\ UNCHANGED vars

Request(r) ==
  \/ CreateEvent(r) \/ CreateFails(r) \/ FetchEvent(r) \/ FetchParent(r) \/ UpdateEvent(r)
  \/ FindAccessEvent(r) \/ SetAccess(r) \/ AccessDone(r)
  \/ FindEvent(r) \/ ListEntries(r) \/ DeleteRows(r)
  \/ AppendEntry(r)
  \/ DatabaseError(r)

Next == (\E r \in Requests : Request(r)) \/ Finished

Spec == Init /\ [][Next]_vars
-----------------------------------------------------------------------------
\* What a person may do

\* RolesToEventPerms by way of modeToRole, for the permissions of one Event.
RolePermissions(m) ==
  CASE m = "report" -> {"name", "places", "readOwnFieldReports", "writeOwnFieldReports"}
    [] m = "read"   -> {"name", "places", "readIncidents", "readVisits",
                        "readOwnFieldReports", "readAllFieldReports"}
    [] m = "write"  -> {"name", "places", "readIncidents", "writeIncidents", "readVisits",
                        "writeVisits", "readOwnFieldReports", "readAllFieldReports",
                        "writeOwnFieldReports", "writeAllFieldReports"}
    [] OTHER        -> {"name", "places", "readVisits", "writeVisits"}

\* The rules of an Event, each with its mode.
RulesOf(e) == UNION {{<<m, x>> : x \in access[e][m]} : m \in ModeSet}

\* Within its dates, the rule names the person, and the person is on site if the
\* rule asks for that.
PersonMatches(rule, p, now) ==
  /\ \A t \in rule.notAfter : now <= t
  /\ \A t \in rule.notBefore : t <= now
  /\ \/ rule.kind = "*"
     \/ rule.kind = "person" /\ rule.name = p.handle
     \/ rule.kind = "position" /\ rule.name \in p.positions
     \/ rule.kind = "onduty" /\ rule.name = p.onDuty
     \/ rule.kind = "team" /\ rule.name \in p.teams
  /\ rule.validity = "always" \/ p.onsite

\* ManyEventPermissions for one Event: every rule that matches adds its role.
ManyEventPermissions(rules, p, now) ==
  UNION {RolePermissions(x[1]) : x \in {y \in rules : PersonMatches(y[2], p, now)}}

\* The query behind EventPermissions.
EventAndParentAccess(e) ==
  (IF events[e].group THEN {} ELSE RulesOf(e))
    \cup (IF events[e].parent = NoEvent THEN {} ELSE RulesOf(events[e].parent))

EventPermissions(e, p, now) == ManyEventPermissions(EventAndParentAccess(e), p, now)

\* The orders in which a query may return the rows of some Events.
Orders == [S \in SUBSET Ids |-> SetToSeqs(S)]

\* Mutant of AccessOf: a child's own rules make way for its parent's.
AccessOfParents(rules, rows, order) ==
  LET granted[k \in 0 .. Len(order)] ==
        IF k = 0 THEN rules
        ELSE LET acc == granted[k - 1]
                 e == order[k]
             IN  IF rows[e].parent = NoEvent THEN acc ELSE [acc EXCEPT ![e] = acc[rows[e].parent]]
  IN granted[Len(order)]

\* permissionsByEvent: to the rules of all Events, by Event, those of the parents are
\* added: each child in turn is given what its parent has been given by then.
AccessOf(rules, rows, order) ==
  LET granted[k \in 0 .. Len(order)] ==
        IF k = 0 THEN rules
        ELSE LET acc == granted[k - 1]
                 e == order[k]
             IN  IF rows[e].parent = NoEvent THEN acc
                 ELSE [acc EXCEPT ![e] = @ \cup acc[rows[e].parent]]
  IN granted[Len(order)]

AccessByEvent(order) == AccessOf([e \in DOMAIN events |-> RulesOf(e)], events, order)
-----------------------------------------------------------------------------
TypeOK ==
  /\ DOMAIN events \subseteq 1 .. (nextEvent - 1)
  /\ \A e \in DOMAIN events : events[e] \in EventRow
  /\ access \in [Ids -> AccessRows]
  /\ entries \subseteq 1 .. (nextEntry - 1)
  /\ joins \subseteq Entry
  /\ nextEvent \in 1 .. MaxEvents + 1
  /\ nextEntry \in Nat
  /\ body \in [Requests -> Bodies]
  /\ pc \in [Requests -> Steps]
  /\ target \in [Requests -> {NoEvent} \cup Ids]
  /\ merged \in [Requests -> EventRow]
  /\ todo \in [Requests -> SUBSET (Ids \X ModeSet)]
  /\ snapshot \in [Requests -> SUBSET Nat]
  /\ reply \in [Requests -> Replies]
  /\ applied \in [Requests -> SUBSET (Ids \X ModeSet)]

\* An event group never has a parent and no Event is its own, whichever edits of
\* whom interleave, though each reads, merges and writes without a guard
\* (event.go:222); what is written is always a whole row that was checked.
GroupsAreRoots ==
  \A e \in DOMAIN events : events[e].parent # e /\ (events[e].group => events[e].parent = NoEvent)

\* Deleting a group detaches its children (event.go:289), also those that are
\* being given to it: no Event is left with a parent that does not exist, and
\* nothing of a deleted Event is left to be found by its number.
NothingDangles ==
  /\ \A e \in DOMAIN events : events[e].parent \in {NoEvent} \cup DOMAIN events
  /\ \A x \in joins : x.event \in DOMAIN events /\ x.id \in entries
  /\ \A e \in Ids \ DOMAIN events : access[e] = NoRules

\* The list of Events and the Event itself agree on what one may do, in whichever
\* order the rows are returned, but for two cases: a group, in which nobody may do
\* anything (permission.go:111) and which the list shows to those that its own
\* rules name, and an Event whose parent was made an ordinary Event and given a
\* parent of its own.
PermissionsAgree ==
  \A byEvent \in {AccessByEvent(order) : order \in Orders[DOMAIN events]} :
    \A e \in DOMAIN events :
      \/ events[e].group /\ \A p \in People, now \in Times : EventPermissions(e, p, now) = {}
      \/ events[e].parent # NoEvent /\ events[events[e].parent].parent # NoEvent
      \/ \A p \in People, now \in Times :
           ManyEventPermissions(byEvent[e], p, now) = EventPermissions(e, p, now)

\* A request for access that ends early has replaced the first modes of an Event
\* and none of the later ones, one that succeeds all it asked for: an error in one
\* mode is never passed over (eventaccess.go:284).  And the rules of a mode are
\* always the whole of what one request asked for, or what was there at first
\* (eventaccess.go:304), whoever replaces the others.
AccessIsWhole ==
  /\ \A r \in Requests :
       /\ body[r].kind = "access" /\ reply[r] = "success" => applied[r] = Asked(body[r])
       /\ \A e \in Ids : \A i, j \in DOMAIN Modes :
            i < j /\ <<e, Modes[j]>> \in applied[r] /\ <<e, Modes[i]>> \in Asked(body[r])
              => <<e, Modes[i]>> \in applied[r]
  /\ \A e \in DOMAIN events, m \in ModeSet :
       \/ access[e][m] = IF e \in DOMAIN InitEvents THEN InitAccess[e][m] ELSE {}
       \/ \E r \in Requests : <<e, m>> \in applied[r] /\ body[r].rules[e][m] = {access[e][m]}
=============================================================================
