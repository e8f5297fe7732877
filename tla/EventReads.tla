----------------------------- MODULE EventReads -----------------------------
(***************************************************************************)
(* What is read across Events while EventAdmin changes them: the search of *)
(* all records (getSearch), the list of Events (getEvents) and the places  *)
(* of one Event (GetPlaces); and the replacing of those places             *)
(* (UpdatePlaces, ImportPlaces).                                           *)
(*                                                                         *)
(* A read is several queries without a transaction: the rules, the rows    *)
(* the parents are looked up in, the rows the groups are told apart by and *)
(* the records may be of four different moments.  A replacement of places  *)
(* is a delete and an insert per place, each of which commits by itself.   *)
(*                                                                         *)
(* Abstractions: a placed Event is one whose map and locations are         *)
(* embargoed until Release; the entries of EventAdmin stand for records of *)
(* any kind; a search finds them all (its limit is not reached).           *)
(***************************************************************************)
EXTENDS EventAdmin

CONSTANTS
  Readers,    \* the reads
  Importers,  \* the replacements of places
  Release,    \* when the embargo of a placed Event ends
  Scenarios   \* what the requests may ask for together, and who reads and imports what

PlaceTypes == {"camp", "art", "mv", "other"}
Reads == [op : {"none"}]
         \cup [op : {"search"}, person : People, now : Times]
         \cup [op : {"list"}, person : People, now : Times, groups : BOOLEAN, admin : BOOLEAN]
         \cup [op : {"places"}, person : People, now : Times, event : Ids, admin : BOOLEAN]
\* The number of places of each type there is to be a new list of.
Imports == [event : Ids, types : SUBSET PlaceTypes, count : Nat]

ASSUME ReadsAssumption ==
  /\ Release \in Nat
  /\ "nobody" \notin Importers
  /\ \A g \in Scenarios :
       g.asks \subseteq [Requests -> Bodies] /\ g.read \in [Readers -> Reads] /\ g.import \in [Importers -> Imports]

VARIABLES
  given,     \* who reads and imports what, never changed
  view,      \* view[v]: how far reader v is, and what it has got
  places,    \* PLACE: [event, type, number, by], by the importer that stored it
  importer,  \* importer[i]: how far it is, and with which types left
  seen,      \* history: what held at some moment since reader v began: what they may
             \* do, what is not embargoed, the groups, and whose row was not settled
  author     \* history: who made the list of each Event and type

readVars == <<given, view, places, importer, seen, author>>
allVars == <<vars, readVars>>

read(v) == given.read[v]
import(i) == given.import[i]
NoRows == [e \in {} |-> Blank]
EmptyView ==
  [step |-> "begin", rows |-> NoRows, rules |-> [e \in {} |-> {}], may |-> [e \in {} |-> {}],
   shown |-> {}]

\* What reader v may do in the Events that are there, at this moment.
MayNow(v) ==
  IF read(v).op = "none" THEN {}
  ELSE UNION {{<<x, e>> : x \in EventPermissions(e, read(v).person, read(v).now)} : e \in DOMAIN events}

Embargoed(row, now) == row.placed /\ now < Release
OpenNow(v) == IF read(v).op = "none" THEN {}
              ELSE {e \in DOMAIN events : ~Embargoed(events[e], read(v).now)}
Groups == {e \in DOMAIN events : events[e].group}
Grandchildren == {e \in DOMAIN events : /\ events[e].parent # NoEvent
                                        /\ events[events[e].parent].parent # NoEvent}

Moment(v) == [may |-> MayNow(v), open |-> OpenNow(v), groups |-> Groups, unsettled |-> Grandchildren]
Never == [may |-> {}, open |-> {}, groups |-> {}, unsettled |-> {}]
Joined(a, b) == [f \in DOMAIN a |-> a[f] \cup b[f]]

ReadsInit ==
  /\ \E g \in Scenarios :
       /\ body \in g.asks
       /\ given = [read |-> g.read, import |-> g.import]
  /\ Init
  /\ view = [v \in Readers |-> [EmptyView EXCEPT !.step = IF read(v).op = "none" THEN "done" ELSE @]]
  /\ places = {}
  /\ importer = [i \in Importers |-> 
       [step |-> IF import(i).types = {} THEN "done" ELSE "find", type |-> "camp",
        left |-> import(i).types, number |-> 0]]
  /\ seen = [v \in Readers |-> Never]
  /\ author = {}

-----------------------------------------------------------------------------
(* Reading.                                                                *)

See(v, now) == view' = [view EXCEPT ![v] = now]
Replied(v, what) == See(v, [EmptyView EXCEPT !.step = "done", !.shown = what])

\* EventPermissions of the one Event whose places are read, of its own query.
PlacesAllowed(v) ==
  read(v).admin \/ "places" \in EventPermissions(read(v).event, read(v).person, read(v).now)

\* The first query: for the list and the places the row or the rows, of which the
\* embargo is told; for the search the rules, see ReadRules.
ReadRows(v) ==
  /\ view[v].step = "begin"
  /\ \/ /\ read(v).op = "list"
        /\ See(v, [view[v] EXCEPT !.step = "rules", !.rows = events])
     \/ /\ read(v).op = "places"
        /\ IF read(v).event \in DOMAIN events THEN See(v, [view[v] EXCEPT !.step = "permission", !.rows = events])
                                              ELSE Replied(v, {})

CheckPlaces(v) ==
  /\ view[v].step = "permission"
  /\ IF read(v).event \in DOMAIN events /\ PlacesAllowed(v) THEN See(v, [view[v] EXCEPT !.step = "places"])
                                                            ELSE Replied(v, {})

\* permissionsByEvent, EventAccessAll.
ReadRules(v) ==
  /\ IF read(v).op = "search" THEN view[v].step = "begin" ELSE view[v].step = "rules"
  /\ See(v, [view[v] EXCEPT !.step = "parents", !.rules = [e \in DOMAIN events |-> RulesOf(e)]])

\* permissionsByEvent, Events; the rules of an Event that was not there are none.
ReadParents(v) ==
  /\ view[v].step = "parents"
  /\ LET rules == [e \in DOMAIN events \cup DOMAIN view[v].rules |->
                     IF e \in DOMAIN view[v].rules THEN view[v].rules[e] ELSE {}] IN
     \E byEvent \in {AccessOf(rules, events, order) : order \in Orders[DOMAIN events]} :
       See(v, [view[v] EXCEPT !.step = IF read(v).op = "search" THEN "groups" ELSE "answer",
                              !.rules = [e \in {} |-> {}],
                              !.may = [e \in DOMAIN byEvent |->
                                ManyEventPermissions(byEvent[e], read(v).person, read(v).now)]])

Searched == {"readIncidents", "readAllFieldReports", "readVisits"}

\* Mutant of Searchable: event groups are searched too.
SearchableWithGroups(v) ==
  {s \in Searched \X DOMAIN events : s[2] \in DOMAIN view[v].may /\ s[1] \in view[v].may[s[2]]}

\* The kinds of records that are searched, with the Events that they are searched in.
Searchable(v) ==
  {s \in Searched \X DOMAIN events :
     ~events[s[2]].group /\ s[2] \in DOMAIN view[v].may /\ s[1] \in view[v].may[s[2]]}

\* Events again; the search skips the groups.
ReadGroups(v) ==
  /\ view[v].step = "groups"
  /\ See(v, [view[v] EXCEPT !.step = "records", !.shown = Searchable(v)])

\* SearchIncidents, SearchFieldReports, SearchVisits: they find what is there.
FindRecords(v) ==
  /\ view[v].step = "records"
  /\ Replied(v, {x \in view[v].shown : \E j \in joins : j.event = x[2]})

\* The list of Events: their names, and their maps unless embargoed.
AnswerList(v) ==
  /\ view[v].step = "answer"
  /\ LET rows == view[v].rows
         listed == {e \in DOMAIN rows :
                      /\ rows[e].group => read(v).groups
                      /\ \/ read(v).admin
                         \/ e \in DOMAIN view[v].may /\ "name" \in view[v].may[e]}
     IN  Replied(v, ({"name"} \X listed)
                    \cup {<<"map", e>> : e \in {e \in listed : rows[e].placed /\
                                           (read(v).admin \/ ~Embargoed(rows[e], read(v).now))}})

\* Mutant of LocationsEmbargoed: only camps are embargoed.
CampsEmbargoed(row, type, now) == type = "camp" /\ Embargoed(row, now)

\* placeLocationsEmbargoed.
LocationsEmbargoed(row, type, now) == type \in {"camp", "art"} /\ Embargoed(row, now)

\* The places and their locations, which redactPlaceLocation takes out of those
\* embargoed by the row read at first.
ReadPlaces(v) ==
  /\ view[v].step = "places"
  /\ LET e == read(v).event
         there == {p.type : p \in {q \in places : q.event = e}}
     IN  Replied(v, {<<t, e>> : t \in {t \in there : read(v).admin \/
                       ~LocationsEmbargoed(view[v].rows[e], t, read(v).now)}} \cup {<<"places", e>>})

ReadFails(v) ==
  /\ view[v].step # "done"
  /\ Replied(v, {})

Read(v) ==
  \/ ReadRows(v) \/ CheckPlaces(v) \/ ReadRules(v) \/ ReadParents(v) \/ ReadGroups(v)
  \/ FindRecords(v) \/ AnswerList(v) \/ ReadPlaces(v) \/ ReadFails(v)

-----------------------------------------------------------------------------
(* Replacing places.                                                       *)

Now(i, state) == importer' = [importer EXCEPT ![i] = state]
Inserting(e, t) == {i \in Importers : importer[i].step = "insert" /\ import(i).event = e /\ importer[i].type = t}

\* getEvent, and the new list at hand.
FindPlaced(i) ==
  /\ importer[i].step = "find"
  /\ Now(i, [importer[i] EXCEPT !.step = IF import(i).event \in DOMAIN events THEN "remove" ELSE "done"])
  /\ UNCHANGED <<places, author>>

Authors(e, t) == {x.by : x \in {y \in author : y.event = e /\ y.type = t}}
Authored(e, t, those) ==
  {x \in author : x.event # e \/ x.type # t} \cup [event : {e}, type : {t}, by : those]

\* Mutant of Removed: only the places that the new list will number are removed.
RemovedUpTo(e, t, count) == {p \in places : p.event = e /\ p.type = t /\ p.number < count}

\* RemovePlaces.
Removed(e, t, count) == {p \in places : p.event = e /\ p.type = t}

\* replacePlaces for the next type, in any order.  All there was is removed.
RemovePlaces(i) ==
  /\ importer[i].step = "remove"
  /\ \E t \in importer[i].left :
       LET e == import(i).event IN
       /\ places' = places \ Removed(e, t, import(i).count)
       /\ Now(i, [step |-> "insert", type |-> t, left |-> importer[i].left \ {t}, number |-> 0])
       /\ author' = Authored(e, t, Inserting(e, t) \cup {i})

\* A list that was not made to its end has nobody for author.
Broken(e, t) == Authored(e, t, {"nobody"})

\* CreatePlace, whose key is the Event, the type and the number in the list.
CreatePlace(i) ==
  /\ importer[i].step = "insert"
  /\ importer[i].number < import(i).count
  /\ LET place == [event |-> import(i).event, type |-> importer[i].type,
                   number |-> importer[i].number, by |-> i]
         fails == \/ place.event \notin DOMAIN events
                  \/ \E p \in places : [p EXCEPT !.by = i] = place
     IN  \/ /\ ~fails
            /\ places' = places \cup {place}
            /\ Now(i, [importer[i] EXCEPT !.number = @ + 1])
            /\ UNCHANGED author
         \/ /\ fails
            /\ Now(i, [importer[i] EXCEPT !.step = "done"])
            /\ author' = Broken(place.event, place.type)
            /\ UNCHANGED places

TypeDone(i) ==
  /\ importer[i].step = "insert"
  /\ importer[i].number = import(i).count
  /\ Now(i, [importer[i] EXCEPT !.step = IF importer[i].left = {} THEN "done" ELSE "remove"])
  /\ UNCHANGED <<places, author>>

\* A statement fails, or the server stops: what was done stays.
ImportFails(i) ==
  /\ importer[i].step \in {"find", "remove", "insert"}
  /\ Now(i, [importer[i] EXCEPT !.step = "done"])
  /\ author' = IF importer[i].step = "insert" THEN Broken(import(i).event, importer[i].type) ELSE author
  /\ UNCHANGED places

Import(i) == FindPlaced(i) \/ RemovePlaces(i) \/ CreatePlace(i) \/ TypeDone(i) \/ ImportFails(i)

-----------------------------------------------------------------------------
\* What the readers under way could have seen by now.
Changed == {e \in DOMAIN events' : e \notin DOMAIN events \/ events'[e] # events[e]}
Observe ==
  seen' = [v \in Readers |->
    IF view[v].step = "done" \/ view'[v].step \in {"begin", "done"} THEN seen[v]
    ELSE Joined(Joined(seen[v], Joined(Moment(v), [Never EXCEPT !.unsettled = Changed])), Moment(v)')]

\* DeleteEventPlaces, of the transaction of deleteEvent.
DeletePlaces == places' = {p \in places : p.event \in DOMAIN events'}

Finishing ==
  /\ \A v \in Readers : view[v].step = "done"
  /\ \A i \in Importers : importer[i].step = "done"
  /\ Finished

ReadsNext ==
  \/ /\ \E r \in Requests : Request(r)
     /\ DeletePlaces
     /\ UNCHANGED <<given, view, importer, author>>
     /\ Observe
  \/ /\ \E v \in Readers : Read(v)
     /\ UNCHANGED <<vars, given, places, importer, author>>
     /\ Observe
  \/ /\ \E i \in Importers : Import(i)
     /\ UNCHANGED <<vars, given, view, seen>>
  \/ Finishing /\ UNCHANGED readVars

ReadsSpec == ReadsInit /\ [][ReadsNext]_allVars

-----------------------------------------------------------------------------
(* Properties.                                                             *)

\* Nobody is shown anything of an Event by a right they did not have at some moment
\* of the request, nor a map or a location that was under embargo all the while,
\* although the rules, the parents, the groups and the records are read one after
\* the other, with edits in between.  The exceptions: an Event that was given
\* another row meanwhile, whose new parent may have granted only before what is now
\* granted to its children (search.go:130), or whose parent has a parent; and event
\* groups in the list, which their own rules show (event.go:83).
ReadsWereAllowed ==
  \A v \in Readers : \A x \in view[v].shown : view[v].step = "done" =>
    LET e == x[2]
        may(right) == <<right, e>> \in seen[v].may \/ e \in seen[v].unsettled
    IN  CASE read(v).op = "search" -> may(x[1])
          [] read(v).op = "list" -> /\ read(v).admin \/ may("name") \/ e \in seen[v].groups
                                    /\ x[1] = "map" => read(v).admin \/ e \in seen[v].open
          [] read(v).op = "places" ->
               /\ read(v).admin \/ <<"places", e>> \in seen[v].may
               /\ x[1] \in {"camp", "art"} => read(v).admin \/ e \in seen[v].open

\* Who replaces the places of a type, alone and to the end, leaves exactly their
\* list, whatever mixture of lists earlier replacements have left (place.go:157);
\* and no place is left of an Event that is deleted.
PlacesHeal ==
  /\ \A p \in places : p.event \in DOMAIN events
  /\ \A e \in DOMAIN events, t \in PlaceTypes :
       LET there == {p \in places : p.event = e /\ p.type = t} IN
       Inserting(e, t) = {} =>
         /\ Authors(e, t) = {} => there = {}
         /\ \A i \in Importers : Authors(e, t) = {i} =>
              there = {[event |-> e, type |-> t, number |-> n, by |-> i] : n \in 0 .. import(i).count - 1}
=============================================================================
