----------------------------- MODULE Attachment -----------------------------
(***************************************************************************)
(* Attaching a Field Report or a Visit to an Incident, and how the open    *)
(* pages of the browsers learn of it.                                      *)
(*                                                                         *)
(* The attachment is a column of the Field Report or Visit.  A Visit's is  *)
(* one of the fields of its version-guarded edit.  A Field Report's is     *)
(* written by a statement of its own (handleLinkToIncident): not guarded,  *)
(* not in a transaction, and with the report entry in a second statement.  *)
(* It moves VERSION, so that a guarded edit of the summary, which writes   *)
(* the attachment back as it read it, cannot undo it.  Afterwards an SSE   *)
(* event is published for the record and for the Incidents it left and     *)
(* joined, and the pages that listen to these events fetch again: how the  *)
(* events reach them is in LivePages.                                      *)
(*                                                                         *)
(* The transaction of a guarded edit is one step here: its update holds    *)
(* the row until the commit, so nothing comes between (RecordEdit).        *)
(***************************************************************************)
EXTENDS Integers, FiniteSets

CONSTANTS
  Requests,        \* edits of the one record
  Incidents,       \* the Incidents of the event
  NoIncident,      \* NULL
  Missing,         \* the number of no Incident
  InitRow,         \* [incident, summary] as first stored
  Patches,         \* what a request may name: functions on {"incident"}, {"summary"}
  MaxCASAttempts   \* maxCASAttempts

ASSUME AttachmentAssumption ==
  /\ {NoIncident, Missing} \cap Incidents = {}
  /\ NoIncident # Missing
  /\ "record" \notin Incidents
  /\ MaxCASAttempts \in Nat \ {0}

VARIABLES
  kind,       \* "fieldReport" or "visit"
  row,        \* the record's columns
  version,    \* its VERSION
  patch,      \* patch[r]: the column r writes, with its value
  pc,         \* the next statement of r's handler
  seen,       \* the row and version r read
  casTry,     \* which attempt of the guarded edit r is in
  tell,       \* the records whose event r has still to publish: Incidents, and
              \* "record" for the Field Report or Visit itself
  reply,      \* the answer r was given
  toFetch,    \* the pages that heard an event and have not fetched yet
  page,       \* what each page shows: one per Incident, and the record's own
  last,       \* history: last[c] is the value latest written to column c
  untold      \* history: the pages that missed a change stored by a request that was
              \* answered with an error, and have not fetched since

vars == <<kind, row, version, patch, pc, seen, casTry, tell, reply, toFetch, page, last, untold>>

Columns == {"incident", "summary"}
Pages == Incidents \cup {"record"}
Steps == {"read", "update", "entry", "notify", "done"}
Replies == {"none", "success", "conflict", "notfound", "error"}

Links(r) == "incident" \in DOMAIN patch[r]
Guarded(r) == kind = "visit" \/ ~Links(r)

\* What a page shows: the record's own page its row, an Incident's page whether
\* the record is attached.
Shown(p) == IF p = "record" THEN row ELSE row.incident = p

\* Mutant of Hears: the Visit's page compares as the Field Report's does.
HearsIncidentsOnly(p, e) == p # "record" /\ e \in {p, "record"}

\* Which page takes an event for its own.  An Incident's page follows every Field
\* Report and Visit of the Event.  A Visit's page follows its Visit.  A Field
\* Report's page compares the number of the Event with its name, so that no
\* event is ever its own.
Hears(p, e) ==
  IF p = "record" THEN e = "record" /\ kind = "visit" ELSE e \in {p, "record"}

\* The request's column over a row.
Over(rw, p) == [c \in Columns |-> IF c \in DOMAIN p THEN p[c] ELSE rw[c]]
-----------------------------------------------------------------------------
Init ==
  /\ kind \in {"fieldReport", "visit"}
  /\ row = InitRow
  /\ version = 1
  /\ patch \in [Requests -> Patches]
  /\ pc = [r \in Requests |-> "read"]
  /\ seen = [r \in Requests |-> [row |-> InitRow, version |-> 0]]
  /\ casTry = [r \in Requests |-> 1]
  /\ tell = [r \in Requests |-> {}]
  /\ reply = [r \in Requests |-> "none"]
  /\ toFetch = {}
  /\ page = [p \in Pages |-> IF p = "record" THEN InitRow ELSE InitRow.incident = p]
  /\ last = InitRow
  /\ untold = {}

Answer(r, a) ==
  /\ pc' = [pc EXCEPT ![r] = "done"]
  /\ reply' = [reply EXCEPT ![r] = a]

\* Mutant of Told: a link tells the Incidents and forgets the record itself.
ToldIncidentsOnly(r) ==
  LET new == Over(seen[r].row, patch[r]) IN
  IF Links(r) THEN {seen[r].row.incident, new.incident} \cap Incidents ELSE {"record"}

\* The records whose events follow r's edit: its own; with a link, the Incident it
\* had when r read it and the one it has now.  An edit of a Visit tells its
\* Incident in any case.
Told(r) ==
  LET new == Over(seen[r].row, patch[r]) IN
  {"record"} \cup
    (IF kind = "visit" \/ Links(r)
     THEN {seen[r].row.incident, new.incident} \cap Incidents ELSE {})

\* The handler, or the attempt of a guarded edit, reads the record.
Read(r) ==
  /\ pc[r] = "read"
  /\ seen' = [seen EXCEPT ![r] = [row |-> row, version |-> version]]
  /\ pc' = [pc EXCEPT ![r] = "update"]
  /\ UNCHANGED <<kind, row, version, patch, casTry, tell, reply, toFetch, page, last, untold>>

\* Mutant of LinkUpdate: the statement forgets VERSION = VERSION + 1.
LinkUpdateKeepingVersion(r) ==
  /\ pc[r] = "update"
  /\ ~Guarded(r)
  /\ patch[r].incident # Missing
  /\ row' = Over(row, patch[r])
  /\ last' = Over(last, patch[r])
  /\ pc' = [pc EXCEPT ![r] = "entry"]
  /\ UNCHANGED <<kind, version, patch, seen, casTry, tell, reply, toFetch, page, untold>>

\* AttachFieldReportToIncident: VERSION moves, whatever it was.
LinkUpdate(r) ==
  /\ pc[r] = "update"
  /\ ~Guarded(r)
  /\ patch[r].incident # Missing
  /\ row' = Over(row, patch[r])
  /\ version' = version + 1
  /\ last' = Over(last, patch[r])
  /\ pc' = [pc EXCEPT ![r] = "entry"]
  /\ UNCHANGED <<kind, patch, seen, casTry, tell, reply, toFetch, page, untold>>

\* The generated report entry, in a statement of its own.
LinkEntry(r) ==
  /\ pc[r] = "entry"
  /\ tell' = [tell EXCEPT ![r] = Told(r)]
  /\ pc' = [pc EXCEPT ![r] = "notify"]
  /\ UNCHANGED <<kind, row, version, patch, seen, casTry, reply, toFetch, page, last, untold>>

\* The guarded edit writes the whole row as read, merged, and commits.
GuardedUpdate(r) ==
  /\ pc[r] = "update"
  /\ Guarded(r)
  /\ Links(r) => patch[r].incident # Missing
  /\ version = seen[r].version
  /\ row' = Over(seen[r].row, patch[r])
  /\ version' = version + 1
  /\ last' = Over(last, patch[r])
  /\ tell' = [tell EXCEPT ![r] = Told(r)]
  /\ pc' = [pc EXCEPT ![r] = "notify"]
  /\ UNCHANGED <<kind, patch, seen, casTry, reply, toFetch, page, untold>>

\* Another writer came first: once more from the read, or 409.
GuardedConflict(r) ==
  /\ pc[r] = "update"
  /\ Guarded(r)
  /\ version # seen[r].version
  /\ \/ /\ casTry[r] < MaxCASAttempts
        /\ casTry' = [casTry EXCEPT ![r] = @ + 1]
        /\ pc' = [pc EXCEPT ![r] = "read"]
        /\ UNCHANGED reply
     \/ /\ casTry[r] = MaxCASAttempts
        /\ Answer(r, "conflict")
        /\ UNCHANGED casTry
  /\ UNCHANGED <<kind, row, version, patch, seen, tell, toFetch, page, last, untold>>

\* The foreign key refuses an Incident that does not exist.
NoSuchIncident(r) ==
  /\ pc[r] = "update"
  /\ Links(r)
  /\ patch[r].incident = Missing
  /\ Guarded(r) => version = seen[r].version
  /\ Answer(r, "notfound")
  /\ UNCHANGED <<kind, row, version, patch, seen, casTry, tell, toFetch, page, last, untold>>

\* The events go out one after the other; the answer follows the last.
Notify(r) ==
  /\ pc[r] = "notify"
  /\ \E e \in tell[r] :
       /\ toFetch' = toFetch \cup {p \in Pages : Hears(p, e)}
       /\ tell' = [tell EXCEPT ![r] = @ \ {e}]
       /\ IF tell[r] = {e} THEN Answer(r, "success") ELSE UNCHANGED <<pc, reply>>
  /\ UNCHANGED <<kind, row, version, patch, seen, casTry, page, last, untold>>

\* The pages that do not show what is stored.
Outdated == {p \in Pages : page[p] # Shown(p)}

\* A database error, or the end of the request.  A Field Report may be attached by
\* then, without its entry and without an event.
DatabaseError(r) ==
  /\ pc[r] \in {"read", "update", "entry"}
  /\ Answer(r, "error")
  /\ untold' = IF pc[r] = "entry" THEN untold \cup Outdated ELSE untold
  /\ UNCHANGED <<kind, row, version, patch, seen, casTry, tell, toFetch, page, last>>

\* The commit, or the one statement of a link, is done, but its acknowledgement is
\* lost: an error like others, and no event.
AcknowledgementLost(r) ==
  /\ pc[r] = "update"
  /\ Links(r) => patch[r].incident # Missing
  /\ Guarded(r) => version = seen[r].version
  /\ row' = Over(IF Guarded(r) THEN seen[r].row ELSE row, patch[r])
  /\ version' = version + 1
  /\ last' = Over(last, patch[r])
  /\ Answer(r, "error")
  /\ UNCHANGED <<kind, patch, seen, casTry, tell, toFetch, page>>
  /\ untold' = untold \cup Outdated'

\* A page that heard an event fetches what it shows.
Fetch(p) ==
  /\ p \in toFetch
  /\ toFetch' = toFetch \ {p}
  /\ page' = [page EXCEPT ![p] = Shown(p)]
  /\ untold' = untold \ {p}
  /\ UNCHANGED <<kind, row, version, patch, pc, seen, casTry, tell, reply, last>>

Quiet == toFetch = {} /\ \A r \in Requests : pc[r] = "done"

Finished == Quiet /\ UNCHANGED vars

Handle(r) ==
  \/ Read(r) \/ LinkUpdate(r) \/ LinkEntry(r)
  \/ GuardedUpdate(r) \/ GuardedConflict(r) \/ NoSuchIncident(r)
  \/ Notify(r) \/ DatabaseError(r) \/ AcknowledgementLost(r)

Next ==
  \/ \E r \in Requests : Handle(r)
  \/ \E p \in Pages : Fetch(p)
  \/ Finished

Spec == Init /\ [][Next]_vars
-----------------------------------------------------------------------------
TypeOK ==
  /\ kind \in {"fieldReport", "visit"}
  /\ DOMAIN row = Columns
  /\ row.incident \in Incidents \cup {NoIncident}
  /\ version \in Nat \ {0}
  /\ patch \in [Requests -> Patches]
  /\ pc \in [Requests -> Steps]
  /\ \A r \in Requests : DOMAIN seen[r].row = Columns /\ seen[r].version \in 0 .. version
  /\ casTry \in [Requests -> 1 .. MaxCASAttempts]
  /\ tell \in [Requests -> SUBSET Pages]
  /\ reply \in [Requests -> Replies]
  /\ toFetch \subseteq Pages
  /\ DOMAIN page = Pages
  /\ DOMAIN last = Columns
  /\ untold \subseteq Pages

\* A guarded edit never takes back an attachment, nor the unguarded attachment an
\* edit: each column holds what was latest written to it.
NoEditReverted == row = last

\* When all is answered and fetched every Incident's page shows the record where it
\* is attached and nowhere else, whichever of the racing requests came last, and an
\* open page of a Visit shows it as stored.  The exception: a request was answered with
\* an error although its change was stored; the pages it left behind are behind until
\* the next change that is announced, and no others.
PagesConverge ==
  Quiet => /\ \A i \in Incidents : page[i] = Shown(i) \/ i \in untold
           /\ kind = "visit" => page["record"] = row \/ "record" \in untold

\* README, Layer 3: after a commit "the handler publishes an event [...] and
\* browsers viewing the affected record refetch and redraw", for Field Reports
\* as for the others.
RecordPageConverges ==
  Quiet /\ (\A r \in Requests : reply[r] # "error") => page["record"] = row
=============================================================================
