---------------------------- MODULE RecordParts ----------------------------
(***************************************************************************)
(* The parts of one record that no edit of the record carries and no       *)
(* version guards: the roster of Rangers, the strikes of its report        *)
(* entries and the files uploaded to it (ranger.go, reportentry.go,        *)
(* attachment.go).  The record is an Incident, a Field Report or a Visit;  *)
(* its ordinary edits are one atomic step here (RecordEdit details them).  *)
(*                                                                         *)
(* A change of the roster or of a strike is one transaction with its       *)
(* generated report entry, run again when it is a deadlock victim.  An     *)
(* upload has no transaction: the file, the entry and the row that joins   *)
(* the entry to the record are stored one after another.                   *)
(*                                                                         *)
(* The roster tables have no unique key on the Ranger.  What keeps a       *)
(* Ranger from being there twice is that attaching deletes first: at the   *)
(* default isolation level of InnoDB a delete holds every row of the       *)
(* roster it scanned or, if there is none, the gap, which other deletes    *)
(* may hold too but no other transaction may insert into.                  *)
(***************************************************************************)
EXTENDS Integers, FiniteSets

CONSTANTS
  Requests,             \* the requests; each is served by one goroutine
  Users,                \* those who send them
  Grants,               \* what a user may do: "readAll", "readOwn", "writeAll", "writeOwn"
  FirstAuthor,          \* the user who wrote the first report entry
  Editor,               \* the user whose edits are the atomic step
  Rangers, Roles,       \* who may be on the roster, and in which role
  NoRole,               \* the NULL of the role
  Nil,                  \* an absent value of a request's body
  Scenarios,            \* what may be asked at once, and of what record
  MaxDeadlockAttempts,  \* maxDeadlockAttempts
  MaxVersion            \* bound: the version the record may reach

Kinds == {"incident", "fieldReport", "visit"}
Bodies ==
  [op : {"none"}]
  \cup [op : {"attach"}, user : Users, ranger : Rangers, role : Roles \cup {NoRole}]
  \cup [op : {"detach"}, user : Users, ranger : Rangers]
  \cup [op : {"strike"}, user : Users, id : Nat, to : BOOLEAN \cup {Nil}]
  \cup [op : {"upload"}, user : Users]

ASSUME PartsAssumption ==
  /\ {FirstAuthor, Editor} \subseteq Users
  /\ {"first", "edit"} \cap Requests = {}
  /\ Grants \in [Users -> SUBSET {"readAll", "readOwn", "writeAll", "writeOwn"}]
  /\ NoRole \notin Roles
  /\ Nil \notin BOOLEAN
  /\ MaxDeadlockAttempts \in Nat \ {0}
  /\ MaxVersion \in Nat \ {0}
  /\ \A s \in Scenarios :
       /\ s.kind \in Kinds
       /\ s.exists \in BOOLEAN
       /\ s.roster \subseteq Rangers
       /\ s.body \in [Requests -> Bodies]
       /\ s.kind = "fieldReport" => s.roster = {}
                                    /\ \A r \in Requests : s.body[r].op \notin {"attach", "detach"}

VARIABLES
  given,        \* the scenario, never changed
  exists,       \* is the record stored?
  version,      \* its VERSION
  roster,       \* the rows of its roster, each with the request that inserted it
  entry,        \* every report entry stored; it is the record's own if attached
  attached,     \* the entries joined to the record
  stricken,     \* the entries with STRICKEN set
  nextEntry,    \* AUTO_INCREMENT of REPORT_ENTRY
  file,         \* what the attachment store has of the file of an upload
  pc,           \* the next statement of r's handler
  held,         \* what r's transaction has locked
  removed,      \* the rows of the roster r's transaction has deleted
  logged,       \* the id of the entry r's transaction has inserted, or 0
  deadlockTry,  \* which attempt of retryOnDeadlock r is in
  reply,        \* the answer r was given
  published     \* the requests that published their SSE events

record == <<exists, version>>
entries == <<entry, attached, stricken>>
transaction == <<held, removed, logged>>
vars == <<given, record, roster, entries, nextEntry, file, pc, transaction, deadlockTry,
          reply, published>>

Replies == {"none", "success", "forbidden", "notfound", "error"}
Steps == {"begin", "row", "authors", "look", "delete", "insert", "mark", "log", "commit",
          "save", "entry", "join", "notify", "done"}

kind == given.kind
body(r) == given.body[r]
op(r) == given.body[r].op
user(r) == given.body[r].user

EntriesOf(r) == {e \in entry : e.by = r}
Author(e) == IF e.by = "first" THEN FirstAuthor
             ELSE IF e.by = "edit" THEN Editor ELSE user(e.by)
RowsOf(g) == {row \in roster : row.ranger = g}

-----------------------------------------------------------------------------
Init ==
  /\ given \in Scenarios
  /\ exists = given.exists
  /\ version = 1
  /\ roster = {[by |-> "first", ranger |-> g, role |-> NoRole] : g \in given.roster}
  /\ entry = {[id |-> 1, by |-> "first", says |-> [what |-> "text"]]}
  /\ attached = IF given.exists THEN {1} ELSE {}
  /\ stricken = {}
  /\ nextEntry = 2
  /\ file = [r \in Requests |-> "none"]
  /\ pc = [r \in Requests |-> IF given.body[r].op = "none" THEN "done" ELSE "begin"]
  /\ held = [r \in Requests |-> "none"]
  /\ removed = [r \in Requests |-> {}]
  /\ logged = [r \in Requests |-> 0]
  /\ deadlockTry = [r \in Requests |-> 1]
  /\ reply = [r \in Requests |-> "none"]
  /\ published = {}

Goto(r, step) ==
  /\ pc' = [pc EXCEPT ![r] = step]
  /\ UNCHANGED reply

Answer(r, a) ==
  /\ pc' = [pc EXCEPT ![r] = "done"]
  /\ reply' = [reply EXCEPT ![r] = a]

\* The transaction of r is over, by commit or by rollback.
Release(r) ==
  /\ held' = [held EXCEPT ![r] = "none"]
  /\ removed' = [removed EXCEPT ![r] = {}]
  /\ logged' = [logged EXCEPT ![r] = 0]

-----------------------------------------------------------------------------
(* Permissions, existence and authorship.                                  *)

MayWrite(u) ==
  IF kind = "fieldReport" THEN Grants[u] \cap {"writeAll", "writeOwn"} # {}
                          ELSE "writeAll" \in Grants[u]

\* limitedAccess: only the Field Reports one is an author of.
Limited(u) == kind = "fieldReport" /\ "writeAll" \notin Grants[u]

\* The first statement of the transaction, which every attempt runs again.
TransactionStart(r) ==
  IF op(r) = "attach" THEN "look"
  ELSE IF op(r) = "detach" THEN "delete"
  ELSE IF op(r) = "strike" THEN "mark" ELSE "save"

\* What follows the checks: a strike without a value changes nothing.
Proceed(r) ==
  IF op(r) = "strike" /\ body(r).to = Nil THEN Answer(r, "success")
                                          ELSE Goto(r, TransactionStart(r))

\* Does the handler look the record up before it changes anything?
LooksUp(r) ==
  \/ kind = "fieldReport"
  \/ kind = "visit" /\ op(r) = "strike"

\* getEventPermissions: the event is deleted together with its records.
Begin(r) ==
  /\ pc[r] = "begin"
  /\ \/ given.exists /\ ~exists /\ Answer(r, "notfound")
     \/ ~(given.exists /\ ~exists) /\ ~MayWrite(user(r)) /\ Answer(r, "forbidden")
     \/ /\ ~(given.exists /\ ~exists) /\ MayWrite(user(r))
        /\ \/ LooksUp(r) /\ Goto(r, "row")
           \/ ~LooksUp(r) /\ Proceed(r)
  /\ UNCHANGED <<given, record, roster, entries, nextEntry, file, transaction, deadlockTry,
                 published>>

\* The row of fetchFieldReport, and of the Visit whose entry is struck.
FetchRow(r) ==
  /\ pc[r] = "row"
  /\ \/ ~exists /\ Answer(r, "notfound")
     \/ exists /\ kind = "fieldReport" /\ Goto(r, "authors")
     \/ exists /\ kind = "visit" /\ Proceed(r)
  /\ UNCHANGED <<given, record, roster, entries, nextEntry, file, transaction, deadlockTry,
                 published>>

ContainsAuthor(u, ids) == \E e \in entry : e.id \in ids /\ Author(e) = u

\* Mutant of FetchEntries: the read permission lifts the limit.
FetchEntriesForReaders(r) ==
  /\ pc[r] = "authors"
  /\ LET allowed == ContainsAuthor(user(r), attached) \/ "readAll" \in Grants[user(r)] IN
     \/ Limited(user(r)) /\ ~allowed /\ Answer(r, "forbidden")
     \/ ~(Limited(user(r)) /\ ~allowed) /\ Proceed(r)
  /\ UNCHANGED <<given, record, roster, entries, nextEntry, file, transaction, deadlockTry,
                 published>>

\* The entries of fetchFieldReport, and containsAuthor.
FetchEntries(r) ==
  /\ pc[r] = "authors"
  /\ LET allowed == ContainsAuthor(user(r), attached) IN
     \/ Limited(user(r)) /\ ~allowed /\ Answer(r, "forbidden")
     \/ ~(Limited(user(r)) /\ ~allowed) /\ Proceed(r)
  /\ UNCHANGED <<given, record, roster, entries, nextEntry, file, transaction, deadlockTry,
                 published>>

-----------------------------------------------------------------------------
(* The roster and the strikes: attachRanger, detachRanger, edit*Entry.     *)

\* currentRole, a read of the transaction's snapshot: it locks nothing.
Look(r) ==
  /\ pc[r] = "look"
  /\ LET same == \E row \in RowsOf(body(r).ranger) : row.role = body(r).role IN
     \/ same /\ Answer(r, "success")
     \/ ~same /\ Goto(r, "delete")
  /\ UNCHANGED <<given, record, roster, entries, nextEntry, file, transaction, deadlockTry,
                 published>>

Others(r, locks) == {q \in Requests \ {r} : held[q] \in locks}

\* Mutant of DeleteRows: it waits for nobody, as if only rows it deletes were held.
DeleteRowsAtOnce(r) ==
  /\ pc[r] = "delete"
  /\ held' = [held EXCEPT ![r] = IF RowsOf(body(r).ranger) = {} THEN "none" ELSE "rows"]
  /\ removed' = [removed EXCEPT ![r] = RowsOf(body(r).ranger)]
  /\ Goto(r, IF op(r) = "attach" THEN "insert" ELSE "log")
  /\ UNCHANGED <<given, record, roster, entries, nextEntry, file, logged, deadlockTry,
                 published>>

\* roster.detach: the delete scans the whole roster of the record.
DeleteRows(r) ==
  /\ pc[r] = "delete"
  /\ Others(r, {"rows"}) = {}
  /\ held' = [held EXCEPT ![r] = IF roster = {} THEN "gap" ELSE "rows"]
  /\ removed' = [removed EXCEPT ![r] = RowsOf(body(r).ranger)]
  /\ Goto(r, IF op(r) = "attach" THEN "insert" ELSE "log")
  /\ UNCHANGED <<given, record, roster, entries, nextEntry, file, logged, deadlockTry,
                 published>>

\* Mutant of InsertRow: no gap locks, as at READ COMMITTED.
InsertRowIntoGap(r) ==
  /\ pc[r] = "insert"
  /\ Others(r, {"rows"}) = {}
  /\ exists
  /\ held' = [held EXCEPT ![r] = "rows"]
  /\ Goto(r, "log")
  /\ UNCHANGED <<given, record, roster, entries, nextEntry, file, removed, logged, deadlockTry,
                 published>>

\* roster.attach.
InsertRow(r) ==
  /\ pc[r] = "insert"
  /\ Others(r, {"gap", "rows"}) = {}
  /\ exists
  /\ held' = [held EXCEPT ![r] = "rows"]
  /\ Goto(r, "log")
  /\ UNCHANGED <<given, record, roster, entries, nextEntry, file, removed, logged, deadlockTry,
                 published>>

\* Mutant of Mark: the entry is read and written without holding its row.
MarkUnlocked(r) ==
  /\ pc[r] = "mark"
  /\ held' = [held EXCEPT ![r] = IF body(r).id \in attached THEN "entry" ELSE "none"]
  /\ Goto(r, "log")
  /\ UNCHANGED <<given, record, roster, entries, nextEntry, file, removed, logged, deadlockTry,
                 published>>

\* Set*ReportEntryStricken: only an entry of this record; its row is locked.
Mark(r) ==
  /\ pc[r] = "mark"
  /\ \A q \in Others(r, {"entry"}) : body(q).id # body(r).id
  /\ held' = [held EXCEPT ![r] = IF body(r).id \in attached THEN "entry" ELSE "none"]
  /\ Goto(r, "log")
  /\ UNCHANGED <<given, record, roster, entries, nextEntry, file, removed, logged, deadlockTry,
                 published>>

\* add*ReportEntry inside the transaction: the entry and its join.
LogChange(r) ==
  /\ pc[r] = "log"
  /\ exists
  /\ logged' = [logged EXCEPT ![r] = nextEntry]
  /\ nextEntry' = nextEntry + 1
  /\ Goto(r, "commit")
  /\ UNCHANGED <<given, record, roster, entries, file, held, removed, deadlockTry, published>>

\* The foreign key of a record that is gone, or never was.
ForeignKeyFails(r) ==
  /\ ~exists
  /\ \/ /\ pc[r] = "insert"
        /\ Others(r, {"gap", "rows"}) = {}
        /\ UNCHANGED nextEntry
     \/ pc[r] = "log" /\ nextEntry' = nextEntry + 1
     \/ pc[r] = "join" /\ UNCHANGED nextEntry
  /\ Answer(r, "error")
  /\ Release(r)
  /\ UNCHANGED <<given, record, roster, entries, file, deadlockTry, published>>

\* What the entry says.  Whether a strike found its entry is not in the text: hit
\* is there for the properties.
Says(r) ==
  IF op(r) = "attach"
  THEN [what |-> "roster", ranger |-> body(r).ranger, on |-> TRUE, role |-> body(r).role]
  ELSE IF op(r) = "detach"
  THEN [what |-> "roster", ranger |-> body(r).ranger, on |-> FALSE, role |-> NoRole]
  ELSE IF op(r) = "strike"
  THEN [what |-> "strike", id |-> body(r).id, on |-> body(r).to, hit |-> held[r] = "entry"]
  ELSE [what |-> "file"]

Store(r, id) == entry' = entry \cup {[id |-> id, by |-> r, says |-> Says(r)]}

\* What the transaction of r did becomes visible to the others.
CommitEffect(r) ==
  /\ roster' = (roster \ removed[r]) \cup
       (IF op(r) = "attach" THEN {[by |-> r, ranger |-> body(r).ranger, role |-> body(r).role]}
                            ELSE {})
  /\ stricken' = IF held[r] # "entry" THEN stricken
                 ELSE IF body(r).to THEN stricken \cup {body(r).id} ELSE stricken \ {body(r).id}
  /\ Store(r, logged[r])
  /\ attached' = attached \cup {logged[r]}

\* The commit succeeds; its acknowledgement may be lost.
Commit(r) ==
  /\ pc[r] = "commit"
  /\ CommitEffect(r)
  /\ Goto(r, "notify") \/ Answer(r, "error")
  /\ Release(r)
  /\ UNCHANGED <<given, record, nextEntry, file, deadlockTry, published>>

\* retryOnDeadlockErr.  A statement that takes locks may be chosen as the victim
\* whenever another transaction has some: which one InnoDB picks is not modelled.
DeadlockVictim(r) ==
  /\ pc[r] \in {"delete", "insert", "mark", "log"}
  /\ \E q \in Requests \ {r} : held[q] # "none" \/ logged[q] # 0
  /\ \/ /\ deadlockTry[r] < MaxDeadlockAttempts
        /\ deadlockTry' = [deadlockTry EXCEPT ![r] = @ + 1]
        /\ Goto(r, TransactionStart(r))
     \/ /\ deadlockTry[r] = MaxDeadlockAttempts
        /\ Answer(r, "error")
        /\ UNCHANGED deadlockTry
  /\ Release(r)
  /\ UNCHANGED <<given, record, roster, entries, nextEntry, file, published>>

\* Any statement, the commit included, may fail without an effect.
DatabaseError(r) ==
  /\ pc[r] \notin {"save", "notify", "done"}
  /\ Answer(r, "error")
  /\ Release(r)
  /\ UNCHANGED <<given, record, roster, entries, nextEntry, file, deadlockTry, published>>

-----------------------------------------------------------------------------
(* Uploads: attachToIncident, attachToFieldReport, attachToVisit.          *)

\* Mutant of SaveFile: the error of the copy is dropped.
SaveFileRegardless(r) ==
  /\ pc[r] = "save"
  /\ \E got \in {"whole", "part"} : file' = [file EXCEPT ![r] = got]
  /\ Goto(r, "entry")
  /\ UNCHANGED <<given, record, roster, entries, nextEntry, transaction, deadlockTry, published>>

\* saveFile: a copy that breaks off leaves a part of the file behind.
SaveFile(r) ==
  /\ pc[r] = "save"
  /\ \/ file' = [file EXCEPT ![r] = "whole"] /\ Goto(r, "entry")
     \/ (\E left \in {"none", "part"} : file' = [file EXCEPT ![r] = left]) /\ Answer(r, "error")
  /\ UNCHANGED <<given, record, roster, entries, nextEntry, transaction, deadlockTry, published>>

\* createReportEntry on the connection pool: committed by itself.
StoreEntry(r) ==
  /\ pc[r] = "entry"
  /\ Store(r, nextEntry)
  /\ nextEntry' = nextEntry + 1
  /\ Goto(r, "join") \/ Answer(r, "error")
  /\ UNCHANGED <<given, record, roster, attached, stricken, file, transaction, deadlockTry,
                 published>>

\* AttachReportEntryTo*, likewise.
JoinEntry(r) ==
  /\ pc[r] = "join"
  /\ exists
  /\ attached' = attached \cup {e.id : e \in EntriesOf(r)}
  /\ Goto(r, "notify") \/ Answer(r, "error")
  /\ UNCHANGED <<given, record, roster, entry, stricken, nextEntry, file, transaction,
                 deadlockTry, published>>

\* Mutant of Notify: the answer comes first and the events may be lost.
NotifyDropped(r) ==
  /\ pc[r] = "notify"
  /\ Answer(r, "success")
  /\ UNCHANGED published
  /\ UNCHANGED <<given, record, roster, entries, nextEntry, file, transaction, deadlockTry>>

\* notify*Update, then the answer.
Notify(r) ==
  /\ pc[r] = "notify"
  /\ published' = published \cup {r}
  /\ Answer(r, "success")
  /\ UNCHANGED <<given, record, roster, entries, nextEntry, file, transaction, deadlockTry>>

-----------------------------------------------------------------------------
(* What else happens to the record.                                        *)

\* Some transaction has inserted a row that references the record's.
Referenced == \E q \in Requests : logged[q] # 0 \/ (pc[q] = "log" /\ op(q) = "attach")

\* Another request's edit of the record, with its generated entry.
Edit ==
  /\ exists
  /\ version < MaxVersion
  /\ ~Referenced
  /\ version' = version + 1
  /\ entry' = entry \cup {[id |-> nextEntry, by |-> "edit",
                           says |-> [what |-> "edit", version |-> version']]}
  /\ attached' = attached \cup {nextEntry}
  /\ nextEntry' = nextEntry + 1
  /\ UNCHANGED <<given, exists, roster, stricken, file, pc, transaction, deadlockTry, reply,
                 published>>

\* deleteEvent, for this record of it.  The rows of REPORT_ENTRY it deletes stay
\* in entry: nobody reads one but through its join.
Remove ==
  /\ exists
  /\ ~Referenced
  /\ \A q \in Requests : held[q] \in {"none", "gap"}
  /\ exists' = FALSE
  /\ roster' = {}
  /\ attached' = {}
  /\ UNCHANGED <<given, version, entry, stricken, nextEntry, file, pc, transaction,
                 deadlockTry, reply, published>>

\* The server stops, and starts again for those who have not asked yet.
Crash ==
  /\ \E r \in Requests : pc[r] \notin {"begin", "done"}
  /\ pc' = [r \in Requests |-> IF pc[r] = "begin" THEN "begin" ELSE "done"]
  /\ held' = [r \in Requests |-> "none"]
  /\ removed' = [r \in Requests |-> {}]
  /\ logged' = [r \in Requests |-> 0]
  /\ UNCHANGED <<given, record, roster, entries, nextEntry, file, deadlockTry, reply, published>>

Request(r) ==
  \/ Begin(r) \/ FetchRow(r) \/ FetchEntries(r)
  \/ Look(r) \/ DeleteRows(r) \/ InsertRow(r) \/ Mark(r) \/ LogChange(r)
  \/ ForeignKeyFails(r) \/ Commit(r) \/ DeadlockVictim(r) \/ DatabaseError(r)
  \/ SaveFile(r) \/ StoreEntry(r) \/ JoinEntry(r) \/ Notify(r)

Step == (\E r \in Requests : Request(r)) \/ Edit \/ Remove

Finished == (\A r \in Requests : pc[r] = "done") /\ UNCHANGED vars

Next == Step \/ Crash \/ Finished

Spec == Init /\ [][Next]_vars

-----------------------------------------------------------------------------
(* Properties.                                                             *)

Rows == [by : Requests \cup {"first"}, ranger : Rangers, role : Roles \cup {NoRole}]

TypeOK ==
  /\ given \in Scenarios
  /\ exists \in BOOLEAN
  /\ version \in 1..MaxVersion
  /\ roster \subseteq Rows
  /\ attached \subseteq Nat /\ stricken \subseteq Nat
  /\ nextEntry \in Nat \ {0}
  /\ \A e \in entry : e.id \in 1..(nextEntry - 1) /\ e.by \in Requests \cup {"first", "edit"}
  /\ file \in [Requests -> {"none", "part", "whole"}]
  /\ pc \in [Requests -> Steps]
  /\ held \in [Requests -> {"none", "gap", "rows", "entry"}]
  /\ removed \in [Requests -> SUBSET Rows]
  /\ logged \in [Requests -> 0..(nextEntry - 1)]
  /\ deadlockTry \in [Requests -> 1..MaxDeadlockAttempts]
  /\ reply \in [Requests -> Replies]
  /\ published \subseteq Requests

\* No Ranger is on the roster twice, though no key of the table says so and two
\* requests may attach the same one at once (attachRanger).
RosterHasNoTwins == \A g \in Rangers : Cardinality(RowsOf(g)) <= 1

\* The newest entry of the change log about a Ranger says whether they are on
\* the roster, and in which role.
RosterExplained ==
  \A g \in Rangers :
    LET about == {e \in entry : e.id \in attached /\ e.says.what = "roster" /\ e.says.ranger = g}
    IN  exists =>
          IF about = {} THEN {row.role : row \in RowsOf(g)} =
                             (IF g \in given.roster THEN {NoRole} ELSE {})
          ELSE \E e \in about :
                 /\ \A f \in about : f.id <= e.id
                 /\ {row.role : row \in RowsOf(g)} = (IF e.says.on THEN {e.says.role} ELSE {})

\* The newest strike of an entry in the log says whether it is stricken.  Only
\* the strikes that found it count: one that names an entry of another record, or
\* an upload's before it is joined, says that it struck and has struck nothing.
StrikesExplained ==
  \A n \in attached :
    LET about == {e \in entry : /\ e.id \in attached /\ e.says.what = "strike"
                                /\ e.says.id = n /\ e.says.hit}
    IN  \/ about = {} /\ n \notin stricken
        \/ \E e \in about : (\A f \in about : f.id <= e.id) /\ e.says.on = (n \in stricken)

\* An entry that names a file is never stored before the whole file is: whoever
\* is shown the entry can have the file (saveFile, then addReportEntry).  And
\* an upload that is confirmed is on the record, as long as that exists.
UploadsAreWhole ==
  /\ \A e \in entry : e.says.what = "file" => file[e.by] = "whole"
  /\ \A r \in Requests :
       reply[r] = "success" /\ op(r) = "upload" /\ exists =>
         \E e \in EntriesOf(r) : e.id \in attached

\* What is announced is stored already: a page that fetches the record again on
\* the event finds the change.  And nobody is told of a success that was not
\* announced, unless there was nothing to do.
ToldAfterCommit ==
  /\ \A r \in published : exists => \E e \in EntriesOf(r) : e.id \in attached
  /\ \A r \in Requests :
       reply[r] = "success" => r \in published \/ EntriesOf(r) = {}

\* Nobody who may only write their own Field Reports adds anything, an upload or
\* a strike, to one that they are not an author of; a grant to read them all
\* does not help.
OutsidersWriteNothing ==
  \A e \in entry : e.by \in Requests /\ Limited(Author(e)) => Author(e) \in {FirstAuthor, Editor}
=============================================================================
