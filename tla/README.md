# Ranger IMS: specifications, model checks and proofs

This directory specifies Ranger IMS in TLA+: the Go server, what its database
statements do under InnoDB, and the pages in the browser. TLC checks small
instances of every module. TLAPS proves every safety property of the passing runs
for all values of the constants.

Run these from this directory:

    tlc -workers 2 -config MCRecordEdit.cfg MCRecordEdit.tla
    tlapm RecordEditProofs.tla

`PROJECT.json` lists the components, the runs, one mutant for each property, the
source lines behind each definition, the findings, the hazards and the theorems.
Operators whose comment begins with "Mutant of" belong to these mutants. They are
variants of the definition below them with a plausible bug, and no specification
uses them.

Contents:

1. [The system](#1-the-system)
2. [The modules](#2-the-modules)
3. [What TLC checks](#3-what-tlc-checks)
4. [What is proved](#4-what-is-proved)
5. [Where the code and its documents disagree](#5-where-the-code-and-its-documents-disagree)
6. [What is not modelled](#6-what-is-not-modelled)
7. [Plan](#7-plan)

## 1. The system

Rangers of Black Rock City record **Incidents**, **Field Reports** and **Visits**
(to a Sanctuary), all of which belong to an **Event**. The server is one Go
process with one goroutine per request and MariaDB behind it. Nearly all shared
state is in the database. What the server keeps in memory is the counter of the
event stream, the caches of the directory, a mutex for access rules and the queues
of two logs. Each browser runs one TypeScript program per page. The pages of one
browser share one connection for server-sent events.

| Component | State | Operations | Hard because | Correct when |
|---|---|---|---|---|
| Record edits (`api/incident.go`, `visit.go`, `fieldreport.go`) | a row with `VERSION`, report entries | read, merge, guarded write, retry, log, publish | many writers, each with a row read earlier; deadlock victims; a commit may not be acknowledged | no update is lost; log and row agree; nothing is done twice; a 409 is never spurious |
| Creation (same files) | numbers per Event | find the next number, insert, fill | two creators find the same number; the fill may fail | one record per creator, numbers without a gap and for good |
| Types and links (`api/incidentrelation.go`) | rows of a relation | check, insert or delete, log | the check is outside of the transaction; links lock two rows in either order | both rows of a link or none; log and relation agree |
| Attachment (`api/fieldreport.go`, `visit.go`) | a column of the Field Report or Visit | attach, move, detach | one statement without guard or transaction beside the guarded edits; several pages are concerned | no edit takes it back; all pages concerned are told |
| Event stream and pages (`api/eventsource.go`, `web/typescript`) | counter, leader lock, `localStorage`, what pages show | publish, connect, replay, broadcast, fetch, draw | lost connections, change of leader, restarts, answers out of order | pages end up showing what is stored |
| Page edits (`ims.ts`, `incident.ts`, ...) | the chain of mutations, controls | type, commit, click, send, refetch, redraw | the user is ahead of the server | nothing typed is lost; one record is created |
| Events and access (`api/event.go`, `eventaccess.go`) | Events, groups, rules, entries | create, edit, group, replace rules, delete | unguarded read-merge-write; several transactions per request | groups are roots; rules are whole; nothing dangles |
| Permissions (`lib/authz`, `api/helpers.go`) | none | compute what one may do | two pieces of code for one question | they agree |
| Directory and tokens (`directory`, `lib/cache`, `api/auth.go`) | three caches, tokens | get, refresh, flush, log in, refresh a token | a fetch under way during a flush; claims outlive the change | reads after a flush are fresh; tokens forget in time |
| Rosters and strikes (`api/ranger.go`, `reportentry.go`) | rows without a unique key; a flag of an entry | attach, change role, detach, strike, restore | two attach the same Ranger, or strike and restore one entry | nobody is listed twice; the log explains roster and strikes |
| Files and reads of a record (`api/attachment.go`, GET handlers) | files in a store, entries that name them | upload in three steps, read in several queries | a failure between the steps; changes between the queries | a page explains itself; files are whole; nobody sees what they may not |
| Reads across Events (`api/search.go`, `event.go`, `embargo.go`) | none | search, list Events, read places | rules, parents, groups and records are read one after the other | nothing is shown that was not allowed at some moment |
| Places (`api/place.go`) | rows per Event and type | replace, import | a delete and many inserts, each committed by itself | the next whole replacement heals any mixture |
| Migration (`store/migrate.go`) | the schema and its version | check, run scripts, verify | DDL commits by itself; kills; no lock between two servers, and later scripts reshape what earlier ones made | the version stored vouches for the schema, and no server serves less than that of its code |
| Adapters, logs, shutdown (`api/mux.go`, `store/actionlog`, `errorlog`, `cmd/serve.go`) | two bounded queues, counters of drops | pass a request inwards and back, enqueue, write, drop, stop | hang-ups, panics, a database that hangs | failures are logged; no request waits for a log; drops are reported |

**Interactions.** A page sends a mutation through its chain (ClientEdits). The
handler creates or edits a record (RecordCreate, RecordEdit), a relation
(MembershipEdit) or an attachment (Attachment), commits, and publishes an event.
The event reaches the browsers (LivePages), whose pages fetch again. Each handler
first asks for the permissions of the caller. These come from the rules
(EventAdmin), the claims of the token and the cached directory (DirectoryCache).
The deletion of an Event (EventAdmin) appears in RecordEdit, RecordCreate and
RecordParts as a step of its own that may come between any two others.

Two modules compose: RecordReads reads the record that RecordParts changes, and
EventReads reads the Events and rules that EventAdmin changes. Both extend the other
module, add the readers' variables and keep its actions as they are. ServerLife is
around all of them: it says when requests can arrive and what becomes of them when
they fail.

The hazards in `PROJECT.json` name each place where this can go wrong, with the
properties that would notice.

## 2. The modules

An action is what happens between two points at which others can see or change
shared state: mostly one SQL statement with the code around it. `pc[r]` is the
next statement of the goroutine that serves request `r`. What a request asks for
(`body`, `patch`, `note`) is chosen at the start and never changes. A variable
marked as history in its comment is read by properties only.

### RecordEdit and AtomicRecord

`AtomicRecord` is the promise: the fields a request names are written over the
record as it is at one instant, together and at most once. `RecordEdit` is what
`updateIncident`, `updateVisit` and `updateFieldReport` do:

| Action | Code |
|---|---|
| `Read` | the read at the start of an attempt, the merge, and the check of the merged row |
| `GuardedUpdate` | `UPDATE ... WHERE VERSION = ?`; takes the row lock |
| `Recheck` | after zero rows: is the record gone, or was the race lost? Loops or answers 409 |
| `InsertEntries` | generated entry and report entry; takes a shared lock by the foreign key |
| `InsertIntoNothing` | the same after the Event was deleted |
| `Commit`, `CommitUnacknowledged` | commit; and one whose acknowledgement never arrives |
| `Notify` | publishing, then the answer |
| `DeadlockVictim` | InnoDB rolls the attempt back; `retryOnDeadlock` |
| `DatabaseError` | any other error, or the end of the process |
| `DeleteEvent` | `deleteEvent`, by somebody else |

The row's columns are values, and which rows are accepted is a constant
(`ValidRows`): for a Visit, departure is not before arrival.

### RecordCreate

`NextNumber`, `Insert` (with its duplicate-key outcome), the fill and `Notify`.
The fill is one step that may fail. `EditsAreAtomic`, proved of RecordEdit, is what
allows this.

### MembershipEdit

`setIncidentType` and `setIncidentLink`: `Check` outside of the transaction,
`InsertRow`, `InsertDuplicate`, `InsertRefused` and `DeleteRow` in the order of the
request's rows, then `Log`, `Commit` and `Notify`. Row locks and gap locks are in
`held` and `gaps`. A deadlock is a cycle of waiting requests, and only a member of
such a cycle can be a victim. Any error of the first insert of a link is answered
400, as in the code.

### Attachment

The column `incident` of a Field Report or Visit and one other column. For a Visit
the attachment is one more guarded edit. For a Field Report it is `LinkUpdate`
(unguarded; moves `VERSION`) and then `LinkEntry`. `AcknowledgementLost` is the commit
or the link that is stored and answered with an error, without an event; `untold` keeps
the pages that are behind because of it. `Told` says whose events are
published; `Hears` says which page takes which event for its own. Delivery is one
step here: LivePages has the details.

### LivePages

Server: `Commit`, `TakeNumber`, `Publish` and `NeverPublish` of a handler, and
`Restart`. Connection: `Lead`, `Connect` (with the replay of the InitialEvent),
`Drop`, `ReceiveInitial`, `ReceiveUpdate`. Page: `Open`, `Serve` (the server
answers a fetch), `Draw`, `FetchFails`, `Listen`, `Close`. `excuse[p]` records
which of six named things has happened to page `p` since the server last answered
it; each is a way in which this design does not converge. `OpenPagesConverge` says that
there is no seventh.

The names of this module, and those of ClientEdits, differ from the others' where a
module of proofs extends them next to another one: `LiveSpec`, `FormSpec`,
`incidentNumber` (`incident.number`).

### EventAdmin

`editEvents` (`CreateEvent`, `FetchEvent`, `FetchParent`, `UpdateEvent`),
`postEventAccess` (`FindAccessEvent`, `SetAccess`, `AccessDone`), `deleteEvent`
(`FindEvent`, `ListEntries`, `DeleteRows`) and `AppendEntry`, which stands for every
request that adds an entry. `EventPermissions` is what `getEventPermissions` finds
for one Event, by its own query. `AccessOf` is what `permissionsByEvent` finds for
all Events, visiting them in some order, as a Go map does. `placed` stands for the
columns that a group may not have.

### EventReads

Extends EventAdmin with readers and importers.

| Action | Code |
|---|---|
| `ReadRules`, `ReadParents`, `ReadGroups`, `FindRecords` | the four queries of `getSearch`: rules, parents, groups, records |
| `ReadRows`, `ReadRules`, `ReadParents`, `AnswerList` | `getEvents`, with the embargo of the map |
| `ReadRows`, `CheckPlaces`, `ReadPlaces` | `GetPlaces`, with the embargo of the locations |
| `FindPlaced`, `RemovePlaces`, `CreatePlace`, `TypeDone`, `ImportFails` | `UpdatePlaces`, `ImportPlaces` and `replacePlaces`, one statement each |

`seen[v]` is history: what held at some moment since reader `v` began. `Observe`
keeps it, beside every step of others.

### RecordParts and RecordReads

What belongs to a record and no version guards.

| Action | Code |
|---|---|
| `Begin`, `FetchRow`, `FetchEntries` | permission, existence, authorship |
| `Look`, `DeleteRows`, `InsertRow` | `attachRanger`, `detachRanger`: a look that locks nothing, a delete that scans the roster, an insert |
| `Mark` | the strike, which locks the row of an entry of this record |
| `LogChange`, `Commit`, `ForeignKeyFails` | the generated entry and the end of the transaction |
| `DeadlockVictim`, `DatabaseError` | `retryOnDeadlockErr`, and any other error |
| `SaveFile`, `StoreEntry`, `JoinEntry` | an upload: three steps, no transaction |
| `Notify` | publishing, then the answer |
| `Edit`, `Remove`, `Crash` | an edit of the record, the deletion of its Event, the end of the process |

`held[r]` abstracts InnoDB's locks on the roster: the rows a delete scanned, or the
gap if there was none. Gap locks do not exclude each other; they exclude inserts.
RecordReads adds the readers: `BeginRead`, `ReadRow`, `ReadEntries`, `ReadRoster`,
`Assemble` and `OpenFile`. `MayAsk` is the order of the queries: row, entries, roster
for a page; entries, then rows for the list of Field Reports; any order for the
other lists, which run them concurrently.

### DirectoryCache

`cache.InMemory`, three times: `Load` (first look), `Lock` (mutex and second look),
`Fetch`, `Store`, `FetchFails`; `Invalidate` by a flush, one cache after the other.
What the directory says is abstracted to *how many of the administrators'
statements it has seen*, so that "older" and "fresh" are comparisons of numbers.
`Login` makes or refreshes a token from the users. `Request` needs an unexpired
token and asks for positions and teams. `Tick` lets time pass, between handlers
only: a tick stands for minutes, and a handler takes less.

### ClientEdits

One detail page. `Type`, `Commit` and `Click` are the user's. `Start`, `Reach`,
`Refuse`, `Answered`, `AnsweredRoster` and `Failed` run the first mutation of the
chain (`newMutationChain`). `ReadLoad`, `Draw`, `LoadFails` and `DrawNew` are
refetches and redraws, whoever asked for them. `FreeReach` and `FreeFails` are
uploads, which go past the chain. `OthersWrite`, `Hear` and `HearAll` are the rest
of the world. What people write is abstracted to numbers in order of time.

### ServerLife

| Action | Code |
|---|---|
| `Boot`, `CheckVersion`, `RunStatement`, `VerifyVersion`, `KilledEarly` | `mustStartServer` and `MigrateDB`, statement by statement |
| `Arrive`, `RequireAuthN`, `Handle`, `HangUp` | the adapters inwards, the handler, a client that leaves |
| `LogAction`, `RecordErrors` with `Offer`, `CountDrop` | the adapters outwards; `Logger.Log` in two steps |
| `TakeRow`, `WriteRow`, `ReportDrops` | `startWorker` |
| `Signal`, `Exit` | `runServerInternal` |

A script is a sequence of statements: changes, and the one that sets the version. A
change needs some objects (tables, columns, keys) to be there and others not to be, and
gives objects their shapes, whatever these were before: `create table STAY` of script 27
is refused while the table is there, and goes through again after 29 has renamed it;
`modify column MODE` of 27 goes through at any time and takes back what 29 made of it.
What all changes of a script amount to (`Leads`) is an assumption, of which the
repository's migration test is the source. A killed server counts as gone when the
database no longer goes on with the script it was sent.

## 3. What TLC checks

| Run | Instance | Properties | What it shows |
|---|---|---|---|
| `record_edit` | 3 requests; arrival and departure of a Visit; 2 tries of each kind | `ChangeLogExplainsRow`, `StoredOnceOrNever`, `ConflictOnlyAfterLosing`, `PublishedAfterCommit`, `EveryAttemptEnds`, `ImplementsAtomicRecord` | no lost update, no double effect, no spurious 409, no endless retry, and the refinement |
| `membership_edit` | 3 requests out of attach/detach of a type and link/unlink from both ends, an Incident that does not exist; fair | `RowsStoredTogether`, `ChangeLogExplainsMembership`, `CommutingRequestsAllWin`, `EveryRequestAnswered` | links are symmetric in spite of deadlocks; requests that do not contradict each other all win |
| `record_create` | 4 creators, 3 tries | `NumbersConsecutive`, `CreatedOnce`, `ConflictOnlyAfterLosing`, `NumbersStay` | numbers without gaps, one record each |
| `attachment` | 3 requests, 2 Incidents and a missing one, 2 tries | `NoEditReverted`, `PagesConverge` | attachments and edits never take each other back; the pages of Incidents and Visits end up right, but for those a lost acknowledgement leaves behind |
| `attachment_field_report_page` | the same | `RecordPageConverges`, violated | finding 1 |
| `live_pages` | 2 changes, 2 pages, 1 lost connection, 1 restart | `OpenPagesConverge` | convergence but for the six named exceptions |
| `live_pages_visit` | 2 changes, 2 pages of Visits, 1 lost connection | `VisitPagesConverge`, violated | finding 2 |
| `event_admin` | EventReads: 3 requests out of 14, or 2 with a reader or two imports; room for 4 Events, 2 rules, 2 moments | `GroupsAreRoots`, `NothingDangles`, `PermissionsAgree`, `AccessIsWhole`, `ReadsWereAllowed`, `PlacesHeal` | unguarded edits keep the groups in shape; torn reads show nothing that was never allowed; both with named exceptions |
| `directory_cache` | 2 people, 1 administrator with 2 statements, life of the cache 2, of a token 1, time up to 3 | `FreshAfterFlush`, `TokensForget`, `TokensForgetEventually` | a flush is not undone by a fetch under way; how long a token may be wrong |
| `client_edits` | 2 controls, 3 writes, 2 refetches at once, 2 faults | `PageCreatesOnce`, `NoTypingLost`, `SettlesOnOwnWrites` | the chain and the redraws keep what the user wrote |
| `record_parts` | RecordReads: 3 requests, or 1 or 2 with a reader; 2 Rangers, 3 users of different rights | `RosterHasNoTwins`, `RosterExplained`, `StrikesExplained`, `ToldAfterCommit`, `PageExplainsItself`, `OutsidersStayOut`, `FilesAreServed` | gap locks do what a unique key would; the order of a page's queries makes it explain itself |
| `server_life` | 2 servers with versions 5 and 6, each started twice, over a database of version 0 to 6, and five of the repository's scripts; 2 requests, queues of 1; fair | `SchemaIsWhole`, `FailuresAreLogged`, `DropsAreReported`, `ServedWithoutWaiting` | a kill at any statement is survived, except in a new database; overlapping migrations are, if no object is reshaped; no log holds up a request |

Each module also keeps a type invariant, `TypeOK` (`LiveTypeOK`, `FormTypeOK`). No run
lists it, because other properties say more. It is part of the proved invariants of
RecordEdit, RecordParts, DirectoryCache, LivePages and ClientEdits.

### Bounds

- *Tries.* The code has 3 CAS attempts, 6 deadlock attempts (`helpers.go:54`) and 3
  number attempts. With 2 of the first two, a request can already lose, retry, lose again
  and be told of the conflict, next to another that does the same. Numbers keep the
  3 of the code, and a fourth creator is there so that one can lose all of them. The
  proofs hold for any bound.
- *Requests.* Two suffice for a lost update. The third is the writer that comes
  between a retry and its reread, or closes a cycle of waits in another order.
- *Links.* Two Incidents give both orders of locking, and a third that does not
  exist gives the broken foreign keys.
- *Events.* Group, child and outsider: each can be made what another is, and the
  fourth is created on the way. Requests are picked from bodies chosen so that
  each check of `editEvents` has one that passes and one that fails. A reader is
  combined with those pairs of edits that change what it may see. A torn read needs
  two edits: one that takes a right away and one that gives another.
- *Places.* Two lists of different lengths, so that a mixture can be longer than
  either, and a second type that only one of them replaces.
- *Parts.* A roster with nobody, so that only gaps are locked, and with one Ranger,
  so that rows are. Three changes of one Ranger, or two of one and one of another.
  A strike of an entry that exists, and of one that an upload has not joined yet.
- *Servers.* Versions 5 and 6 over 0 to 6 give no step, a single one, several at once and
  a server that is too old. The scripts stand for 14, 27, 29, 35 and 36. The first three
  reshape an object again (`MODE` is changed once in 27 and twice in 29), so two
  overlapping migrations that have 27 and 29 before them can break the schema, and the
  condition of `SchemaIsWhole` that excludes it is needed. The last two shape theirs once
  (`ShapedOnce`), so overlapping migrations there are checked in full. A queue
  of 1 is full with one row in it and another taken by the worker. The code has
  1024; nothing in the properties depends on it.
- *Directory.* Configured are 5 minutes for the cache and 15 for an access token.
  The proofs take any durations. In the run, the life of a token is the shorter one,
  so that renewals from an old cache happen within few ticks; and the clock goes on
  for as long as a value fetched at the start, and a token made from it, may live.
- *Pages.* With two changes, the numbers of the stream can be published in the
  other order and a restart can count up to the number that was seen. One lost
  connection and two pages give each change of leader.
- *Typing.* Three writes: the creation, one that waits behind it, and one made
  while its answer is drawn. Two refetches can change places. Two faults let a retry
  fail as well.

`CHECK_DEADLOCK FALSE` is used for LivePages alone: when all changes are made and
all pages closed, that system stops. Elsewhere `Finished` stutters in exactly the
states in which all requests are answered, so that TLC reports any other stop.
DirectoryCache has no `Finished`: its people can always start over.

Symmetry is used where only invariants and action properties are checked and the
permuted values are interchangeable, never in the runs with liveness.

### Fairness

`MembershipEdit!FairSpec` assumes weak fairness of `Handle(r)`, for each request: a
goroutine that can go on does so eventually. Go schedules its goroutines
preemptively, and InnoDB grants a lock that is free. It also assumes that a deadlock
has a victim eventually: InnoDB detects deadlocks, and where it does not,
`innodb_lock_wait_timeout` ends them. Nothing is assumed about failures: they may
happen or not. Without the second assumption `membership_edit` has a counterexample:
two links of the same pair from both ends.

`ServerLife!FairSpec` assumes weak fairness of `Serve(q)`, for each request, for the
same reason. It assumes nothing of the workers of the logs, so
`ServedWithoutWaiting` holds with a database that hangs.

RecordEdit states its liveness as a measure: `EveryAttemptEnds` says that each step
of a request brings it closer to its answer, and that nobody who waits holds the
row. This needs no fairness, and it is proved.

## 4. What is proved

Eight modules hold proofs: `RecordEditProofs`, `RecordCreateProofs`,
`MembershipEditProofs`, `AttachmentProofs`, `RecordPartsProofs`, `EventAdminProofs`,
`DirectoryCacheProofs` and `ServerLifeProofs`. `EventAdminProofs` is about EventReads as
well and `RecordPartsProofs` about RecordReads. `AttachmentProofs` is also about
LivePages: what makes a page fetch, seen from the handlers and from the browser.
`RecordCreateProofs` is also about ClientEdits: one record per creator, and one creator
per page. The theorems hold for all values of the constants that satisfy the ASSUMEs of
the modules:

| Theorem | Statement | Rests on |
|---|---|---|
| `RecordEditProofs!TypeCorrect` | `[]TypeOK` | `SeenInv`: a stored row stays valid because a commit writes a merge that was accepted |
| `NoLostUpdate` | `[]ChangeLogExplainsRow` | `IInv` below |
| `EditsAreAtomic` | `AtomicRecord!Spec` | the same: each step maps to one of the abstract actions or to a stutter |
| `PublishedOnce` | `[]PublishedAfterCommit` | `PublishInv`, over `CommittedInv` |
| `ConflictsAreReal` | `[]ConflictOnlyAfterLosing` | `TryInv`: each attempt began at a later version than the one before |
| `RetriesRunOut` | `EveryAttemptEnds` | the bounds of both retry loops |
| `EntriesStoredOnce` | `[]StoredOnceOrNever` | `StoredInv`, over `IInv` |
| `Consecutive`, `CreatesOnce` | `[]NumbersConsecutive`, `[]CreatedOnce` | `PendingInv`, `OwnerInv` |
| `NumbersAreKept` | `NumbersStay` | the shape of the steps, and the deletion of the Event |
| `ConflictsAreLost` | `[]ConflictOnlyAfterLosing` of RecordCreate | `LostInv` |
| `FormInvariant`, `FormIsTyped` | `[]FormInv`, `[]FormTypeOK` of ClientEdits | `FormInv` |
| `OneRecordPerPage` | `[]PageCreatesOnce` | `NumberInv`, `CountInv` |
| `EditsAreKept` | `[]NoTypingLost` | `HeadInv` |
| `ChainSettlesOnEdits` | `[]SettlesOnOwnWrites` | `OrderInv`, `ReadInv`, `SettleInv` |
| `LinksAreWhole` | `[]RowsStoredTogether` | `LockInv`, `StoredInv` |
| `ChangesAreExplained` | `[]ChangeLogExplainsMembership` | `EntryInv` |
| `AgreedRequestsWin` | `[]CommutingRequestsAllWin` | `WonInv` |
| `NothingIsReverted` | `[]NoEditReverted` | `ReadInv` |
| `PagesSettle` | `[]PagesConverge` of Attachment | `PageInv` |
| `PagesFollow` | `[]OpenPagesConverge` of LivePages | `LiveInv`: `NumbersInv`, `WireInv`, `FollowInv` |
| `NobodyTwice` | `[]RosterHasNoTwins` | `LockInv` of the roster |
| `RosterIsExplained`, `StrikesAreExplained` | `[]RosterExplained`, `[]StrikesExplained` | `NewerInv`, `StrikeInv` |
| `EventsFollowCommits` | `[]ToldAfterCommit` | `ToldInv` |
| `ReadersChangeNothing` | RecordReads implements RecordParts | the shape of the readers' steps |
| `PagesExplainThemselves` | `[]PageExplainsItself` | `EditInv`, `ReadersInv` |
| `OutsidersAreKeptOut` | `[]OutsidersStayOut` | `OutsiderInv`, `ReadersInv` |
| `FilesComeWhole` | `[]FilesAreServed` | `FileInv`, `ReadersInv` |
| `GroupsStayRoots` | `[]GroupsAreRoots` | `MergedInv` |
| `DeletionLeavesNothing` | `[]NothingDangles` | `SnapshotInv` |
| `ListAgreesWithEvent` | `[]PermissionsAgree` | `GroupsAreRoots`, and what `AccessOf` computes, by induction |
| `ModesAreReplacedWhole` | `[]AccessIsWhole` | `AccessInv`, `RulesInv` |
| `ReadsKeepEventAdmin` | EventReads implements EventAdmin | the shape of the readers' steps |
| `ReadersWereAllowed` | `[]ReadsWereAllowed` | `ReaderInv`, over `RowsInv` |
| `ReplacingPlacesHeals` | `[]PlacesHeal` | `HealInv`, `ImportersInv` |
| `DirectoryCacheProofs!TypeCorrect` | `[]TypeOK` | itself |
| `FlushIsFresh` | `FreshAfterFlush` | `MutexInv`, `FreshInv`, `NeedInv` |
| `TokensForgetInTime` | `[]TokensForget` | these, and `TokenInv` |
| `TokensForgetByThemselves` | `[]TokensForgetEventually` | `AgeInv` |
| `SchemaStaysWhole` | `[]SchemaIsWhole` | `PlaceInv`, `StepsInv`, `SingleInv`, `OnceInv`, `NewInv` |
| `FailuresReachTheLog` | `[]FailuresAreLogged` | `RowsInv`, `StepInv` |
| `DropsGetReported` | `[]DropsAreReported` | `DropInv` |

None of the safety properties is inductive as it stands; this is what each lacks.

**No lost update.** That log and row agree survives a guarded update only if a
version that has not moved means a row that has not moved (`SeenInv`), and if the
entry about to be committed is the newest of its kind. The identifier of an entry
is drawn before the commit and not rolled back, so that alone proves nothing: it is
the row lock, held from the update to the commit, that puts the entries in the order
of the updates (`LockInv`, `InsertedInv`, `EntriesInv`). The refinement follows: the
step that commits is the abstract edit, on the row as it is then, because the row
that the attempt read is that row. All others stutter, and `DeleteEvent` maps to
itself.

**Entries.** `StoredInv` follows the entries through the transaction: what is inserted
when the commit is due is all that the request is to append, each kind once
(`Single`, `Whole`), a rolled-back attempt takes its own away, and only a commit makes
them part of the record.

**Numbers.** Whoever is about to insert holds a number whose predecessor is taken
(`PendingInv`), as long as the Event exists: only its deletion takes numbers back.
`LostInv` counts the failures: the number about to be tried is none of those lost
before, because those are taken, so each attempt loses another one.

**A new record's page.** A mutation reads the number of the record when it starts, and
the one before it had its answer by then: what is sent goes to the record there is
(`NumberInv`), so the records are those that are known, one at most, and those whose
answer was lost (`CountInv`). An edit leaves the chain when it is stored (`HeadInv`) or
refused, and a redraw leaves the control with the focus alone; so nothing typed is
lost. That the chain settles on the user's writes needs their order: what is written to
a field grows from the database over the chain to the control (`OrderInv`). So the
chain's refetch, which the server answers after the mutation is stored, has all of them
(`ReadInv`), whichever other refetches are under way, and the page shows them until the
chain stores the next one (`SettleInv`).

**Links.** What a transaction has inserted is absent until its commit and what it has
deleted is present, since nobody else can hold those rows (`LockInv`). So a commit
turns all rows of one link over at once. `StoredInv` is this for every link;
it needs the assumption that two requests concern the same rows or disjoint ones, which
holds because both ends of a link name the same two rows. The log is harder:
removals of an absent row hold only a gap, gaps do not exclude each other, and their
entries can be committed in either order. `EntryInv` says that this is the only
disorder and that all those entries say the same. `WonInv` keeps what a successful
answer promised while nobody asks for the opposite.

**Attachments.** The unguarded `LinkUpdate` and the guarded edit cannot revert each
other because both move `VERSION` (`ReadInv`: what was read is the present row, unless
the version moved since). For the pages, `PageInv` says that a page which is neither
right nor about to fetch is owed an event by a request that has not finished (`Owes`), or
is `untold`: left behind by a change that was stored and answered with an error.

**Live pages.** The same in detail. A page is `Behind` if it shows something old, has
no fetch under way that would bring the new, and no excuse. `FollowInv` says that
something is then still `Coming` to it: a handler that has committed; one with a number
that the browser has not passed; the event on the wire; an InitialEvent that shows a
gap; or, without a connection, the gap that the next InitialEvent will show. For these
to be preserved, the numbers on the wire must grow unless one was overtaken (`WireInv`),
and nobody may hold a number that was published in this run of the server or that a
browser has seen in it (`NumbersInv`).

**Rosters.** `INCIDENT__RANGER` and `VISIT__RANGER` have no unique key.
What replaces it is the delete before each insert: it locks the rows that it scans, or the gap of an empty roster. Two requests
can both hold the gap; then neither can insert while the other is there. `LockInv` says
which requests can be in their transactions together and that what a delete saw is still
so; `NoTwins` follows. `NewerInv` and `StrikeInv` say that an entry about to be
committed is newer than all stored entries about the same thing, with the exception of
two removals of nobody.

**Pages of a record.** The three queries of a page have no snapshot in common. The
log on the page has every edit up to the version shown because the row is read before
the entries, and each edit stores both in one transaction (`EditInv`). The roster
agrees with the log or with something newer because it is read last. `FreshInv` keeps
the entries not committed apart from those that are.

**Outsiders.** An entry of an outsider would make the outsider an author. `OutsiderInv`
says that everybody who is past the check of the authorship, and every stored author,
is an author by right.

**Groups.** An edit writes a row that it read some time ago, so the invariant
cannot be about the Event as it is. `MergedInv` says that the row *to be written*
was checked as a whole: group, parent and all. Whole rows overwrite each other, and
each of them is in shape. What is not kept is a relation between two rows: the
parent may cease to be a group (section 5).

**Deletion.** The entries to delete are listed before anything is locked.
`SnapshotInv` says that what was listed stays of the deleted Event, because an entry
belongs to one record and new ones have higher numbers. Nothing of another Event is
deleted, and what is left refers to no row that is gone.

**Two computations of one permission.** `permissionsByEvent` goes through all rows and
adds up rules as it goes (`Grants` are its steps, which `GrantsExist` shows to be a
well-founded recursion). An Event that has no parent keeps its own rules throughout, so
that a child of it has, after any number of rows, its own rules and, if its row was among
them, its parent's (`AccessOfRows`, over `LeastOne`: a claim about rows that fails has a
first row at which it does). The order of the rows therefore does not matter.
`GroupsAreRoots` gives the other case: a group is granted nothing when it alone is asked
for. `NothingDangles` has every parent be among the rows.

**Rules.** `AccessInv` says that what is left to do for an access request is all that it
asked for less what it has replaced, mode after mode. `RulesInv` gives each stored set
of rules its author: one request's whole list, or the first one.

**Torn reads.** What a reader holds from an earlier query may not be so any more.
`ReaderInv` says of each such piece that it *was* so at a moment of the request (what
`Observe` noted in `seen`), or that the Event is one of the exceptions: it was given
another row meanwhile. The answer is computed from pieces of different moments. The
rules are read before the parents, so a right that comes from both holds for rows that
did not change, and Events that did change are `unsettled`.

**Places.** `HealInv` goes by who can have stored what a type holds: the importer that
last cleared it and those that were still inserting then (`Authors`; a list that was
broken off has nobody for author). Where there are none the type is empty, and where there
is one importer only, nobody else is inserting and what is stored is its list as far as it
has come, the whole of it when it has finished. `ImportersInv` says that an importer at
work and the places stored belong to Events that exist.

**Fresh reads.** `FreshInv` is about what is *due* to a cache: the statements
acknowledged and those of an administrator whose flush is past it. It speaks of what
is cached and of what a reader has fetched and not stored yet. The second part is
preserved by a flush only because `Invalidate` waits for the mutex, which a reader
holds from before the fetch until after the store (`MutexInv`). A token that does not
know of an acknowledged statement was made before it (`TokenInv`), and no cached
value that does not know of a statement is newer than that (`AgeInv`).

**Migration.** Changes are taken back: 29 renames what 27 created, 35 drops what older
code reads, and a server that was slow can make the changes of 27 again after another has
made those of 29, since `migrate.go` takes no lock. So the version stored does not vouch
for the schema by itself, and there are three arguments. As long as migrations never
overlapped (`SingleInv`), whoever migrates works on the version after the one stored, and
only objects of that script may differ from the version stored; `ScriptRun` says that
they do not once the script has run, even if it was begun before and broken off. If
migrations overlap, all is well if no object is shaped twice in the scripts ahead
(`OnceInv`): a change made once then stands, and each server has made, or found made,
everything before the place where it is. The repository's scripts are so from version 29
on. A server of older code that already serves may be left with what newer scripts have
made of its schema, which `SchemaIsWhole` names; `NeverShaped` shows that the rest of the
schema is still its own. The script of a new database sets the version second. `NewInv`
covers one server that is alone and in its first life.

**Logs.** `RowsInv` accounts for each row that was offered to a log: queued, with the
worker, written or counted. `StepInv` relates a request's place among the adapters to
that account. The two steps of a drop (a full queue, then the count) leave the gap that
`DropInv` describes and `DropsAreReported` names.

Assumptions worth knowing, besides bounds being at least one: the bodies of
MembershipEdit as above, and no link is stored by half at the start; the names of the
record's own page in Attachment and of the two entries that exist before in RecordParts
are not those of an Incident or a request; and each script leads from the schema of one
version to that of the next, and `current.sql` to that of its code (`Leads`), which
`migrate_test.go` compares.

Induction over data is done where a proof needs it without the library's induction
theorems, which take an operator as a parameter: what does not hold for all numbers fails
for a least one (`LeastOne`, from `WellFoundedInduction`).

Beyond the tools and left to TLC: liveness under fairness and everything about ENABLED,
which are `EveryRequestAnswered` and `ServedWithoutWaiting`. And the two properties that
the code does not have (section 5) are refuted by TLC.

## 5. Where the code and its documents disagree

Two disagreements have a run that shows them:

1. **A Field Report's page hears nothing** (`attachment_field_report_page`).
   `field_report.ts:115` compares the number of an event's Event with
   `ims.pathIds.eventName`; the other pages compare with `eventId`. README.md:267-269
   says that browsers viewing the record refetch and redraw.
2. **Visits are not told of missed events** (`live_pages_visit`).
   `subscribeToUpdates` posts `update_all` on two channels of three;
   `sanctuary_visits.ts:176` and its test expect it.

The models contain these as well, as named exceptions of properties or as
behaviours of the actions, without a run of their own:

- `incidentrelation.go:45-47` calls a request for the membership an Incident already has
  "a true no-op, writing no report entry". Two concurrent removals both pass the check,
  and nobody looks at how many rows the delete removed: both log (`DeleteRow` and `Log`
  of MembershipEdit).
- "Event parent must be an event group" (`event.go:222`) is checked when the parent
  is given and not when the parent is un-grouped later. `PermissionsAgree` names the
  case in which the two computations of permissions then differ.
- `getSearch` reads the rules, the parents and the groups in statements of their own
  (`search.go:130`). An Event that is given another parent in between may be judged by
  the rules of the one and the place of the other; `ReadsWereAllowed` excepts these Events
  as `unsettled`.
- "An event group holds no places" is checked against what the request names: an
  Event that has them already can be made a group (`Allowed`).
- README.md:199-207 (Layer 1) says that whatever touches two records locks their rows in
  one global order and bumps their versions before it writes membership, in
  `bumpIncidentPairVersions`. There is no such function: the relation's rows are locked
  in the order of the request, no version moves, and deadlocks are retried
  (`DeadlockVictim` of MembershipEdit).
- A duplicate key in `setIncidentType` rolls back and still notifies
  (`InsertDuplicate`); and every error of the first insert of a link is a 400.
- A strike that names an entry of another record changes nothing and is logged and
  announced all the same (`hit` in `StrikesExplained`).
- `directory.go:86` asks for a flush after any write. A handler whose later statement
  fails returns without one though the earlier statements are stored (`WriteFails`);
  `TokensForgetEventually` bounds the time until that shows.
- `deleteEvent` promises all associated rows; an entry appended between its two
  steps stays, without a record (`AppendEntry` of EventAdmin).
- The script of a new database stores the version as its second statement, before the
  tables. A server that is killed there, or a second one that starts there, leaves a
  database that passes for migrated (an exception in `SchemaIsWhole`).
- `migrate.go:79` takes no lock. Two servers that are started together on a version below
  27 can interleave so that 27 takes back what 29 made, and the database says 29 or newer
  (the condition `~overlapped \/ ShapedOnce` in `SchemaIsWhole`).
- A server that serves goes on while newer code migrates, and loses the columns that
  scripts like 29, 32 and 35 rename or drop (`Begun` in `WholeSchema`).
- A commit whose acknowledgement is lost is answered 500 and announced to nobody
  (`fieldreport.go:410`): pages stay behind until the next change (`untold` in
  `PagesConverge`).
- README.md:282 sends "every mutation a detail page makes" through the chain.
  Uploads and attachments go past it (`FreeReach`), and announced redraws do not wait
  for it (`Hear`); `SettlesOnOwnWrites` is therefore about redraws by the chain.
- A creation whose answer is lost leaves a second record on the retry
  (`lostCreates` in `PageCreatesOnce`).

## 6. What is not modelled

- *Bodies and formats*: parsing, wording of entries, dates, HTML. A field is a value;
  what a property cannot tell apart is not in the model. The same holds for the matching,
  the snippets, the limits and the order of a search.
- *Authentication*: passwords, hashes and signatures. A token is its claims and its
  end. The refresh token's own life only bounds how long renewals continue.
- *Global permissions*: who is an administrator is a flag of a request.
- *Incident Type administration*: a row that is read, merged and written without a
  guard, like an Event's, but no other row depends on its columns. The later of two edits
  wins, and that is all there is to say.
- *The pool of connections*: each statement gets a connection. The recheck of
  RecordEdit takes a second one while its transaction holds the first, so enough of
  them can wait for each other. This hazard is listed and not covered.
- *The order of an index in InnoDB*: a gap is that of one row in MembershipEdit and
  that of an empty roster in RecordParts. Neighbours that share it only wait longer,
  and a wait that ends in a deadlock is retried in the same way.
- *The order of the entries* that one Field Report gets from an edit and an attachment
  at the same time: `LinkEntry` is a statement of its own, and nothing compares its
  position with that of others.
- *External systems*: the Clubhouse database, the Burning Man API, object stores, other
  browsers. The last are `OthersWrite` in ClientEdits and the other requests elsewhere.
- *Generated code, templates, tables, maps, build tools, tests*: no state of their own,
  or not part of the running system.

## 7. Plan

Done, in this order: RecordEdit with AtomicRecord, RecordCreate, MembershipEdit,
Attachment, LivePages, EventAdmin, DirectoryCache, ClientEdits; then RecordParts with
RecordReads, ServerLife, EventReads; and the proofs of the safety properties of all of
them.

Left, the most important first:

1. *ClientEdits*: attachments past the chain, and the form for report entries, whose
   success clears what was typed meanwhile.
2. *Measures*: for `EveryRequestAnswered` and `ServedWithoutWaiting`, what
   `EveryAttemptEnds` is for RecordEdit: each step of a request brings it closer to its
   answer. That part needs no fairness and can be proved.
3. *The pool of connections* in RecordEdit: worth it once there is a bound on the pool
   that the code sets with this wait in mind.
4. *Tables* of records in the browser, as far as their filters decide which events they
   follow.
